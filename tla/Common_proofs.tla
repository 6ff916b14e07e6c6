---------------------------- MODULE Common_proofs ----------------------------
(***************************************************************************)
(* What the proofs about several components rest on: induction on the      *)
(* natural numbers and functions defined from their value one place before *)
(* (the loops over a list of events, packets or ranges are functions of    *)
(* this form), and what the operations on range sets return, for every cap.*)
(***************************************************************************)
EXTENDS RangeSet, FiniteSetTheorems, TLAPS

(***************************************************************************)
(* Induction on the natural numbers, stated with a set in the place of the *)
(* predicate.  Functions defined from their value one place before exist,  *)
(* and a set that every step stays in holds all of their values.           *)
(***************************************************************************)
\* A non-empty set of natural numbers has a least element.
LEMMA LeastElement ==
  ASSUME NEW S, S \subseteq Nat, S # {}
  PROVE  \E n \in S : \A m \in S : n <= m
<1> DEFINE Below(n) == 0 .. n - 1
           T == {Below(n) : n \in S}
<1>1. T \subseteq FiniteSubsetsOf(Nat) /\ T # {}
  <2>1. \A n \in S : Below(n) \subseteq Nat /\ IsFiniteSet(Below(n))
    BY FS_Interval
  <2> QED
    BY <2>1 DEF FiniteSubsetsOf
<1>2. IsWellFoundedOn(StrictSubsetOrdering(Nat), FiniteSubsetsOf(Nat))
  BY FS_StrictSubsetOrderingWellFounded
<1> HIDE DEF T
<1>3. PICK x \in T : \A y \in T : ~ (<<y, x>> \in StrictSubsetOrdering(Nat))
  BY <1>1, <1>2, WFMin
<1>4. PICK n \in S : x = Below(n)
  BY <1>3 DEF T
<1>5. ASSUME NEW m \in S, m < n PROVE FALSE
  <2>1. Below(m) \subseteq Below(n) /\ Below(m) # Below(n)
    <3>1. m \in Below(n) /\ m \notin Below(m)
      BY <1>5
    <3>2. Below(m) \subseteq Below(n)
      BY <1>5
    <3> QED
      BY <3>1, <3>2
  <2>2. <<Below(m), Below(n)>> \in StrictSubsetOrdering(Nat)
    BY <2>1 DEF StrictSubsetOrdering
  <2> QED
    BY <1>3, <1>4, <2>2 DEF T
<1> QED
  BY <1>5

\* Induction: a set of natural numbers that has 0 and with every number the
\* next one has them all.
THEOREM Induction ==
  ASSUME NEW S, 0 \in S, \A n \in Nat : n \in S => n + 1 \in S
  PROVE  Nat \subseteq S
<1> SUFFICES ASSUME Nat \ S # {} PROVE FALSE
  OBVIOUS
<1>1. PICK n \in Nat \ S : \A m \in Nat \ S : n <= m
  BY LeastElement
<1>2. n - 1 \in Nat /\ n - 1 \in S
  BY <1>1
<1> QED
  BY <1>1, <1>2

\* The same up to a bound.
LEMMA InductionUpTo ==
  ASSUME NEW n \in Nat, NEW S, 0 \in S,
         \A i \in 1 .. n : i - 1 \in S => i \in S
  PROVE  0 .. n \subseteq S
<1> DEFINE R == S \cup {i \in Nat : i > n}
<1>1. 0 \in R
  OBVIOUS
<1>2. \A i \in Nat : i \in R => i + 1 \in R
  <2> SUFFICES ASSUME NEW i \in Nat, i \in R PROVE i + 1 \in R
    OBVIOUS
  <2>1. CASE i >= n
    BY <2>1
  <2>2. CASE i < n
    BY <2>2
  <2> QED
    BY <2>1, <2>2
<1> HIDE DEF R
<1>3. Nat \subseteq R
  BY <1>1, <1>2, Induction
<1> QED
  BY <1>3 DEF R

\* A function over 0 .. n that starts with `base' and goes from one value to the
\* next by `step'; its value at i is in T[i].
Steps(T, base, n, step) ==
  n \in Nat /\ base \in T[0] /\ \A i \in 1 .. n : step[i] \in [T[i - 1] -> T[i]]

Follows(f, T, base, n, step) ==
  /\ f = [i \in 0 .. n |-> f[i]] /\ \A i \in 0 .. n : f[i] \in T[i]
  /\ f[0] = base /\ \A i \in 1 .. n : f[i] = step[i][f[i - 1]]

\* There is one.
LEMMA RecursionExists ==
  ASSUME NEW T, NEW base, NEW n, NEW step, Steps(T, base, n, step)
  PROVE  \E f : Follows(f, T, base, n, step)
<1> DEFINE S == {m \in 0 .. n : \E f : Follows(f, T, base, m, step)}
<1>0. /\ n \in Nat /\ base \in T[0]
      /\ \A i \in 1 .. n : \A x \in T[i - 1] : step[i][x] \in T[i]
  BY DEF Steps
<1>1. 0 \in S
  <2> DEFINE f == [i \in 0 .. 0 |-> base]
  <2>1. f = [i \in 0 .. 0 |-> f[i]] /\ f[0] = base
    OBVIOUS
  <2> HIDE DEF f
  <2>2. Follows(f, T, base, 0, step)
    BY <1>0, <2>1 DEF Follows
  <2> QED
    BY <1>0, <2>2
<1>2. \A m \in 1 .. n : m - 1 \in S => m \in S
  <2> SUFFICES ASSUME NEW m \in 1 .. n, m - 1 \in S PROVE m \in S
    OBVIOUS
  <2>1. PICK f : Follows(f, T, base, m - 1, step)
    OBVIOUS
  <2> DEFINE g == [i \in 0 .. m |-> IF i = m THEN step[m][f[m - 1]] ELSE f[i]]
  <2>2. step[m][f[m - 1]] \in T[m]
    <3>1. f[m - 1] \in T[m - 1]
      BY <1>0, <2>1 DEF Follows
    <3> QED
      BY <1>0, <3>1
  <2>3. g = [i \in 0 .. m |-> g[i]]
    OBVIOUS
  <2>4. g[m] = step[m][f[m - 1]] /\ \A i \in 0 .. m - 1 : g[i] = f[i]
    BY <1>0
  <2> HIDE DEF g
  <2>5. \A i \in 0 .. m : g[i] \in T[i]
    <3> SUFFICES ASSUME NEW i \in 0 .. m PROVE g[i] \in T[i]
      OBVIOUS
    <3>1. CASE i = m
      BY <2>2, <2>4, <3>1
    <3>2. CASE i # m
      BY <1>0, <2>1, <2>4, <3>2 DEF Follows
    <3> QED
      BY <3>1, <3>2
  <2>6. g[0] = base
    BY <1>0, <2>1, <2>4 DEF Follows
  <2>7. ASSUME NEW i \in 1 .. m PROVE g[i] = step[i][g[i - 1]]
    <3>1. i - 1 \in 0 .. m - 1 /\ g[i - 1] = f[i - 1]
      BY <1>0, <2>4
    <3>2. CASE i = m
      BY <3>1, <3>2, <2>4
    <3>3. CASE i # m
      <4>1. i \in 1 .. m - 1 /\ g[i] = f[i]
        BY <1>0, <3>3, <2>4
      <4> QED
        BY <3>1, <4>1, <2>1 DEF Follows
    <3> QED
      BY <3>2, <3>3
  <2>8. Follows(g, T, base, m, step)
    BY <2>3, <2>5, <2>6, <2>7 DEF Follows
  <2> QED
    BY <2>8
<1> HIDE DEF S
<1>3. n \in S
  <2>1. 0 .. n \subseteq S
    BY <1>0, <1>1, <1>2, InductionUpTo
  <2> QED
    BY <1>0, <2>1
<1> QED
  BY <1>3 DEF S

(***************************************************************************)
(* Range sets                                                              *)
(***************************************************************************)
\* The bytes of a range are the numbers from its start to before its end.
LEMMA SpanElements ==
  ASSUME NEW a \in Nat, NEW b \in Nat
  PROVE  /\ Span(a, b) \subseteq Nat
         /\ \A x : x \in Span(a, b) <=> x \in Nat /\ a <= x /\ x < b
BY DEF Span

\* Sets of bytes below a bound have a number of runs.
LEMMA RangeCountType ==
  ASSUME NEW n \in Nat, NEW S \in SUBSET Span(0, n)
  PROVE  /\ S \subseteq Nat
         /\ IsFiniteSet(S) /\ IsFiniteSet(RunStarts(S))
         /\ RangeCount(S) \in Nat
<1>1. IsFiniteSet(0 .. (n - 1))
  BY FS_Interval
<1>2. S \in SUBSET (0 .. (n - 1))
  BY DEF Span
<1>3. IsFiniteSet(S)
  BY <1>1, <1>2, FS_Subset
<1>4. RunStarts(S) \in SUBSET S
  BY DEF RunStarts
<1>5. IsFiniteSet(RunStarts(S))
  BY <1>3, <1>4, FS_Subset
<1>6. RangeCount(S) \in Nat
  BY <1>5, FS_CardinalityType DEF RangeCount
<1>. QED  BY <1>2, <1>3, <1>5, <1>6

\* A range that was not there leaves the set alone when it is removed: no run
\* is split, so nothing behind it is given up for want of a slot.
LEMMA RemoveAbsent ==
  ASSUME NEW n \in Nat, NEW S \in SUBSET Span(0, n),
         NEW a, NEW b, NEW cap,
         S \cap Span(a, b) = {}
  PROVE  RangeRemove(S, a, b, cap) = S
<1>1. S \ Span(a, b) = S
  OBVIOUS
<1>2. RangeCount(S) \in Nat
  BY RangeCountType
<1>3. ~ (RangeCount(S \ Span(a, b)) > RangeCount(S))
  BY <1>1, <1>2
<1>. QED  BY <1>1, <1>3 DEF RangeRemove

\* Removing the front of the set never splits a run either: exactly the front
\* is taken.
LEMMA RemoveFront ==
  ASSUME NEW n \in Nat, NEW S \in SUBSET Span(0, n),
         NEW len, NEW a \in Nat, NEW b \in Nat, NEW cap,
         FrontOf(S, len, a, b)
  PROVE  RangeRemove(S, a, b, cap) = S \ Span(a, b)
<1>. DEFINE K == S \ Span(a, b)
<1>1. /\ S \subseteq Nat /\ IsFiniteSet(RunStarts(S)) /\ RangeCount(S) \in Nat
      /\ K \in SUBSET Span(0, n)
  BY RangeCountType
<1>2. /\ a \in S /\ \A x \in S : a <= x
      /\ a < b /\ \A x : x \in Span(a, b) <=> x \in Nat /\ a <= x /\ x < b
  BY SpanElements DEF FrontOf
<1>3. a \in RunStarts(S)
  BY <1>1, <1>2 DEF RunStarts
<1>4. RunStarts(K) \subseteq (RunStarts(S) \ {a}) \cup {b}
  <2>. SUFFICES ASSUME NEW x \in RunStarts(K), x # b
                PROVE  x \in RunStarts(S) \ {a}
    OBVIOUS
  <2>1. x \in S /\ x \in Nat /\ x > b
    BY <1>1, <1>2 DEF RunStarts
  <2>2. ASSUME NEW y \in S, y + 1 = x PROVE FALSE
    <3>1. y \in Nat /\ y >= b
      BY <2>1, <2>2, <1>1
    <3>2. y \in K
      BY <3>1, <1>2
    <3>. QED  BY <2>2, <3>2 DEF RunStarts
  <2>. QED  BY <2>1, <2>2, <1>2 DEF RunStarts
<1>5. /\ IsFiniteSet(RunStarts(S) \ {a})
      /\ Cardinality(RunStarts(S) \ {a}) = RangeCount(S) - 1
  BY <1>1, <1>3, FS_RemoveElement DEF RangeCount
<1>6. /\ IsFiniteSet((RunStarts(S) \ {a}) \cup {b})
      /\ Cardinality((RunStarts(S) \ {a}) \cup {b}) <= RangeCount(S)
  <2>. DEFINE T == RunStarts(S) \ {a}
  <2>. HIDE DEF T
  <2>1. IsFiniteSet(T) /\ Cardinality(T) = RangeCount(S) - 1
    BY <1>5 DEF T
  <2>2. /\ IsFiniteSet(T \cup {b})
        /\ Cardinality(T \cup {b}) = IF b \in T THEN Cardinality(T) ELSE Cardinality(T) + 1
    BY <2>1, FS_AddElement
  <2>3. Cardinality(T \cup {b}) <= RangeCount(S)
    BY <2>1, <2>2, <1>1
  <2>. QED  BY <2>2, <2>3 DEF T
<1>7. Cardinality(RunStarts(K)) <= Cardinality((RunStarts(S) \ {a}) \cup {b})
  BY <1>4, <1>6, FS_Subset
<1>8. /\ RangeCount(K) \in Nat
      /\ Cardinality((RunStarts(S) \ {a}) \cup {b}) \in Nat
  BY <1>1, <1>6, RangeCountType, FS_CardinalityType
<1>9. ~ (RangeCount(K) > RangeCount(S))
  BY <1>1, <1>6, <1>7, <1>8 DEF RangeCount
<1>. QED  BY <1>9 DEF RangeRemove

\* Recording a loss keeps what was recorded and adds only bytes of the loss, and
\* all of them when every run found a slot.
LEMMA InsertRunsBounds ==
  ASSUME NEW S, NEW new, NEW cap
  PROVE  /\ S \subseteq RangeInsertRuns(S, new, cap)
         /\ RangeInsertRuns(S, new, cap) \subseteq S \cup new
         /\ Misfits(S, new, cap) = {} => RangeInsertRuns(S, new, cap) = S \cup new
BY DEF RangeInsertRuns
=============================================================================
