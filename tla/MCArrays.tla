------------------------------- MODULE MCArrays -------------------------------
(***************************************************************************)
(* The arrays of a sender (RangeList) and those of a receiver (AckRanges). *)
(* They share nothing, so a behaviour works on the ones or on the others.  *)
(***************************************************************************)
EXTENDS RangeList, AckRanges

ArraysInit == Init /\ PnInit

RangesStep == PnInit /\ Next /\ UNCHANGED ackVars

NumbersStep == Init /\ PnNext /\ UNCHANGED rangeVars

ArraysNext == RangesStep \/ NumbersStep

ArraysSpec == ArraysInit /\ [][ArraysNext]_<<rangeVars, ackVars>>
=============================================================================
