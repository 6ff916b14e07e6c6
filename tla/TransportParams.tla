--------------------------- MODULE TransportParams ---------------------------
(***************************************************************************)
(* The transport parameters extension (transport_params.c): a sequence of  *)
(* identifier, length and value.  Parameters are a function from the       *)
(* identifiers that are present to their values: a number, a connection    *)
(* id, TRUE for a flag, or a sequence of versions, the chosen one first.   *)
(***************************************************************************)
EXTENDS PacketCodec

CONSTANT DefaultNumbers    \* ai_quic_transport_params_init: NumberIds to numbers

OriginalDcid == 0
MaxIdleTimeout == 1
MaxUdpPayloadSize == 3
InitialMaxData == 4
StreamDataBidiLocal == 5
StreamDataBidiRemote == 6
MaxStreamsBidi == 8
DisableActiveMigration == 12
InitialScid == 15
RetryScid == 16
VersionInformation == 17
MaxVersions == 8

NumberIds == {MaxIdleTimeout, MaxUdpPayloadSize, InitialMaxData, StreamDataBidiLocal,
              StreamDataBidiRemote, MaxStreamsBidi}
CidIds == {OriginalDcid, InitialScid, RetryScid}

ASSUME DefaultsAssumption == DefaultNumbers \in [NumberIds -> Nat]

\* ai_quic_transport_params_encode: the value of a parameter, its three fields,
\* and all that are present in the order of their identifiers.
ValueBytes(id, value) ==
  CASE id \in NumberIds              -> EncodeVarint(value)
    [] id \in CidIds                 -> value
    [] id = DisableActiveMigration   -> <<>>
    [] id = VersionInformation       -> FlattenSeq(value)

\* A slip: a flag is written without its length of 0.
EncodeBareFlag(id, value) ==
  LET bytes == ValueBytes(id, value) IN
  (IF bytes = <<>> THEN EncodeVarint(id) ELSE EncodeNumbers(<<id, Len(bytes)>>)) \o bytes

EncodeParam(id, value) ==
  LET bytes == ValueBytes(id, value) IN EncodeNumbers(<<id, Len(bytes)>>) \o bytes

EncodeParams(params) ==
  FlattenSeq([id \in 1 .. VersionInformation + 1 |->
    IF id - 1 \in DOMAIN params THEN EncodeParam(id - 1, params[id - 1]) ELSE <<>>])

\* ai_quic_transport_params_decode: what one value means, Failed when it cannot
\* be the value of its parameter.
DecodeNumber(bytes) ==
  LET number == ReadVarint(bytes, 1) IN
  IF number.next = Len(bytes) + 1 THEN number ELSE Failed

DecodeVersions(bytes) ==
  LET count == Len(bytes) \div 4
      versions == [i \in 1 .. count |-> SubSeq(bytes, 4 * i - 3, 4 * i)]
  IN  IF \/ Len(bytes) % 4 # 0 \/ count \notin 1 .. (MaxVersions + 1)
         \/ \E i \in DOMAIN versions : versions[i] = Zeros
      THEN Failed
      ELSE [next |-> Len(bytes) + 1, value |-> versions]

DecodeValue(id, bytes) ==
  CASE id \in NumberIds -> DecodeNumber(bytes)
    [] id \in CidIds -> IF Len(bytes) > MaxCidLen THEN Failed
                        ELSE [next |-> Len(bytes) + 1, value |-> bytes]
    [] id = DisableActiveMigration -> IF bytes # <<>> THEN Failed
                                      ELSE [next |-> 1, value |-> TRUE]
    [] id = VersionInformation -> DecodeVersions(bytes)

KnownIds == NumberIds \cup CidIds \cup {DisableActiveMigration, VersionInformation}

\* Parameters start from their defaults, and unknown ones are skipped; a peer that
\* does not name its own connection id is refused.
DecodeParams(b) ==
  LET from[p \in Nat] ==
        IF p > Len(b) THEN [next |-> p, value |-> <<>>]
        ELSE LET id    == ReadVarint(b, p)
                 bytes == ReadBlock(b, id.next, Len(b))
                 value == DecodeValue(id.value, bytes.value)
                 rest  == from[bytes.next]
             IN  IF bytes.next = 0 THEN Failed
                 ELSE IF id.value \notin KnownIds THEN rest
                 ELSE IF value.next = 0 \/ rest.next = 0 THEN Failed
                 ELSE [next |-> rest.next, value |-> rest.value @@ (id.value :> value.value)]
      all == from[1]
  IN  IF all.next = 0 THEN Failed
      ELSE IF InitialScid \notin DOMAIN all.value \/ all.value[InitialScid] = <<>> THEN Failed
      ELSE [all EXCEPT !.value = @ @@ DefaultNumbers]
=============================================================================
