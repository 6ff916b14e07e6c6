----------------------------- MODULE MCDatagrams -----------------------------
EXTENDS Datagrams

MCClientCid == <<200, 0>>
MCServerCid == <<1, 2, 3>>
MCFirstDcid == <<7, 7, 7, 7>>
MCRetryCid == <<0, 5, 0>>

\* One byte more than a one-byte length can say.
MCTokenBytes == [i \in 1 .. 64 |-> i - 1]

\* Numbers on both sides of every bound of the variable-length encoding.
Ack(nums) == Frame("ack", nums, FALSE, <<>>)
Plain(type, nums) == Frame(type, nums, FALSE, <<>>)
Crypto(offset, len) == Frame("crypto", <<offset>>, FALSE, [i \in 1 .. len |-> i % 7])
Close(error, type, reason) == Frame("connection_close", <<error, type>>, FALSE, reason)
Stream(id, offset, fin, len) == Frame("stream", <<id, offset>>, fin, [i \in 1 .. len |-> i % 3])

\* Data of 40 and 41 bytes give an Initial Length of 63 and 64.
MCFramesOf ==
  [initial   |-> {<<Ack(<<0, 0>>)>>, <<Crypto(0, 40)>>, <<Crypto(63, 41)>>,
                  <<Ack(<<64, 2, 1, 0>>), Crypto(0, 1)>>},
   handshake |-> {<<Ack(<<16383, 16383>>)>>, <<Crypto(64, 64)>>,
                  <<Ack(<<16384, 63, 0, 64, 63, 0>>), Crypto(16384, 3)>>},
   one_rtt   |-> {<<Plain("handshake_done", <<>>)>>, <<Ack(<<1073741823, 0>>)>>,
                  <<Ack(<<1, 1>>), Plain("max_data", <<1073741823>>),
                    Plain("max_stream_data", <<4, 1073741824>>), Stream(4, 0, TRUE, 0)>>,
                  <<Plain("data_blocked", <<64>>), Plain("stream_data_blocked", <<0, 63>>),
                    Stream(0, 16384, FALSE, 2)>>,
                  <<Stream(0, 1073741824, TRUE, 64)>>}]

MCOtherFrames ==
  [initial   |-> {<<Plain("ping", <<>>)>>, <<Ack(<<64, 2, 1, 0>>), Crypto(0, 40)>>,
                  <<Close(296, 6, <<>>)>>},
   handshake |-> {<<Ack(<<3, 0>>), Crypto(64, 3)>>},
   one_rtt   |-> {<<Plain("handshake_done", <<>>), Plain("new_token", <<>>),
                    Plain("new_connection_id", <<>>)>>,
                  <<Stream(0, 0, FALSE, 2), Stream(4, 5, TRUE, 0)>>,
                  <<Stream(4, 5, FALSE, 1), Ack(<<9, 2, 0, 0>>)>>,
                  <<Close(10, 0, <<>>)>>, <<Close(64, 0, <<>>)>>, <<Close(10, 8, <<>>)>>,
                  <<Close(0, 0, <<72, 105>>)>>,
                  <<Plain("new_token", <<>>), Stream(0, 0, TRUE, 2)>>}]

MCDefaultNumbers ==
  1 :> 30000 @@ 3 :> 65527 @@ 4 :> 1048576 @@ 5 :> 262144 @@ 6 :> 262144 @@ 8 :> 32

\* The client's parameters, with numbers of every length; the server's, with the
\* ids it must repeat; and the least that is accepted.
MCHellos ==
  {15 :> MCClientCid @@ 17 :> <<V1, V1, V2>> @@ 4 :> 1073741824 @@ 8 :> 63 @@ MCDefaultNumbers,
   0 :> MCFirstDcid @@ 12 :> TRUE @@ 15 :> MCServerCid @@ 16 :> MCRetryCid
     @@ 17 :> <<V2, V2, V1>> @@ 5 :> 64 @@ 6 :> 16383 @@ 1 :> 0 @@ MCDefaultNumbers,
   15 :> MCServerCid @@ MCDefaultNumbers}
=============================================================================
