--------------------------- MODULE MCCmEstablish ---------------------------
(* Three rounds over lists of up to three servers; batches of up to two messages. *)
EXTENDS CmEstablish

MCListings == {<<>>, <<"netfilter">>, <<"websockets">>,
               <<"netfilter", "missing", "websockets">>,
               <<"websockets", "missing", "websockets">>}

Responses == [emsg : {"response"}, eresult : {OK}, heartbeat : {<<>>, <<0>>, <<30>>}]
             \union [emsg : {"response", "loggedOff"}, heartbeat : {<<>>},
                     eresult : {Absent, TRY_ANOTHER_CM, INVALID_PASSWORD}]
Other == [emsg : {"friends", "garbledResponse"}, eresult : {Absent}, heartbeat : {<<>>}]
Messages == Responses \union Other
MCFrames == {<<m>> : m \in Messages} \union {<<m, n>> : m, n \in Messages}
=============================================================================
