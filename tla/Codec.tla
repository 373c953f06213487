-------------------------------- MODULE Codec --------------------------------
(***************************************************************************)
(* The framing of one message (codec.rs) and of a Game Coordinator's       *)
(* message inside its relay (gc/envelope.rs).  A frame is a sequence of    *)
(* bytes: a message type whose top bit marks protobuf, a header length,    *)
(* the header and the body.  Bytes and words are scaled down.              *)
(***************************************************************************)
EXTENDS Integers, Sequences

CONSTANT Radix   \* values of a byte

ASSUME RadixAssumption == Radix \in Nat /\ Radix > 1 /\ Radix % 2 = 0

Word == 2                            \* bytes of a u32
PROTO_MASK == (Radix * Radix) \div 2  \* its top bit

Err == [ok |-> FALSE, val |-> <<>>]
Ok(v) == [ok |-> TRUE, val |-> v]

ToLE(n) == <<n % Radix, n \div Radix>>
FromLE(s) == s[1] + Radix * s[2]
From(s, i) == SubSeq(s, i, Len(s))

-----------------------------------------------------------------------------
\* codec.rs.  Headers are opaque bytes; one holding the highest byte is taken for
\* an undecodable one.
put_prefix(type, headerLen) == ToLE((type % PROTO_MASK) + PROTO_MASK) \o ToLE(headerLen)
encode_raw(type, header, body) == put_prefix(type, Len(header)) \o header \o body

HeaderDecodes(h) == \A i \in DOMAIN h : h[i] # Radix - 1

EmsgOf(raw) == raw % PROTO_MASK

\* Ok(<<>>) is a legacy frame, Ok(<<parts>>) a protobuf one.
unframe(bytes) ==
    IF Len(bytes) < 2 * Word THEN Err
    ELSE LET raw == FromLE(bytes)
             n == FromLE(From(bytes, Word + 1))
             rest == From(bytes, 2 * Word + 1)
         IN IF raw < PROTO_MASK THEN Ok(<<>>)
            ELSE IF Len(rest) < n THEN Err
            ELSE Ok(<<[emsg |-> EmsgOf(raw), header |-> SubSeq(rest, 1, n),
                       body |-> From(rest, n + 1)]>>)

try_decode(bytes) ==
    LET f == unframe(bytes) IN
    IF f.ok /\ f.val # <<>> /\ ~HeaderDecodes(f.val[1].header) THEN Err ELSE f

-----------------------------------------------------------------------------
\* gc/envelope.rs.  CMsgGcClient: the app id, the relay's msgtype, the payload.
wrap(appid, type, header, body) ==
    ToLE(appid) \o ToLE((type % PROTO_MASK) + PROTO_MASK) \o encode_raw(type, header, body)

\* fault: the relay's own type, which keeps the flag, is reported
RelayType(body, parts) == FromLE(From(body, Word + 1))
GcType(body, parts) == parts.emsg

unwrap(msg) ==
    IF Len(msg.body) < 2 * Word THEN Err
    ELSE LET f == unframe(From(msg.body, 2 * Word + 1)) IN
         IF ~f.ok \/ f.val = <<>> THEN f
         ELSE IF ~HeaderDecodes(f.val[1].header) THEN Err
         ELSE Ok(<<[appid |-> FromLE(msg.body), type |-> GcType(msg.body, f.val[1]),
                    header |-> f.val[1].header, body |-> f.val[1].body]>>)
=============================================================================
