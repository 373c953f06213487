------------------------------ MODULE WireFormat ------------------------------
(***************************************************************************)
(* Reading messages off the socket (connection.rs read_message,            *)
(* decode_multi and gunzip) with the framing of Codec.  A Multi's body is a *)
(* batch of length-prefixed frames, compressed or not, that may nest.  The *)
(* protobuf and gzip libraries are stand-ins that can fail.                *)
(***************************************************************************)
EXTENDS Codec, SequencesExt

CONSTANTS MaxDepth,  \* MAX_MULTI_DEPTH
          Cap,       \* MAX_MULTI_UNZIPPED
          Wires      \* the sequences of frames Steam may send

MULTI == 1
FROM_GC == 2

Take(s, n) == SubSeq(s, 1, IF n < Len(s) THEN n ELSE Len(s))

-----------------------------------------------------------------------------
\* gzip stands for run-length pairs: a count and the byte it repeats.
Deflate(s) == FlattenSeq([i \in DOMAIN s |-> <<1, s[i]>>])
Inflate(d) == FlattenSeq([i \in 1..(Len(d) \div 2) |-> [k \in 1..d[2 * i - 1] |-> d[2 * i]]])

\* fault: the size Steam claims is the only limit
gunzip_trusting(data) == IF Len(data) % 2 # 0 THEN Err ELSE Ok(Inflate(data))
gunzip(data) == IF Len(data) % 2 # 0 \/ Len(Inflate(data)) > Cap THEN Err
                ELSE Ok(Inflate(data))

\* CMsgMulti: size_unzipped (0 for a plain body), then message_body.
Payload(body) == IF Len(body) < Word THEN Err
                 ELSE LET size == FromLE(body)
                          data == From(body, Word + 1)
                      IN IF size = 0 THEN Ok(data)
                         ELSE IF size > Cap THEN Err ELSE gunzip(data)

Nested(depth) == depth + 1

\* The `?` of the loop: one failure fails the whole batch.
Join(a, b) == IF a.ok /\ b.ok THEN Ok(a.val \o b.val) ELSE Err

\* fault: a message cut off at the end of its batch is taken as it is
CutAccepted(rest, len) == FALSE
Truncated(rest, len) == Len(rest) < len

RECURSIVE decode_multi(_, _), Split(_, _)
\* A sub-message: nested batches are flattened, legacy messages skipped.
Unpacked(bytes, depth) ==
    LET d == try_decode(bytes) IN
    IF d.ok /\ d.val # <<>> /\ d.val[1].emsg = MULTI
    THEN decode_multi(d.val[1].body, depth) ELSE d
Split(cur, depth) ==
    IF Len(cur) < Word THEN Ok(<<>>)
    ELSE LET len == FromLE(cur)
             rest == From(cur, Word + 1)
         IN IF Truncated(rest, len) THEN Err
            ELSE Join(Unpacked(Take(rest, len), Nested(depth)),
                      Split(From(rest, len + 1), depth))
decode_multi(body, depth) ==
    IF depth > MaxDepth THEN Err
    ELSE LET p == Payload(body) IN IF p.ok THEN Split(p.val, depth) ELSE Err

-----------------------------------------------------------------------------
\* What Steam sends: a tree of messages, encoded.
RECURSIVE EncodeFrame(_), Leaves(_), Fits(_, _), BatchBytes(_)
BatchBytes(parts) ==
    IF parts = <<>> THEN <<>>
    ELSE LET f == EncodeFrame(Head(parts)) IN ToLE(Len(f)) \o f \o BatchBytes(Tail(parts))
EncodeFrame(t) ==
    CASE t.kind = "message" -> encode_raw(t.emsg, t.header, t.body)
      [] t.kind = "legacy" -> ToLE(t.emsg) \o ToLE(0) \o t.body
      [] t.kind = "multi" ->
             LET batch == BatchBytes(t.parts) IN
             encode_raw(MULTI, <<>>,
                 CASE t.zip = "no" -> ToLE(0) \o batch
                   [] t.zip = "yes" -> ToLE(Len(batch)) \o Deflate(batch)
                   [] t.zip = "lie" -> ToLE(1) \o Deflate(batch))
\* The messages in it, in order.
Leaves(t) == CASE t.kind = "message" -> <<[emsg |-> t.emsg, header |-> t.header, body |-> t.body]>>
               [] t.kind = "legacy" -> <<>>
               [] t.kind = "multi" -> FlattenSeq([i \in DOMAIN t.parts |-> Leaves(t.parts[i])])
\* It is well formed, not nested too deep and not larger than the cap.
Fits(t, depth) ==
    IF t.kind = "multi"
    THEN /\ depth <= MaxDepth
         /\ t.zip # "no" => Len(BatchBytes(t.parts)) <= Cap
         /\ \A i \in DOMAIN t.parts : Fits(t.parts[i], depth + 1)
    ELSE HeaderDecodes(t.header)
\* A frame that lost its last bytes.
Bytes(f) == LET b == EncodeFrame(f.tree) IN SubSeq(b, 1, Len(b) - f.cut)

VARIABLES wire, inbox, got,
          failed,   \* read_message returned an error
          last,     \* history: the frame read last, if any
          gave      \* history: what it unpacked to
wireVars == <<wire, inbox, got, failed, last, gave>>

WireInit == /\ wire \in Wires
            /\ inbox = <<>> /\ got = <<>> /\ failed = FALSE
            /\ last = <<>> /\ gave = <<>>

\* read_message: the inbox first, then the next frame.
PopInbox == /\ inbox # <<>>
            /\ got' = Append(got, Head(inbox)) /\ inbox' = Tail(inbox)
            /\ UNCHANGED <<wire, failed, last, gave>>
ReadFrame == /\ inbox = <<>> /\ ~failed /\ wire # <<>>
             /\ LET r == Unpacked(Bytes(Head(wire)), 0) IN
                 /\ failed' = ~r.ok
                 /\ inbox' = r.val /\ gave' = r.val
             /\ wire' = Tail(wire) /\ last' = <<Head(wire)>>
             /\ UNCHANGED got
Idle == inbox = <<>> /\ (failed \/ wire = <<>>) /\ UNCHANGED wireVars
WireNext == PopInbox \/ ReadFrame \/ Idle
WireSpec == WireInit /\ [][WireNext]_wireVars

-----------------------------------------------------------------------------
\* An intact frame yields exactly its messages, in order, however they were nested
\* and compressed; one that nests too deep, inflates past the cap whatever size it
\* claims, or holds an undecodable message is refused whole.
FrameIsUnpacked ==
    last # <<>> /\ last[1].cut = 0 =>
        IF Fits(last[1].tree, 0) THEN ~failed /\ gave = Leaves(last[1].tree)
                                 ELSE failed /\ gave = <<>>

\* A batch cut short adds no message that was not sent and keeps the order.
CutBatchIsAPrefix ==
    last # <<>> /\ last[1].tree.kind = "multi" => IsPrefix(gave, Leaves(last[1].tree))

\* A Game Coordinator's message comes out of its relay as it went in.
RelayIsTransparent ==
    \A i \in DOMAIN got : got[i].emsg = FROM_GC =>
        LET u == unwrap(got[i]) IN
        /\ u.ok /\ u.val # <<>>
        /\ got[i].body = wrap(u.val[1].appid, u.val[1].type, u.val[1].header, u.val[1].body)
        /\ u.val[1].type < PROTO_MASK
=============================================================================
