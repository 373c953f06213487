---------------------------- MODULE GcPumpProofs ----------------------------
(***************************************************************************)
(* Requests that share the pump's events, for any number of requests, any  *)
(* buffer depth and any course of the session: a caller gets the profile   *)
(* it asked for, and a reply that overtakes send() is not lost.            *)
(*                                                                         *)
(* Then the bytes such messages travel as: for any type, header and body a *)
(* frame and a relay are read back as written, and no two frames alike.    *)
(***************************************************************************)
EXTENDS GcPump, Codec, SequenceTheorems, WellFoundedInduction, TLAPS

Messages == [kind : {"welcome", "noSession", "garbled", "other"}, profiles : {<<>>}]
            \cup [kind : {"reply"}, profiles : Seq(Requests)]
ReqStates == {"idle", "ready", "send", "ack", "wait", "done"}
Results == Requests \cup {"none", "WebSocket", "Timeout", "Codec", "Network", "reply"}

\* The types of what a request and a message go through.
Typed ==
    /\ events \in Seq(Messages)
    /\ req \in [Requests -> ReqStates]
    /\ result \in [Requests -> Results]
    /\ queue \in [Requests -> Seq(Messages)]

\* A reply is recorded as forwarded from the write of its request on, and until a
\* request is done it has no result.
InTime ==
    /\ \A r \in forwarded : r \in Requests /\ req[r] \in {"ack", "wait", "done"}
    /\ \A r \in Requests : req[r] # "done" => result[r] = "none"

\* A subscriber's buffer holds at most Depth messages.
BuffersBounded == \A r \in Requests : Len(queue[r]) <= Depth

\* The inductive invariant behind both properties.
Inv == Typed /\ InTime /\ BuffersBounded /\ FastReplyIsSeen /\ ReplyIsMine

\* A push adds one message at the end and loses at most the oldest.
LEMMA PushFacts ==
    ASSUME NEW q \in Seq(Messages), NEW m \in Messages
    PROVE  /\ Push(q, m) \in Seq(Messages)
           /\ Len(q) <= Depth => Len(Push(q, m)) <= Depth
           /\ \E i \in DOMAIN Push(q, m) : Push(q, m)[i] = m
           /\ \A i \in DOMAIN Push(q, m) :
                 Push(q, m)[i] = m \/ \E k \in DOMAIN q : Push(q, m)[i] = q[k]
           /\ Len(q) < Depth =>
                 \A k \in DOMAIN q : k \in DOMAIN Push(q, m) /\ Push(q, m)[k] = q[k]
<1> USE DepthAssumption DEF Push
<1>1. CASE Len(q) < Depth
  <2> DEFINE p == Append(q, m)
  <2>1. /\ p \in Seq(Messages) /\ Len(p) = Len(q) + 1 /\ DOMAIN p = 1 .. Len(q) + 1
        /\ DOMAIN q = 1 .. Len(q) /\ Len(q) \in Nat
        /\ p[Len(q) + 1] = m /\ \A k \in DOMAIN q : p[k] = q[k]
    OBVIOUS
  <2>2. Push(q, m) = p
    BY <1>1
  <2> HIDE DEF p, Push
  <2>3. /\ Push(q, m) \in Seq(Messages) /\ Len(Push(q, m)) <= Depth
        /\ \E i \in DOMAIN Push(q, m) : Push(q, m)[i] = m
    BY <1>1, <2>1, <2>2
  <2>4. \A i \in DOMAIN Push(q, m) :
           Push(q, m)[i] = m \/ \E k \in DOMAIN q : Push(q, m)[i] = q[k]
    BY <2>1, <2>2
  <2>5. \A k \in DOMAIN q : k \in DOMAIN Push(q, m) /\ Push(q, m)[k] = q[k]
    BY <2>1, <2>2
  <2> QED
    BY <2>3, <2>4, <2>5
<1>2. CASE ~(Len(q) < Depth)
  <2> DEFINE t == Tail(q)
             p == Append(t, m)
  <2>1. /\ t \in Seq(Messages) /\ Len(t) = Len(q) - 1 /\ Len(q) \in Nat \ {0}
        /\ DOMAIN t = 1 .. Len(q) - 1 /\ DOMAIN q = 1 .. Len(q)
        /\ \A k \in DOMAIN t : t[k] = q[k + 1]
    BY <1>2
  <2> HIDE DEF t
  <2>2. /\ p \in Seq(Messages) /\ Len(p) = Len(q) /\ DOMAIN p = 1 .. Len(q)
        /\ p[Len(q)] = m /\ \A k \in DOMAIN t : p[k] = t[k]
    BY <2>1
  <2>3. Push(q, m) = p
    BY <1>2 DEF t
  <2> HIDE DEF p, Push
  <2>4. /\ Push(q, m) \in Seq(Messages) /\ (Len(q) <= Depth => Len(Push(q, m)) <= Depth)
        /\ \E i \in DOMAIN Push(q, m) : Push(q, m)[i] = m
    BY <2>1, <2>2, <2>3
  <2>5. \A i \in DOMAIN Push(q, m) :
           Push(q, m)[i] = m \/ \E k \in DOMAIN q : Push(q, m)[i] = q[k]
    <3> SUFFICES ASSUME NEW i \in DOMAIN p, p[i] # m
                 PROVE  \E k \in DOMAIN q : p[i] = q[k]
      BY <2>3
    <3>1. i \in DOMAIN t /\ i + 1 \in DOMAIN q /\ p[i] = q[i + 1]
      BY <2>1, <2>2
    <3> QED
      BY <3>1
  <2> QED
    BY <1>2, <2>4, <2>5
<1> QED
  BY <1>1, <1>2

\* A step that touches neither messages nor requests.
LEMMA QuietInv ==
    ASSUME Inv, UNCHANGED <<events, reqVars>>
    PROVE  Inv'
BY DEF Inv, Typed, InTime, BuffersBounded, FastReplyIsSeen, ReplyIsMine, Holds, reqVars

\* The environment broadcasts a message.
LEMMA BroadcastInv ==
    ASSUME Inv, NEW m \in Messages, Broadcast(m), UNCHANGED reqVars
    PROVE  Inv'
<1> USE DEF reqVars
<1>1. events' \in Seq(Messages)
  <2>1. CASE pump = "stopped"
    BY <2>1 DEF Broadcast, Inv, Typed
  <2>2. CASE pump # "stopped"
    BY <2>2, PushFacts DEF Broadcast, Inv, Typed
  <2> QED
    BY <2>1, <2>2
<1>2. Typed'
  BY <1>1 DEF Inv, Typed
<1>3. InTime' /\ BuffersBounded' /\ FastReplyIsSeen' /\ ReplyIsMine'
  BY DEF Inv, InTime, BuffersBounded, FastReplyIsSeen, ReplyIsMine, Holds
<1> QED
  BY <1>2, <1>3 DEF Inv

\* The session, Steam and the GC.
LEMMA EnvInv == Inv /\ (Env \/ \E r \in Requests : Reply(r)) => Inv'
<1> SUFFICES ASSUME Inv, Env \/ \E r \in Requests : Reply(r) PROVE Inv'
  OBVIOUS
<1> USE DEF session, gc, pumpVars
<1>1. CASE Drop \/ Relogon \/ End \/ IgnoreHello
  BY <1>1, QuietInv DEF Drop, Relogon, End, IgnoreHello
<1>2. ASSUME NEW k \in {"welcome", "noSession", "other", "garbled"}, Broadcast(Msg(k, <<>>)),
             UNCHANGED reqVars
      PROVE  Inv'
  <2> DEFINE m == Msg(k, <<>>)
  <2>1. m \in Messages
    BY DEF Msg, Messages
  <2>2. Broadcast(m)
    BY <1>2
  <2> HIDE DEF m
  <2> QED
    BY <1>2, <2>1, <2>2, BroadcastInv
<1>3. CASE Welcome \/ LoseSession \/ Noise
  BY <1>2, <1>3 DEF Welcome, LoseSession, Noise
<1>4. ASSUME NEW r \in Requests, Reply(r) PROVE Inv'
  <2>1. UNCHANGED reqVars
    BY Zenon, <1>4 DEF Reply
  <2>2. CASE Broadcast(Msg("garbled", <<>>))
    BY <1>2, <2>1, <2>2
  <2>3. ASSUME NEW n \in 0 .. MaxProfiles, NEW ps \in [1 .. n -> Requests],
               Broadcast(Msg("reply", ps))
        PROVE  Inv'
    <3> DEFINE m == Msg("reply", ps)
    <3>1. n \in Nat
      OBVIOUS
    <3>2. ps \in Seq(Requests)
      <4>1. [1 .. n -> Requests] \in {[1 .. k -> Requests] : k \in Nat}
        BY Zenon, <3>1
      <4>2. ps \in UNION {[1 .. k -> Requests] : k \in Nat}
        BY Zenon, <4>1
      <4> QED
        BY Zenon, <4>2, SeqDef
    <3>3. m \in Messages /\ Broadcast(m)
      BY <2>3, <3>2 DEF Msg, Messages
    <3> HIDE DEF m
    <3> QED
      BY Zenon, <2>1, <3>3, BroadcastInv
  <2> QED
    BY Zenon, <1>4, <2>2, <2>3 DEF Reply
<1> QED
  BY <1>1, <1>3, <1>4 DEF Env

\* The pump forwards a message to every request that is subscribed, and a request
\* subscribes before it is written: a reply is never forwarded past its request.
LEMMA RecvInv == Inv /\ Recv => Inv'
<1> SUFFICES ASSUME Inv, Recv PROVE Inv'
  OBVIOUS
<1> USE DEF session, gc, pumpVars
<1> DEFINE m == Head(events)
<1>1. /\ events \in Seq(Messages) /\ events # <<>> /\ events' = Tail(events)
      /\ Forward(m) /\ UNCHANGED <<req, result>>
  BY DEF Recv, Inv, Typed
<1>2. m \in Messages /\ events' \in Seq(Messages)
  BY <1>1
<1> HIDE DEF m
<1>3. ReplyIsMine'
  BY <1>1 DEF Inv, ReplyIsMine
<1>4. CASE m.kind = "other"
  <2>1. UNCHANGED <<queue, forwarded, lagged>>
    BY <1>1, <1>4 DEF Forward
  <2>2. Typed' /\ InTime' /\ BuffersBounded' /\ FastReplyIsSeen'
    BY <1>1, <1>2, <2>1 DEF Inv, Typed, InTime, BuffersBounded, FastReplyIsSeen, Holds
  <2> QED
    BY <1>3, <2>2 DEF Inv
<1>5. CASE m.kind # "other"
  <2>1. /\ queue' = [r \in Requests |->
                       IF r \in Subscribed THEN Push(queue[r], m) ELSE queue[r]]
        /\ forwarded' = forwarded \union {r \in Out : Holds(m, r)}
        /\ lagged' = lagged \union {r \in Subscribed : Len(queue[r]) = Depth}
    BY Zenon, <1>1, <1>5 DEF Forward
  <2>2. \A r \in Requests : queue[r] \in Seq(Messages) /\ Len(queue[r]) <= Depth
    BY DEF Inv, Typed, BuffersBounded
  <2>3. Typed'
    BY <1>1, <1>2, <2>1, <2>2, PushFacts, Zenon DEF Inv, Typed
  <2>4. BuffersBounded'
    BY <1>2, <2>1, <2>2, PushFacts, Zenon DEF BuffersBounded
  <2>5. InTime'
    BY <1>1, <2>1 DEF Inv, InTime, Out
  <2>6. FastReplyIsSeen'
    <3> SUFFICES ASSUME NEW r \in forwarded', r \notin lagged'
                 PROVE  /\ req[r] \in {"ack", "wait"} =>
                              \E i \in DOMAIN queue'[r] : Holds(queue'[r][i], r)
                        /\ result[r] # "Timeout"
      BY Zenon, <1>1 DEF FastReplyIsSeen, Holds
    <3>1. r \in Requests /\ r \notin lagged
      BY Zenon, <2>1, <2>5 DEF InTime
    <3>2. result[r] # "Timeout"
      BY <2>1, <3>1 DEF Inv, InTime, FastReplyIsSeen, Out
    <3>3. ASSUME req[r] \in {"ack", "wait"}
          PROVE  \E i \in DOMAIN queue'[r] : Holds(queue'[r][i], r)
      <4>1. r \in Subscribed /\ queue'[r] = Push(queue[r], m)
        BY <2>1, <3>1, <3>3 DEF Subscribed
      <4>2. Len(queue[r]) < Depth
        <5>1. Len(queue[r]) # Depth
          BY <2>1, <4>1
        <5> QED
          BY <2>2, <3>1, <5>1, DepthAssumption
      <4> DEFINE q == queue[r]
      <4>3. q \in Seq(Messages) /\ Len(q) < Depth /\ queue'[r] = Push(q, m)
        BY <2>2, <3>1, <4>1, <4>2
      <4>4. Holds(m, r) \/ \E k \in DOMAIN q : Holds(q[k], r)
        BY Zenon, <2>1, <3>1, <3>3 DEF Inv, FastReplyIsSeen
      <4> HIDE DEF q
      <4>5. \E i \in DOMAIN Push(q, m) : Push(q, m)[i] = m
        BY <1>2, <4>3, PushFacts
      <4>6. \A k \in DOMAIN q : k \in DOMAIN Push(q, m) /\ Push(q, m)[k] = q[k]
        BY <1>2, <4>3, PushFacts
      <4> QED
        BY Zenon, <4>3, <4>4, <4>5, <4>6
    <3> QED
      BY Zenon, <3>2, <3>3
  <2> QED
    BY <1>3, <2>3, <2>4, <2>5, <2>6 DEF Inv
<1> QED
  BY <1>4, <1>5

\* A step of one request that leaves every buffer alone and moves on, to an end
\* that is no reply's.
LEMMA StepInv ==
    ASSUME Inv, NEW r \in Requests, NEW s \in ReqStates, NEW t \in {"none", "WebSocket", "Timeout"},
           req' = [req EXCEPT ![r] = s], result' = [result EXCEPT ![r] = t],
           UNCHANGED <<events, queue, forwarded, lagged>>,
           req[r] \in {"ack", "wait"} => s \in {"wait", "done"},
           s \in {"ack", "wait"} => req[r] \in {"send", "ack"},
           req[r] # "done", s # "done" => t = "none",
           t = "Timeout" => req[r] = "ready" \/ queue[r] = <<>>
    PROVE  Inv'
<1>0. req \in [Requests -> ReqStates] /\ result \in [Requests -> Results]
  BY DEF Inv, Typed
<1>1. /\ \A d \in Requests : req'[d] = IF d = r THEN s ELSE req[d]
      /\ \A d \in Requests : result'[d] = IF d = r THEN t ELSE result[d]
  BY <1>0
<1>2. Typed'
  BY <1>0 DEF Inv, Typed, Results
<1>3. InTime'
  BY <1>1 DEF Inv, InTime
<1>4. BuffersBounded' /\ ReplyIsMine'
  BY <1>1, RequestsAssumption DEF Inv, BuffersBounded, ReplyIsMine
<1>5. FastReplyIsSeen'
  <2> SUFFICES ASSUME NEW d \in forwarded, d \notin lagged
               PROVE  /\ req'[d] \in {"ack", "wait"} =>
                            \E i \in DOMAIN queue[d] : Holds(queue[d][i], d)
                      /\ result'[d] # "Timeout"
    BY DEF FastReplyIsSeen, Holds
  <2>1. d \in Requests /\ req[d] \in {"ack", "wait", "done"}
    BY DEF Inv, InTime
  <2>2. /\ req[d] \in {"ack", "wait"} => \E i \in DOMAIN queue[d] : Holds(queue[d][i], d)
        /\ result[d] # "Timeout"
    BY Zenon DEF Inv, FastReplyIsSeen
  <2>3. CASE d # r
    BY Zenon, <1>1, <2>1, <2>2, <2>3
  <2>4. CASE d = r
    <3>1. req[d] \in {"ack", "wait"} /\ queue[d] # <<>>
      BY <2>1, <2>2, <2>4
    <3> QED
      BY SMTT(30), <1>1, <2>1, <2>2, <2>4, <3>1
  <2> QED
    BY Zenon, <2>3, <2>4
<1> QED
  BY <1>2, <1>3, <1>4, <1>5 DEF Inv

\* What the find returns: the profile that made the filter accept the message.
LEMMA FindFacts ==
    ASSUME NEW r, NEW m \in Messages, Holds(m, r)
    PROVE  Find(r, m) = r
<1> DEFINE mine == {i \in DOMAIN m.profiles : m.profiles[i] = r}
<1>1. m.profiles \in Seq(Requests)
  <2>1. m.profiles = <<>> \/ m.profiles \in Seq(Requests)
    BY Zenon DEF Messages
  <2>2. <<>> \in Seq(Requests)
    OBVIOUS
  <2> QED
    BY Zenon, <2>1, <2>2
<1>2. mine # {} /\ mine \subseteq Nat
  <2>1. DOMAIN m.profiles \subseteq Nat
    BY <1>1
  <2> QED
    BY Zenon, <2>1 DEF Holds
<1>3. PICK x \in mine : \A k \in mine : x <= k
  <2> DEFINE R == {ss \in Nat \X Nat : ss[1] < ss[2]}
  <2>1. IsWellFoundedOn(R, Nat)
    BY NatLessThanWellFounded DEF OpToRel
  <2>2. PICK i \in mine : \A k \in mine : ~(<<k, i>> \in R)
    <3> HIDE DEF R, mine
    <3> QED
      BY <1>2, <2>1, WFMin, Zenon
  <2>3. ASSUME NEW k \in mine PROVE i <= k
    <3>1. i \in Nat /\ k \in Nat /\ ~(<<k, i>> \in R)
      BY Zenon, <1>2, <2>2
    <3> QED
      BY <3>1
  <2> QED
    BY Zenon, <2>3
<1>4. (CHOOSE i \in mine : \A k \in mine : i <= k) \in mine
  BY Zenon, <1>3
<1> QED
  BY Zenon, <1>2, <1>4 DEF Find

\* Reading a buffer: the reply is accepted and is the request's own, or it is
\* another one and the request's own is still behind it.
LEMMA RecvReplyInv == ASSUME Inv, NEW r \in Requests, RecvReply(r) PROVE Inv'
<1> USE DEF session, gc, pumpVars
<1> DEFINE q == queue[r]
           m == Head(q)
<1>0. /\ req \in [Requests -> ReqStates] /\ result \in [Requests -> Results]
      /\ queue \in [Requests -> Seq(Messages)] /\ events \in Seq(Messages)
  BY DEF Inv, Typed
<1>1. /\ req[r] = "wait" /\ q # <<>> /\ queue' = [queue EXCEPT ![r] = Tail(q)]
      /\ UNCHANGED <<events, forwarded, lagged>>
  BY DEF RecvReply
<1>2. /\ q \in Seq(Messages) /\ Len(q) <= Depth
      /\ \A d \in Requests : queue'[d] = IF d = r THEN Tail(q) ELSE queue[d]
  BY <1>0, <1>1 DEF Inv, BuffersBounded
<1>3. /\ m \in Messages /\ 1 \in DOMAIN q /\ m = q[1] /\ Tail(q) \in Seq(Messages)
      /\ Len(Tail(q)) <= Depth
      /\ \A k \in DOMAIN q : k # 1 => k - 1 \in DOMAIN Tail(q) /\ Tail(q)[k - 1] = q[k]
  BY <1>1, <1>2, DepthAssumption
<1>4. \/ \E t \in {"Codec", "reply", r} : Finish(r, t)
      \/ ~Holds(m, r) /\ UNCHANGED <<req, result>>
  <2>1. Holds(m, r) => m.kind = "reply"
    BY <1>3 DEF Messages, Holds
  <2>2. CASE m.kind = "garbled"
    BY <2>2 DEF RecvReply, Accept
  <2>3. CASE m.kind # "garbled" /\ Accept(r, m)
    <3>1. Finish(r, IF r \in Plain THEN "reply" ELSE Find(r, m))
      BY Zenon, <2>3 DEF RecvReply
    <3>2. r \notin Plain => Find(r, m) = r
      BY Zenon, <1>3, <2>3, FindFacts DEF Accept
    <3> QED
      BY Zenon, <3>1, <3>2
  <2>4. CASE m.kind # "garbled" /\ ~Accept(r, m)
    BY Zenon, <2>1, <2>4 DEF RecvReply, Accept
  <2> QED
    BY Zenon, <2>2, <2>3, <2>4
<1> HIDE DEF m, q
<1> DEFINE Moved == /\ req' \in [Requests -> ReqStates] /\ result' \in [Requests -> Results]
                    /\ \A d \in Requests : d # r => req'[d] = req[d] /\ result'[d] = result[d]
                    /\ \/ req'[r] = "done" /\ result'[r] \in {"Codec", "reply", r}
                       \/ ~Holds(m, r) /\ UNCHANGED <<req, result>>
<1>5. Moved
  <2>1. ASSUME NEW t \in {"Codec", "reply", r}, Finish(r, t) PROVE Moved
    BY <1>0, <2>1, RequestsAssumption DEF Finish, Results, ReqStates
  <2>2. ASSUME ~Holds(m, r), UNCHANGED <<req, result>> PROVE Moved
    BY <1>0, <2>2
  <2> QED
    BY Zenon, <1>4, <2>1, <2>2
<1>6. Typed'
  BY <1>0, <1>1, <1>3, <1>5, Zenon DEF Typed
<1>7. InTime'
  BY <1>1, <1>5 DEF Inv, InTime
<1>8. BuffersBounded'
  BY <1>2, <1>3, Zenon DEF Inv, BuffersBounded
<1>9. ReplyIsMine'
  BY <1>5, RequestsAssumption DEF Inv, ReplyIsMine
<1>10. FastReplyIsSeen'
  <2> SUFFICES ASSUME NEW d \in forwarded, d \notin lagged
               PROVE  /\ req'[d] \in {"ack", "wait"} =>
                            \E i \in DOMAIN queue'[d] : Holds(queue'[d][i], d)
                      /\ result'[d] # "Timeout"
    BY Zenon, <1>1 DEF FastReplyIsSeen, Holds
  <2>1. d \in Requests
    BY DEF Inv, InTime
  <2>2. /\ req[d] \in {"ack", "wait"} => \E i \in DOMAIN queue[d] : Holds(queue[d][i], d)
        /\ result[d] # "Timeout"
    BY Zenon DEF Inv, FastReplyIsSeen
  <2>3. CASE d # r
    BY Zenon, <1>2, <1>5, <2>1, <2>2, <2>3
  <2>4. CASE d = r /\ req'[r] = "done" /\ result'[r] \in {"Codec", "reply", r}
    BY <2>4, RequestsAssumption
  <2>5. CASE d = r /\ ~Holds(m, r) /\ UNCHANGED <<req, result>>
    <3>1. PICK k \in DOMAIN q : Holds(q[k], r)
      BY Zenon, <1>1, <2>2, <2>5 DEF q
    <3>2. k # 1
      BY Zenon, <1>3, <2>5, <3>1
    <3>3. queue'[d] = Tail(q) /\ k - 1 \in DOMAIN Tail(q) /\ Tail(q)[k - 1] = q[k]
      BY <1>2, <1>3, <2>5, <3>1, <3>2, Zenon
    <3> QED
      BY Zenon, <2>2, <2>5, <3>1, <3>3
  <2> QED
    BY Zenon, <1>5, <2>3, <2>4, <2>5
<1> QED
  BY <1>6, <1>7, <1>8, <1>9, <1>10 DEF Inv

\* The steps of a request.
LEMMA RequestInv == ASSUME Inv, NEW r \in Requests, Request(r) PROVE Inv'
<1> USE DEF session, gc, pumpVars
<1>0. req \in [Requests -> ReqStates] /\ result \in [Requests -> Results]
  BY DEF Inv, Typed
<1>1. ASSUME NEW s \in ReqStates \ {"done"}, req' = [req EXCEPT ![r] = s], UNCHANGED result,
             UNCHANGED <<events, queue, forwarded, lagged>>, req[r] # "done",
             req[r] \in {"ack", "wait"} => s = "wait",
             s \in {"ack", "wait"} => req[r] \in {"send", "ack"}
      PROVE  Inv'
  <2>1. result[r] = "none"
    BY <1>1 DEF Inv, InTime
  <2>2. result' = [result EXCEPT ![r] = "none"]
    BY <1>0, <1>1, <2>1
  <2> QED
    BY <1>1, <2>2, StepInv, Zenon
<1>2. ASSUME NEW t \in {"WebSocket", "Timeout"}, Finish(r, t), req[r] # "done",
             UNCHANGED <<events, queue, forwarded, lagged>>,
             t = "Timeout" => req[r] = "ready" \/ queue[r] = <<>>
      PROVE  Inv'
  <2>1. "done" \in ReqStates /\ "done" \notin {"ack", "wait"}
    BY DEF ReqStates
  <2>2. req' = [req EXCEPT ![r] = "done"] /\ result' = [result EXCEPT ![r] = t]
    BY <1>2 DEF Finish
  <2> QED
    BY <1>2, <2>1, <2>2, StepInv, Zenon
<1>3. CASE Begin(r)
  <2>1. /\ req[r] = "idle" /\ req' = [req EXCEPT ![r] = "ready"]
        /\ UNCHANGED <<result, events, queue, forwarded, lagged>>
    BY <1>3 DEF Begin
  <2> QED
    BY Zenon, <1>1, <2>1 DEF ReqStates
<1>4. CASE WaitReady(r)
  <2>0. req[r] = "ready" /\ UNCHANGED <<events, queue, forwarded, lagged>>
    BY <1>4 DEF WaitReady
  <2>1. CASE req' = [req EXCEPT ![r] = "send"] /\ UNCHANGED result
    BY Zenon, <1>1, <2>0, <2>1 DEF ReqStates
  <2>2. CASE Finish(r, IF pump = "stopped" THEN "WebSocket" ELSE "Timeout")
    BY <1>2, <2>0, <2>2
  <2> QED
    BY <1>4, <2>1, <2>2 DEF WaitReady
<1>5. CASE Send(r)
  <2>0. req[r] = "send" /\ UNCHANGED <<events, queue, forwarded, lagged>>
    BY <1>5 DEF Send
  <2>1. CASE up
    <3>1. req' = [req EXCEPT ![r] = "ack"] /\ UNCHANGED result
      BY <1>5, <2>1 DEF Send
    <3> QED
      BY Zenon, <1>1, <2>0, <3>1 DEF ReqStates
  <2>2. CASE ~up
    <3>1. Finish(r, "WebSocket")
      BY <1>5, <2>2 DEF Send
    <3> QED
      BY <1>2, <2>0, <3>1
  <2> QED
    BY <2>1, <2>2
<1>6. CASE Sent(r)
  <2>1. /\ req[r] = "ack" /\ req' = [req EXCEPT ![r] = "wait"]
        /\ UNCHANGED <<result, events, queue, forwarded, lagged>>
    BY <1>6 DEF Sent
  <2> QED
    BY Zenon, <1>1, <2>1 DEF ReqStates
<1>7. CASE RecvReply(r)
  BY SMTT(30), <1>7, RecvReplyInv
<1>8. CASE ReplyTimeout(r)
  <2>1. /\ req[r] = "wait" /\ queue[r] = <<>> /\ Finish(r, "Timeout")
        /\ UNCHANGED <<events, queue, forwarded, lagged>>
    BY <1>8 DEF ReplyTimeout
  <2> QED
    BY <1>2, <2>1
<1> QED
  BY <1>3, <1>4, <1>5, <1>6, <1>7, <1>8 DEF Request

\* Nothing has been asked for.
LEMMA InitInv == Init => Inv
<1> SUFFICES ASSUME Init PROVE Inv
  OBVIOUS
<1>1. Typed
  BY DEF Init, Typed, ReqStates, Results
<1>2. \A r \in Requests : Len(queue[r]) = 0
  BY DEF Init
<1>3. BuffersBounded
  BY <1>2, DepthAssumption DEF BuffersBounded
<1>4. InTime /\ FastReplyIsSeen
  BY DEF Init, InTime, FastReplyIsSeen
<1>5. ReplyIsMine
  BY RequestsAssumption DEF Init, ReplyIsMine
<1> QED
  BY <1>1, <1>3, <1>4, <1>5 DEF Inv

\* One step keeps the invariant.
LEMMA NextInv == Inv /\ [Next]_vars => Inv'
<1> SUFFICES ASSUME Inv, [Next]_vars PROVE Inv'
  OBVIOUS
<1> USE DEF session, gc, pumpVars
<1>1. CASE AttachLaunch \/ DropCoordinator
  BY <1>1, QuietInv DEF AttachLaunch, DropCoordinator
<1>2. CASE Pump
  <2>1. CASE Recv
    BY SMTT(30), <2>1, RecvInv
  <2>2. CASE PumpAnnounce \/ PumpGreet \/ ReadyClosed \/ StateChanged \/ SessionGone \/ HelloTick
    BY <2>2, QuietInv DEF PumpAnnounce, PumpGreet, ReadyClosed, StateChanged, SessionGone,
                          HelloTick
  <2> QED
    BY <1>2, <2>1, <2>2 DEF Pump
<1>3. CASE Idle \/ UNCHANGED vars
  BY <1>3, QuietInv DEF Idle, vars
<1> QED
  BY <1>1, <1>2, <1>3, EnvInv, RequestInv DEF Next

\* A profile that reaches a caller is of the account it asked for and an accepted
\* reply holds it, for any number of requests, some of which take any reply,
\* sharing the pump's events, and any number of profiles in a message.
THEOREM RepliesMine == Spec => []ReplyIsMine
<1>1. Inv => ReplyIsMine
  BY DEF Inv
<1> QED
  BY InitInv, NextInv, <1>1, PTL DEF Spec

\* A reply is never forwarded past its own request: the request subscribes before
\* it is written, so a reply that overtakes the return of send() is in its buffer
\* and the request does not time out, unless that buffer overflowed, for any
\* buffer depth.
THEOREM FastRepliesSeen == Spec => []FastReplyIsSeen
<1>1. Inv => FastReplyIsSeen
  BY DEF Inv
<1> QED
  BY InitInv, NextInv, <1>1, PTL DEF Spec

-----------------------------------------------------------------------------
(* The frames and the relay *)

\* A byte, and what a frame is made of.
Byte == 0 .. (Radix - 1)

\* Half of the values of a word have the protobuf flag.
LEMMA MaskForm ==
    /\ Radix \in Nat \ {0}
    /\ PROTO_MASK \in Nat \ {0}
    /\ 2 * PROTO_MASK = Radix * Radix
<1> DEFINE k == Radix \div 2
<1>1. k \in Nat /\ k > 0 /\ Radix = 2 * k
  BY RadixAssumption
<1> HIDE DEF k
<1>2. Radix * Radix = 2 * (2 * (k * k)) /\ k * k \in Nat /\ k * k > 0
  BY <1>1
<1>3. \A m \in Nat : (2 * m) \div 2 = m
  OBVIOUS
<1>4. PROTO_MASK = 2 * (k * k)
  BY <1>2, <1>3 DEF PROTO_MASK
<1> QED
  BY <1>2, <1>4, RadixAssumption

\* Little-endian words read back, and every word is two bytes.
LEMMA WordForm ==
    ASSUME NEW n \in Nat
    PROVE  /\ n % Radix \in Byte
           /\ n \div Radix \in Nat
           /\ (n % Radix) + Radix * (n \div Radix) = n
           /\ n < Radix * Radix => n \div Radix \in Byte
<1>0. Radix \in Nat \ {0}
  BY MaskForm
<1> DEFINE q == n \div Radix
           r == n % Radix
<1>1. q \in Nat /\ r \in Nat /\ r < Radix /\ n = Radix * q + r
  BY <1>0
<1> HIDE DEF q, r
<1>2. ASSUME n < Radix * Radix PROVE q < Radix
  <2> SUFFICES ASSUME q >= Radix PROVE FALSE
    BY <1>0, <1>1
  <2>1. Radix * q >= Radix * Radix
    BY <1>0, <1>1
  <2> QED
    BY <1>0, <1>1, <1>2, <2>1
<1>3. r + Radix * q = n
  BY <1>0, <1>1
<1> QED
  BY <1>0, <1>1, <1>2, <1>3 DEF q, r, Byte

\* The flag is added once and taken off again.
LEMMA FlagForm ==
    ASSUME NEW type \in Nat
    PROVE  /\ type % PROTO_MASK \in Nat
           /\ (type % PROTO_MASK) + PROTO_MASK \in Nat
           /\ ~((type % PROTO_MASK) + PROTO_MASK < PROTO_MASK)
           /\ (type % PROTO_MASK) + PROTO_MASK < Radix * Radix
           /\ EmsgOf((type % PROTO_MASK) + PROTO_MASK) = type % PROTO_MASK
<1> DEFINE M == PROTO_MASK
           t == type % M
<1>0. M \in Nat \ {0} /\ 2 * M = Radix * Radix /\ Radix * Radix \in Nat
  BY MaskForm
<1> HIDE DEF M
<1>1. t \in Nat /\ t < M
  BY <1>0
<1>2. (t + M) % M = t
  BY <1>0, <1>1
<1> HIDE DEF t
<1>3. t + M \in Nat /\ ~(t + M < M) /\ t + M < Radix * Radix
  BY <1>0, <1>1
<1> QED
  BY <1>1, <1>2, <1>3 DEF t, M, EmsgOf

\* Sequences of bytes of the same length with the same elements are equal.
LEMMA SameBytes ==
    ASSUME NEW s \in Seq(Byte), NEW t \in Seq(Byte), Len(s) = Len(t),
           \A i \in 1..Len(s) : s[i] = t[i]
    PROVE  s = t
BY Zenon, SeqEqual

\* Concatenation, byte by byte.
LEMMA BytesConcat ==
    ASSUME NEW s \in Seq(Byte), NEW t \in Seq(Byte)
    PROVE  /\ s \o t \in Seq(Byte) /\ Len(s) \in Nat /\ Len(t) \in Nat
           /\ Len(s \o t) = Len(s) + Len(t)
           /\ \A i \in 1..(Len(s) + Len(t)) :
                 (s \o t)[i] = IF i <= Len(s) THEN s[i] ELSE t[i - Len(s)]
BY ConcatProperties

\* Where the parentheses are does not matter.
LEMMA Reassociated ==
    ASSUME NEW p \in Seq(Byte), NEW s \in Seq(Byte), NEW t \in Seq(Byte)
    PROVE  (p \o s) \o t = p \o (s \o t)
BY SMTT(30), ConcatAssociative

\* The first k bytes of a sequence and the others, which together make it up.
LEMMA Cut ==
    ASSUME NEW s \in Seq(Byte), NEW k \in 0..Len(s)
    PROVE  /\ SubSeq(s, 1, k) \in Seq(Byte) /\ Len(SubSeq(s, 1, k)) = k
           /\ From(s, k + 1) \in Seq(Byte) /\ Len(From(s, k + 1)) = Len(s) - k
           /\ \A i \in 1..k : SubSeq(s, 1, k)[i] = s[i]
           /\ \A i \in 1..(Len(s) - k) : From(s, k + 1)[i] = s[k + i]
<1>1. Len(s) \in Nat /\ k \in Nat /\ k <= Len(s) /\ \A i \in 1..Len(s) : s[i] \in Byte
  OBVIOUS
<1>2. /\ SubSeq(s, 1, k) \in Seq(Byte) /\ Len(SubSeq(s, 1, k)) = k
      /\ \A i \in 1..k : SubSeq(s, 1, k)[i] = s[i]
  BY <1>1
<1>3. /\ From(s, k + 1) \in Seq(Byte) /\ Len(From(s, k + 1)) = Len(s) - k
      /\ \A i \in 1..(Len(s) - k) : From(s, k + 1)[i] = s[k + i]
  BY <1>1 DEF From
<1> QED
  BY SMTT(30), <1>2, <1>3

\* Two sequences put together are found again by cutting at the first one's length.
LEMMA JoinCut ==
    ASSUME NEW h \in Seq(Byte), NEW b \in Seq(Byte)
    PROVE  SubSeq(h \o b, 1, Len(h)) = h /\ From(h \o b, Len(h) + 1) = b
<1> DEFINE r == h \o b
<1>1. /\ r \in Seq(Byte) /\ Len(r) = Len(h) + Len(b) /\ Len(h) \in Nat /\ Len(b) \in Nat
      /\ \A i \in 1..(Len(h) + Len(b)) : r[i] = IF i <= Len(h) THEN h[i] ELSE b[i - Len(h)]
  BY Zenon, BytesConcat
<1> HIDE DEF r
<1>2. Len(h) \in 0..Len(r) /\ Len(r) - Len(h) = Len(b)
  BY <1>1
<1>3. \A i \in 1..Len(h) : r[i] = h[i]
  BY <1>1
<1>4. \A i \in 1..Len(b) : r[Len(h) + i] = b[i]
  BY SMTT(30), <1>1
<1>5. SubSeq(r, 1, Len(h)) = h
  BY <1>1, <1>2, <1>3, Cut, SameBytes
<1>6. From(r, Len(h) + 1) = b
  <2>1. /\ From(r, Len(h) + 1) \in Seq(Byte) /\ Len(From(r, Len(h) + 1)) = Len(r) - Len(h)
        /\ \A i \in 1..(Len(r) - Len(h)) : From(r, Len(h) + 1)[i] = r[Len(h) + i]
    BY Zenon, <1>1, <1>2, Cut
  <2>2. \A i \in 1..Len(b) : From(r, Len(h) + 1)[i] = b[i]
    BY Zenon, <1>2, <1>4, <2>1
  <2> QED
    BY Zenon, <1>2, <2>1, <2>2, SameBytes
<1> QED
  BY Zenon, <1>5, <1>6 DEF r

\* A sequence that is cut is put together again.
LEMMA CutJoin ==
    ASSUME NEW s \in Seq(Byte), NEW k \in 0..Len(s)
    PROVE  SubSeq(s, 1, k) \o From(s, k + 1) = s
<1> DEFINE x == SubSeq(s, 1, k)
           y == From(s, k + 1)
<1>1. /\ x \in Seq(Byte) /\ Len(x) = k /\ y \in Seq(Byte) /\ Len(y) = Len(s) - k
      /\ \A i \in 1..k : x[i] = s[i]
      /\ \A i \in 1..(Len(s) - k) : y[i] = s[k + i]
  BY Zenon, Cut
<1> HIDE DEF x, y
<1>2. /\ x \o y \in Seq(Byte) /\ Len(x \o y) = Len(x) + Len(y)
      /\ \A i \in 1..(Len(x) + Len(y)) : (x \o y)[i] = IF i <= Len(x) THEN x[i] ELSE y[i - Len(x)]
  BY Zenon, <1>1, BytesConcat
<1>3. Len(s) \in Nat /\ k \in Nat /\ Len(x) + Len(y) = Len(s)
  BY <1>1
<1>4. ASSUME NEW i \in 1..Len(s) PROVE (x \o y)[i] = s[i]
  <2>1. CASE i <= k
    BY <1>1, <1>2, <1>3, <2>1
  <2>2. CASE ~(i <= k)
    <3>1. i - k \in 1..(Len(s) - k) /\ k + (i - k) = i
      BY <1>3, <2>2
    <3> QED
      BY <1>1, <1>2, <1>3, <2>2, <3>1
  <2> QED
    BY Zenon, <2>1, <2>2
<1>5. x \o y = s
  BY Zenon, <1>2, <1>3, <1>4, SameBytes
<1> QED
  BY <1>5 DEF x, y

\* A word is written as two bytes that give it back.
LEMMA WordBytes ==
    ASSUME NEW n \in Nat, n < Radix * Radix
    PROVE  \E a \in Byte, b \in Byte : ToLE(n) = <<a, b>> /\ a + Radix * b = n
BY Zenon, WordForm DEF ToLE

\* f is two words and what follows them.
TwoWords(f, v, w, s) ==
    /\ f \in Seq(Byte) /\ Len(f) = 4 + Len(s)
    /\ FromLE(f) = v /\ FromLE(From(f, 3)) = w /\ From(f, 5) = s

\* The words of a sequence of bytes are in its first four.
LEMMA FirstWords ==
    ASSUME NEW f \in Seq(Byte), Len(f) >= 4
    PROVE  /\ f[1] \in Byte /\ f[2] \in Byte /\ f[3] \in Byte /\ f[4] \in Byte
           /\ FromLE(f) = f[1] + Radix * f[2]
           /\ FromLE(From(f, 3)) = f[3] + Radix * f[4]
<1>1. Len(f) \in Nat /\ 2 \in 0..Len(f) /\ 2 + 1 = 3
  OBVIOUS
<1>2. From(f, 3)[1] = f[3] /\ From(f, 3)[2] = f[4]
  <2>1. \A i \in 1..(Len(f) - 2) : From(f, 2 + 1)[i] = f[2 + i]
    BY Zenon, <1>1, Cut
  <2>2. 1 \in 1..(Len(f) - 2) /\ 2 \in 1..(Len(f) - 2) /\ 2 + 2 = 4
    BY <1>1
  <2> QED
    BY Zenon, <1>1, <2>1, <2>2
<1>3. f[1] \in Byte /\ f[2] \in Byte /\ f[3] \in Byte /\ f[4] \in Byte
  BY <1>1
<1> QED
  BY Zenon, <1>2, <1>3 DEF FromLE

\* Two words put in front of a sequence are read back, and the rest is found.
LEMMA WordsRead ==
    ASSUME NEW v \in Nat, NEW w \in Nat, v < Radix * Radix, w < Radix * Radix,
           NEW s \in Seq(Byte)
    PROVE  /\ ToLE(v) \o ToLE(w) \in Seq(Byte)
           /\ TwoWords(ToLE(v) \o ToLE(w) \o s, v, w, s)
<1>1. PICK a \in Byte, b \in Byte : ToLE(v) = <<a, b>> /\ a + Radix * b = v
  BY Zenon, WordBytes
<1>2. PICK c \in Byte, d \in Byte : ToLE(w) = <<c, d>> /\ c + Radix * d = w
  BY Zenon, WordBytes
<1> DEFINE x == ToLE(v) \o ToLE(w)
           f == x \o s
<1>3. x \in Seq(Byte) /\ Len(x) = 4 /\ x[1] = a /\ x[2] = b /\ x[3] = c /\ x[4] = d
  <2>1. x = <<a, b>> \o <<c, d>>
    BY Zenon, <1>1, <1>2
  <2> QED
    BY <2>1
<1> HIDE DEF x
<1>4. /\ f \in Seq(Byte) /\ Len(f) = 4 + Len(s) /\ Len(s) \in Nat
      /\ f[1] = a /\ f[2] = b /\ f[3] = c /\ f[4] = d
  <2>1. /\ f \in Seq(Byte) /\ Len(f) = Len(x) + Len(s) /\ Len(s) \in Nat
        /\ \A i \in 1..(Len(x) + Len(s)) : f[i] = IF i <= Len(x) THEN x[i] ELSE s[i - Len(x)]
    BY Zenon, <1>3, BytesConcat
  <2> HIDE DEF f
  <2> QED
    BY <1>3, <2>1
<1>5. From(f, 5) = s
  <2>1. Len(x) + 1 = 5
    BY <1>3
  <2> QED
    BY Zenon, <1>3, <2>1, JoinCut
<1> HIDE DEF f
<1>6. Len(f) >= 4
  BY <1>4
<1>7. FromLE(f) = v /\ FromLE(From(f, 3)) = w
  BY Zenon, <1>1, <1>2, <1>4, <1>6, FirstWords
<1>8. TwoWords(f, v, w, s)
  BY Zenon, <1>4, <1>5, <1>7 DEF TwoWords
<1> QED
  BY Zenon, <1>3, <1>8 DEF f, x

\* A word of two bytes is written as those bytes.
LEMMA BytesWord ==
    ASSUME NEW a \in Byte, NEW b \in Byte
    PROVE  /\ a + Radix * b \in Nat
           /\ a + Radix * b < Radix * Radix
           /\ ToLE(a + Radix * b) = <<a, b>>
<1>0. Radix \in Nat \ {0} /\ a \in Nat /\ b \in Nat /\ a < Radix /\ b < Radix
  BY MaskForm DEF Byte
<1> DEFINE n == a + Radix * b
<1>1. n \in Nat
  BY <1>0
<1>2. n < Radix * Radix
  <2>1. Radix * b <= Radix * (Radix - 1)
    BY <1>0
  <2>2. Radix * (Radix - 1) = Radix * Radix - Radix
    BY <1>0
  <2> QED
    BY <1>0, <2>1, <2>2
<1>3. n % Radix = a /\ n \div Radix = b
  <2> DEFINE q == n \div Radix
             r == n % Radix
  <2>1. q \in Nat /\ r \in Nat /\ r < Radix /\ Radix * q + r = Radix * b + a
    BY <1>0, <1>1
  <2> HIDE DEF q, r
  <2>2. ~(q < b)
    <3> SUFFICES ASSUME q < b PROVE FALSE
      OBVIOUS
    <3>1. Radix * (q + 1) <= Radix * b
      BY <1>0, <2>1
    <3>2. Radix * (q + 1) = Radix * q + Radix
      BY <1>0, <2>1
    <3> QED
      BY <1>0, <2>1, <3>1, <3>2
  <2>3. ~(b < q)
    <3> SUFFICES ASSUME b < q PROVE FALSE
      OBVIOUS
    <3>1. Radix * (b + 1) <= Radix * q
      BY <1>0, <2>1
    <3>2. Radix * (b + 1) = Radix * b + Radix
      BY <1>0, <2>1
    <3> QED
      BY <1>0, <2>1, <3>1, <3>2
  <2>4. q = b
    BY <1>0, <2>1, <2>2, <2>3
  <2> QED
    BY <1>0, <2>1, <2>4 DEF q, r
<1> QED
  BY <1>1, <1>2, <1>3 DEF ToLE

\* The flag taken off is put back.
LEMMA FlagBack ==
    ASSUME NEW raw \in Nat, ~(raw < PROTO_MASK), raw < Radix * Radix
    PROVE  EmsgOf(raw) \in Nat /\ (EmsgOf(raw) % PROTO_MASK) + PROTO_MASK = raw
<1> DEFINE M == PROTO_MASK
<1>0. M \in Nat \ {0} /\ raw >= M /\ raw < 2 * M
  BY MaskForm
<1> HIDE DEF M
<1>1. raw % M = raw - M
  <2> DEFINE t == raw - M
  <2>1. t \in Nat /\ t < M /\ raw = t + M
    BY <1>0
  <2> HIDE DEF t
  <2>2. (t + M) % M = t
    BY <1>0, <2>1
  <2> QED
    BY <2>1, <2>2 DEF t
<1>2. raw - M \in Nat /\ raw - M < M /\ (raw - M) + M = raw
  BY <1>0
<1>3. (raw - M) % M = raw - M
  BY <1>0, <1>2
<1> QED
  BY <1>0, <1>1, <1>2, <1>3 DEF M, EmsgOf

\* A frame is its two words, then the header and the body.
LEMMA FrameForm ==
    ASSUME NEW type \in Nat, NEW header \in Seq(Byte), NEW body \in Seq(Byte),
           Len(header) < Radix * Radix
    PROVE  TwoWords(encode_raw(type, header, body), (type % PROTO_MASK) + PROTO_MASK,
                    Len(header), header \o body)
<1> DEFINE raw == (type % PROTO_MASK) + PROTO_MASK
           n == Len(header)
           p == ToLE(raw) \o ToLE(n)
           r == header \o body
<1>1. raw \in Nat /\ raw < Radix * Radix
  BY Zenon, FlagForm
<1>2. n \in Nat /\ r \in Seq(Byte)
  BY Zenon, BytesConcat
<1>3. encode_raw(type, header, body) = p \o header \o body
  BY Zenon DEF encode_raw, put_prefix
<1> HIDE DEF raw
<1>4. p \in Seq(Byte) /\ TwoWords(p \o r, raw, n, r)
  BY Zenon, <1>1, <1>2, WordsRead
<1> HIDE DEF p
<1>5. p \o header \o body = p \o r
  BY Zenon, <1>4, Reassociated
<1> QED
  BY Zenon, <1>3, <1>4, <1>5 DEF raw

\* unframe takes apart what encode_raw put together.
LEMMA FrameUnframes ==
    ASSUME NEW type \in Nat, NEW header \in Seq(Byte), NEW body \in Seq(Byte),
           Len(header) < Radix * Radix
    PROVE  unframe(encode_raw(type, header, body)) =
             Ok(<<[emsg |-> type % PROTO_MASK, header |-> header, body |-> body]>>)
<1> DEFINE raw == (type % PROTO_MASK) + PROTO_MASK
           n == Len(header)
           r == header \o body
           f == encode_raw(type, header, body)
<1>1. raw \in Nat /\ ~(raw < PROTO_MASK) /\ EmsgOf(raw) = type % PROTO_MASK
  BY Zenon, FlagForm
<1>2. n \in Nat /\ Len(body) \in Nat /\ Len(r) = n + Len(body)
  BY Zenon, BytesConcat
<1>3. SubSeq(r, 1, n) = header /\ From(r, n + 1) = body
  BY Zenon, JoinCut
<1>4. TwoWords(f, raw, n, r)
  BY Zenon, FrameForm
<1> HIDE DEF raw, r, n, f
<1>5. ~(Len(f) < 2 * Word) /\ ~(Len(r) < n)
  BY <1>2, <1>4 DEF Word, TwoWords
<1>6. Word + 1 = 3 /\ 2 * Word + 1 = 5
  BY DEF Word
<1>7. unframe(f) = Ok(<<[emsg |-> EmsgOf(raw), header |-> SubSeq(r, 1, n), body |-> From(r, n + 1)]>>)
  BY Zenon, <1>1, <1>4, <1>5, <1>6 DEF unframe, TwoWords
<1> QED
  BY Zenon, <1>1, <1>3, <1>7 DEF f

\* try_decode gives back the type, the header and the body that encode was given,
\* for every type (its stray high bits masked), header and body; a header that does
\* not decode is an error.
THEOREM FrameRoundTrip ==
    ASSUME NEW type \in Nat, NEW header \in Seq(Byte), NEW body \in Seq(Byte),
           Len(header) < Radix * Radix
    PROVE  /\ encode_raw(type, header, body) \in Seq(Byte)
           /\ try_decode(encode_raw(type, header, body)) =
                IF HeaderDecodes(header)
                THEN Ok(<<[emsg |-> type % PROTO_MASK, header |-> header, body |-> body]>>)
                ELSE Err
<1> DEFINE parts == [emsg |-> type % PROTO_MASK, header |-> header, body |-> body]
           f == unframe(encode_raw(type, header, body))
<1>1. f = Ok(<<parts>>) /\ encode_raw(type, header, body) \in Seq(Byte)
  BY Zenon, FrameUnframes, FrameForm DEF TwoWords
<1>2. f.ok /\ f.val # <<>> /\ f.val[1].header = header
  BY <1>1 DEF Ok
<1> HIDE DEF f
<1>3. try_decode(encode_raw(type, header, body)) = IF HeaderDecodes(header) THEN f ELSE Err
  BY Zenon, <1>2 DEF try_decode, f
<1> QED
  BY Zenon, <1>1, <1>3

\* unwrap gives back what wrap was given: the app id, the type without its flag,
\* the header and the body.
THEOREM RelayRoundTrip ==
    ASSUME NEW appid \in Nat, appid < Radix * Radix, NEW type \in Nat,
           NEW header \in Seq(Byte), NEW body \in Seq(Byte),
           Len(header) < Radix * Radix, HeaderDecodes(header),
           NEW msg, msg.body = wrap(appid, type, header, body)
    PROVE  unwrap(msg) = Ok(<<[appid |-> appid, type |-> type % PROTO_MASK,
                               header |-> header, body |-> body]>>)
<1> DEFINE frame == encode_raw(type, header, body)
           flag == (type % PROTO_MASK) + PROTO_MASK
           parts == [emsg |-> type % PROTO_MASK, header |-> header, body |-> body]
<1>1. frame \in Seq(Byte)
  BY Zenon, FrameForm DEF TwoWords
<1>2. flag \in Nat /\ flag < Radix * Radix
  BY Zenon, FlagForm
<1>3. unframe(frame) = Ok(<<parts>>)
  BY Zenon, FrameUnframes
<1>4. msg.body = ToLE(appid) \o ToLE(flag) \o frame
  BY Zenon DEF wrap
<1> HIDE DEF frame, flag
<1>5. TwoWords(msg.body, appid, flag, frame)
  BY Zenon, <1>1, <1>2, <1>4, WordsRead
<1>6. ~(Len(msg.body) < 2 * Word) /\ 2 * Word + 1 = 5
  <2>1. Len(msg.body) = 4 + Len(frame) /\ Len(frame) \in Nat
    BY <1>1, <1>5 DEF TwoWords
  <2> QED
    BY <2>1 DEF Word
<1>7. FromLE(msg.body) = appid /\ From(msg.body, 2 * Word + 1) = frame
  BY Zenon, <1>5, <1>6 DEF TwoWords
<1> DEFINE f == unframe(frame)
<1>8. /\ f.ok /\ f.val # <<>> /\ f.val[1].header = header /\ f.val[1].body = body
      /\ f.val[1].emsg = type % PROTO_MASK
  BY <1>3 DEF Ok
<1> HIDE DEF f
<1>9. unwrap(msg) = Ok(<<[appid |-> appid, type |-> f.val[1].emsg,
                          header |-> f.val[1].header, body |-> f.val[1].body]>>)
  BY Zenon, <1>6, <1>7, <1>8 DEF unwrap, GcType, f
<1> QED
  BY Zenon, <1>8, <1>9

\* What unframe takes apart, encode_raw puts together again, byte for byte: the
\* parts lose nothing of the frame, and no two frames are read as the same message.
THEOREM FrameIsUnique ==
    ASSUME NEW bytes \in Seq(Byte), NEW p, unframe(bytes) = Ok(<<p>>)
    PROVE  encode_raw(p.emsg, p.header, p.body) = bytes
<1> DEFINE raw == FromLE(bytes)
           n == FromLE(From(bytes, 3))
           rest == From(bytes, 5)
           h == SubSeq(rest, 1, n)
           b == From(rest, n + 1)
           w == SubSeq(bytes, 1, 4)
<1>1. Word + 1 = 3 /\ 2 * Word + 1 = 5 /\ 2 * Word = 4
  BY DEF Word
<1>2. Ok(<<p>>) # Err /\ Ok(<<p>>) # Ok(<<>>)
  BY Zenon DEF Ok, Err
<1>3. /\ ~(Len(bytes) < 4) /\ ~(raw < PROTO_MASK) /\ ~(Len(rest) < n)
      /\ Ok(<<p>>) = Ok(<<[emsg |-> EmsgOf(raw), header |-> h, body |-> b]>>)
  BY Zenon, <1>1, <1>2 DEF unframe
<1>4. p.emsg = EmsgOf(raw) /\ p.header = h /\ p.body = b
  <2> HIDE DEF raw, h, b
  <2> QED
    BY <1>3 DEF Ok
<1>5. Len(bytes) \in Nat /\ Len(bytes) >= 4 /\ 4 \in 0..Len(bytes) /\ 4 + 1 = 5
  BY <1>3
<1>6. /\ bytes[1] \in Byte /\ bytes[2] \in Byte /\ bytes[3] \in Byte /\ bytes[4] \in Byte
      /\ raw = bytes[1] + Radix * bytes[2] /\ n = bytes[3] + Radix * bytes[4]
  BY Zenon, <1>5, FirstWords
<1>7. /\ w \in Seq(Byte) /\ Len(w) = 4 /\ rest \in Seq(Byte)
      /\ \A i \in 1..4 : w[i] = bytes[i]
      /\ w \o rest = bytes
  <2>1. w \in Seq(Byte) /\ Len(w) = 4 /\ \A i \in 1..4 : w[i] = bytes[i]
    BY Zenon, <1>5, Cut
  <2>2. From(bytes, 4 + 1) \in Seq(Byte) /\ w \o From(bytes, 4 + 1) = bytes
    BY Zenon, <1>5, Cut, CutJoin
  <2> QED
    BY Zenon, <1>5, <2>1, <2>2
<1> HIDE DEF raw, n, rest, w
<1>8. /\ raw \in Nat /\ raw < Radix * Radix /\ ToLE(raw) = <<bytes[1], bytes[2]>>
      /\ n \in Nat /\ ToLE(n) = <<bytes[3], bytes[4]>>
  BY Zenon, <1>6, BytesWord
<1>9. EmsgOf(raw) \in Nat /\ (EmsgOf(raw) % PROTO_MASK) + PROTO_MASK = raw
  BY Zenon, <1>3, <1>8, FlagBack
<1>10. n \in 0..Len(rest)
  BY <1>3, <1>7, <1>8
<1>11. h \in Seq(Byte) /\ Len(h) = n /\ b \in Seq(Byte) /\ h \o b = rest
  BY Zenon, <1>7, <1>10, Cut, CutJoin
<1> HIDE DEF h, b
<1>12. w = <<bytes[1], bytes[2]>> \o <<bytes[3], bytes[4]>>
  <2> DEFINE v == <<bytes[1], bytes[2]>> \o <<bytes[3], bytes[4]>>
  <2>1. /\ v \in Seq(Byte) /\ Len(v) = 4
        /\ v[1] = bytes[1] /\ v[2] = bytes[2] /\ v[3] = bytes[3] /\ v[4] = bytes[4]
    BY SMTT(30), <1>6
  <2> HIDE DEF v
  <2>2. \A i \in 1..Len(w) : w[i] = v[i]
    BY <1>7, <2>1
  <2>3. w = v
    <3>1. Len(w) = Len(v)
      BY Zenon, <1>7, <2>1
    <3> QED
      BY Zenon, <1>7, <2>1, <2>2, <3>1, SameBytes
  <2> QED
    BY <2>3 DEF v
<1>13. encode_raw(EmsgOf(raw), h, b) = w \o h \o b
  <2>1. put_prefix(EmsgOf(raw), Len(h)) = ToLE(raw) \o ToLE(n)
    BY Zenon, <1>9, <1>11 DEF put_prefix
  <2>2. put_prefix(EmsgOf(raw), Len(h)) = w
    BY Zenon, <1>8, <1>12, <2>1
  <2> QED
    BY Zenon, <2>2 DEF encode_raw
<1>14. w \o h \o b = w \o (h \o b)
  <2>1. w \in Seq(Byte) /\ h \in Seq(Byte) /\ b \in Seq(Byte)
    BY Zenon, <1>7, <1>11
  <2> QED
    BY ZenonT(40), <2>1, Reassociated
<1> QED
  BY Zenon, <1>4, <1>7, <1>11, <1>13, <1>14
=============================================================================
