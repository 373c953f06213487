----------------------- MODULE SessionContractProofs -----------------------
(***************************************************************************)
(* What the session promises, for every set of calls, queue depth, number  *)
(* of reconnects and batching: a reply already unpacked is not lost with   *)
(* the socket, the driver implements SessionContract, and the snapshot it  *)
(* caches is the first of the current logon.                               *)
(***************************************************************************)
EXTENDS SessionDriverProofs

-----------------------------------------------------------------------------
(* Unpacked replies *)
(* A call is in one place at a time *)

WasSent(c) == \E j \in JobIds : Sent(j, c)

\* A call joins the queue once, leaves it to be written, and is on record
\* with Steam only once its write is over.
OncePerCall ==
    \A c \in Calls :
        /\ call[c] \in {"idle", "sending"} => c \notin Queued /\ cur.call # c /\ ~WasSent(c)
        /\ c \in Queued => cur.call # c /\ ~WasSent(c)
        /\ cur.call = c => ~WasSent(c)

QueuedOnce == \A i, k \in DOMAIN queue : queue[i] = queue[k] => i = k

\* Nothing is left unpacked once reconnect begins.
NoInboxWhileDown == phase \in Down => inbox = <<>>

\* The inductive invariant behind UnpackedReplyIsDelivered.
Once == TypeOK /\ OncePerCall /\ QueuedOnce /\ NoInboxWhileDown

\* A step that neither accepts a call nor starts or ends a write.
LEMMA QuietOnce ==
    ASSUME Once,
           \A c \in Calls : call'[c] \in {"idle", "sending"} => call[c] \in {"idle", "sending"},
           queue' \in {queue, <<>>} \/ (queue # <<>> /\ queue' = Tail(queue)),
           cur' \in {cur, NoWrite},
           \A j \in JobIds, c \in Calls : Sent(j, c)' => Sent(j, c)
    PROVE  OncePerCall' /\ QueuedOnce'
<1>0. queue \in Seq(Calls) /\ cur \in Writes /\ None \notin Calls
  BY Zenon, CallsAssumption DEF Once, TypeOK
<1>1. \A i \in DOMAIN queue' : \E n \in {0, 1} :
         i \in Nat /\ i + n \in DOMAIN queue /\ queue'[i] = queue[i + n]
  <2>1. CASE queue' = queue
    BY <1>0, <2>1
  <2>2. CASE queue' = <<>>
    BY <2>2
  <2>3. CASE queue # <<>> /\ queue' = Tail(queue)
    BY <1>0, <2>3
  <2> QED
    BY Zenon, <2>1, <2>2, <2>3
<1>2. Queued' \subseteq Queued
  BY <1>1 DEF Queued
<1>3. QueuedOnce'
  <2>1. CASE queue' = queue
    BY Zenon, <2>1 DEF Once, QueuedOnce
  <2>2. CASE queue' = <<>>
    BY <2>2 DEF QueuedOnce
  <2>3. CASE queue # <<>> /\ queue' = Tail(queue)
    <3>1. \A i \in DOMAIN queue' : i \in Nat /\ i + 1 \in DOMAIN queue /\ queue'[i] = queue[i + 1]
      BY <1>0, <2>3
    <3> QED
      BY <3>1 DEF Once, QueuedOnce
  <2> QED
    BY Zenon, <2>1, <2>2, <2>3
<1>4. \A c \in Calls : WasSent(c)' => WasSent(c)
  BY Zenon DEF WasSent
<1>5. \A c \in Calls : cur'.call = c => cur.call = c
  BY <1>0 DEF NoWrite
<1>6. OncePerCall'
  BY Zenon, <1>2, <1>4, <1>5 DEF Once, OncePerCall
<1> QED
  BY Zenon, <1>3, <1>6

\* A oneshot send ends a call, it starts none.
LEMMA DeliverStartsNone ==
    ASSUME NEW r, Deliver(r), NEW c \in Calls
    PROVE  call'[c] \in {"idle", "sending"} => call[c] \in {"idle", "sending"}
BY Zenon DEF Deliver

\* What stopping the driver does to a call.
LEMMA StopOnce ==
    ASSUME NEW why, NEW acked, Stop(why, acked)
    PROVE  /\ cur' = NoWrite /\ phase' = "closing"
           /\ \A j \in DOMAIN pending' : j \in DOMAIN pending /\ pending'[j] = pending[j]
           /\ \A c \in Calls : call'[c] \in {"idle", "sending"} => call[c] \in {"idle", "sending"}
BY Zenon, DeliverStartsNone DEF Stop, NoneHeld

\* dispatch answers at most the call that held the job.
LEMMA DispatchOnce ==
    ASSUME NEW m, Dispatch(m)
    PROVE  /\ \A j \in DOMAIN pending' : j \in DOMAIN pending /\ pending'[j] = pending[j]
           /\ \A c \in Calls : call'[c] \in {"idle", "sending"} => call[c] \in {"idle", "sending"}
<1>1. CASE m.job \notin {0, MaxJobId} /\ m.job \in DOMAIN pending
  <2>1. /\ pending' = [j \in DOMAIN pending \ {m.job} |-> pending[j]]
        /\ Deliver([c \in {pending[m.job]} |-> ReplyOf(m.of)])
    BY Zenon, <1>1 DEF Dispatch, Restrict
  <2> QED
    BY Zenon, <2>1, DeliverStartsNone
<1>2. CASE ~(m.job \notin {0, MaxJobId} /\ m.job \in DOMAIN pending)
  BY Zenon, <1>2 DEF Dispatch, DeliverNothing
<1> QED
  BY Zenon, <1>1, <1>2

\* Making, cancelling and timing out calls; a call is accepted once.
LEMMA CallerOnce == Once /\ Caller => OncePerCall' /\ QueuedOnce' /\ NoInboxWhileDown'
<1> SUFFICES ASSUME Once, Caller PROVE OncePerCall' /\ QueuedOnce' /\ NoInboxWhileDown'
  OBVIOUS
<1> USE DEF driverVars, netVars, callerVars
<1>0. call \in [Calls -> CallStates] /\ queue \in Seq(Calls)
  BY Zenon DEF Once, TypeOK
<1>1. UNCHANGED <<phase, cur, pending, owed, inbox, wire>>
  BY Zenon DEF Caller, Issue, Enqueue, EnqueueClosed, Cancel, DeadlinePasses, CallerTimeout,
         DropHandles
<1>2. /\ NoInboxWhileDown'
      /\ \A j \in JobIds, c \in Calls : Sent(j, c)' => Sent(j, c)
  BY Zenon, <1>1, ForgetSent DEF Once, NoInboxWhileDown
<1>3. ASSUME NEW c \in Calls, Enqueue(c) PROVE OncePerCall' /\ QueuedOnce'
  <2>1. /\ call[c] = "sending" /\ call' = [call EXCEPT ![c] = "waiting"]
        /\ queue' = Append(queue, c)
    BY Zenon, <1>3 DEF Enqueue
  <2>2. /\ DOMAIN queue = 1 .. Len(queue) /\ Len(queue) \in Nat
        /\ DOMAIN queue' = 1 .. Len(queue) + 1
        /\ queue'[Len(queue) + 1] = c
        /\ \A i \in DOMAIN queue : queue'[i] = queue[i]
    BY <1>0, <2>1
  <2>3. c \notin Queued /\ cur.call # c /\ ~WasSent(c)
    BY Zenon, <2>1 DEF Once, OncePerCall
  <2>4. Queued' = Queued \cup {c}
    BY <2>2 DEF Queued
  <2>5. QueuedOnce'
    BY <2>2, <2>3 DEF Once, QueuedOnce, Queued
  <2>6. \A d \in Calls : WasSent(d)' => WasSent(d)
    BY <1>2 DEF WasSent
  <2>7. \A d \in Calls : call'[d] = IF d = c THEN "waiting" ELSE call[d]
    BY <1>0, <2>1
  <2>8. OncePerCall'
    BY <1>1, <2>3, <2>4, <2>6, <2>7 DEF Once, OncePerCall
  <2> QED
    BY <2>5, <2>8
<1>4. CASE ~ \E c \in Calls : Enqueue(c)
  <2>1. queue' = queue
    BY <1>4, Zenon DEF Caller, Issue, EnqueueClosed, Cancel, DeadlinePasses, CallerTimeout,
                       DropHandles
  <2> DEFINE StartsNone ==
                \A d \in Calls : call'[d] \in {"idle", "sending"} => call[d] \in {"idle", "sending"}
  <2>2. StartsNone
    <3>1. ASSUME NEW c \in Calls, Issue(c) \/ EnqueueClosed(c) \/ Cancel(c)
          PROVE  StartsNone
      BY <1>0, <3>1 DEF Issue, EnqueueClosed, Cancel
    <3>2. ASSUME NEW c \in Requests, DeadlinePasses(c) \/ CallerTimeout(c) PROVE StartsNone
      BY <1>0, <3>2 DEF DeadlinePasses, CallerTimeout, Calls
    <3>3. CASE DropHandles
      BY Zenon, <3>3 DEF DropHandles
    <3> QED
      BY Zenon, <1>4, <3>1, <3>2, <3>3 DEF Caller
  <2> QED
    BY Zenon, <1>1, <1>2, <2>1, <2>2, QuietOnce
<1> QED
  BY <1>2, <1>3, <1>4

\* A command leaves the queue for the write, and the write for the record.
LEMMA ConnectedOnce == Once /\ Connected => OncePerCall' /\ QueuedOnce' /\ NoInboxWhileDown'
<1> SUFFICES ASSUME Once, Connected PROVE OncePerCall' /\ QueuedOnce' /\ NoInboxWhileDown'
  OBVIOUS
<1> USE DEF netVars, callerVars
<1>0. TypeOK /\ queue \in Seq(Calls) /\ None \notin Calls
  BY Zenon, CallsAssumption DEF Once, TypeOK
<1>1. NoInboxWhileDown'
  <2>1. phase' \in {"connected", "writing", "draining", "closing"}
    BY Zenon DEF Connected, RecvCommand, RecvNone, HeartbeatDue, WriteOk, WriteErr, ReadMessage,
           ReadLogoff, ReadControl, ReadErr, SweepIdle, SweepPending, Stop, Disconnect
  <2> QED
    BY <2>1 DEF NoInboxWhileDown, Down
<1>2. ASSUME \A c \in Calls : call'[c] \in {"idle", "sending"} => call[c] \in {"idle", "sending"},
             \A j \in DOMAIN pending' : j \in DOMAIN pending /\ pending'[j] = pending[j],
             cur' \in {cur, NoWrite}, UNCHANGED <<queue, owed, inbox, wire>>
      PROVE  OncePerCall' /\ QueuedOnce'
  BY Zenon, <1>2, ForgetSent, QuietOnce
<1>3. CASE RecvCommand
  <2> DEFINE h == Head(queue)
  <2>1. /\ queue # <<>> /\ queue' = Tail(queue) /\ cur'.call = h
        /\ UNCHANGED <<call, pending, owed, inbox, wire>>
    BY Zenon, <1>3 DEF RecvCommand
  <2>2. /\ h = queue[1] /\ 1 \in DOMAIN queue /\ h \in Calls
        /\ \A i \in DOMAIN queue' : i \in Nat /\ i # 0 /\ i + 1 \in DOMAIN queue
                                    /\ queue'[i] = queue[i + 1]
    BY <1>0, <2>1
  <2> HIDE DEF h
  <2>3. QueuedOnce'
    BY <2>2 DEF Once, QueuedOnce
  <2>4. h \in Queued /\ Queued' \subseteq Queued /\ h \notin Queued'
    BY <2>2 DEF Queued, Once, QueuedOnce
  <2>5. \A c \in Calls : WasSent(c)' <=> WasSent(c)
    BY <2>1 DEF WasSent, Sent
  <2>6. OncePerCall'
    BY Zenon, <2>1, <2>4, <2>5 DEF Once, OncePerCall
  <2> QED
    BY <1>1, <2>3, <2>6
<1>4. CASE WriteOk
  <2>0. UNCHANGED <<queue, inbox, wire>> /\ cur' = NoWrite
    BY Zenon, <1>4 DEF WriteOk, Stop
  <2>1. \A c \in Calls : call'[c] \in {"idle", "sending"} => call[c] \in {"idle", "sending"}
    <3>1. CASE Stop("LoggedOff", {cur.call})
      BY Zenon, <3>1, StopOnce
    <3>2. CASE InsertPending
      BY Zenon, <3>2, DeliverStartsNone DEF InsertPending
    <3>3. CASE Deliver([c \in {cur.call} |-> Outcome("ok")])
      BY Zenon, <3>3, DeliverStartsNone
    <3>4. CASE DeliverNothing
      BY <3>4 DEF DeliverNothing
    <3> QED
      BY Zenon, <1>4, <3>1, <3>2, <3>3, <3>4 DEF WriteOk
  <2>2. CASE cur.call \in Requests
    <3> DEFINE w == cur.call
    <3>1. /\ pending' = [j \in DOMAIN pending \cup {cur.job} |->
                           IF j = cur.job THEN w ELSE pending[j]]
          /\ owed' \in {owed, owed \cup {cur}}
      BY Zenon, <1>4, <2>2, CallsAssumption DEF WriteOk, InsertPending, Calls
    <3>2. \A c \in Calls : c # w /\ WasSent(c)' => WasSent(c)
      BY <2>0, <3>1 DEF WasSent, Sent
    <3>3. w \in Calls /\ w \notin Queued /\ call[w] \notin {"idle", "sending"}
      BY Zenon, <2>2 DEF Once, OncePerCall, Calls
    <3>4. Queued' = Queued /\ \A c \in Calls : cur'.call # c
      BY Zenon, <1>0, <2>0 DEF Queued, NoWrite
    <3>5. QueuedOnce'
      BY <2>0 DEF Once, QueuedOnce
    <3> HIDE DEF w
    <3>6. OncePerCall'
      BY Zenon, <2>1, <3>2, <3>3, <3>4 DEF Once, OncePerCall
    <3> QED
      BY <1>1, <3>5, <3>6
  <2>3. CASE cur.call \notin Requests
    <3>1. owed' = owed /\ pending' \in {pending, NoneHeld}
      BY Zenon, <1>4, <2>3 DEF WriteOk, Stop
    <3> QED
      BY Zenon, <1>1, <1>2, <2>0, <2>1, <3>1 DEF NoneHeld
  <2> QED
    BY <2>2, <2>3
<1>5. CASE WriteErr
  <2>0. UNCHANGED <<queue, owed, inbox, wire>>
    BY <1>5 DEF WriteErr
  <2>1. CASE Stop("LoggedOff", {cur.call})
    BY Zenon, <1>1, <1>2, <2>0, <2>1, StopOnce
  <2>2. CASE Disconnect /\ Deliver([c \in {cur.call} \ {None} |-> Outcome("reconnecting")])
    BY Zenon, <1>1, <1>2, <2>0, <2>2, DeliverStartsNone DEF Disconnect
  <2> QED
    BY Zenon, <1>5, <2>1, <2>2 DEF WriteErr
<1>6. CASE ReadMessage \/ ReadLogoff
  <2>1. HasMessage /\ TakeMessage /\ UNCHANGED <<queue, owed>>
    BY <1>6 DEF ReadMessage, ReadLogoff
  <2>2. /\ \A j \in DOMAIN pending' : j \in DOMAIN pending /\ pending'[j] = pending[j]
        /\ \A c \in Calls : call'[c] \in {"idle", "sending"} => call[c] \in {"idle", "sending"}
        /\ cur' \in {cur, NoWrite}
    <3>1. CASE ReadMessage
      BY Zenon, <3>1, DispatchOnce DEF ReadMessage
    <3>2. CASE ReadLogoff /\ Stop("LoggedOff", {})
      BY Zenon, <3>2, StopOnce
    <3>3. CASE Disconnect /\ DeliverNothing
      BY <3>3 DEF Disconnect, DeliverNothing
    <3> QED
      BY Zenon, <1>6, <3>1, <3>2, <3>3 DEF ReadLogoff
  <2>3. \A j \in JobIds, c \in Calls : Sent(j, c)' => Sent(j, c)
    BY Zenon, <1>0, <2>1, <2>2, TakeSent, RecordKept
  <2> QED
    BY Zenon, <1>1, <2>1, <2>2, <2>3, QuietOnce
<1>7. CASE RecvNone
  BY Zenon, <1>1, <1>2, <1>7, StopOnce DEF RecvNone
<1>8. CASE HeartbeatDue \/ ReadControl \/ ReadErr \/ SweepIdle
  BY <1>1, <1>2, <1>8 DEF HeartbeatDue, ReadControl, ReadErr, SweepIdle, Disconnect,
                                    DeliverNothing
<1>9. CASE SweepPending
  <2>1. \A j \in DOMAIN pending' : j \in DOMAIN pending /\ pending'[j] = pending[j]
    BY Zenon, <1>9 DEF SweepPending, RestrictDomain, Restrict
  <2>2. \A c \in Calls : call'[c] \in {"idle", "sending"} => call[c] \in {"idle", "sending"}
    BY Zenon, <1>9, DeliverStartsNone DEF SweepPending
  <2> QED
    BY Zenon, <1>1, <1>2, <1>9, <2>1, <2>2 DEF SweepPending
<1> QED
  BY Zenon, <1>3, <1>4, <1>5, <1>6, <1>7, <1>8, <1>9 DEF Connected

\* A reconnect begins once the inbox is drained and fills it again on its way up.
LEMMA ReconnectingOnce ==
    Once /\ (Reconnecting \/ Teardown) => OncePerCall' /\ QueuedOnce' /\ NoInboxWhileDown'
<1> SUFFICES ASSUME Once, Reconnecting \/ Teardown
             PROVE  OncePerCall' /\ QueuedOnce' /\ NoInboxWhileDown'
  OBVIOUS
<1> USE DEF netVars, callerVars
<1>0. TypeOK /\ NoInboxWhileDown
  BY DEF Once
<1>1. CASE Drain
  <2>1. /\ inbox \in Seq(Messages) /\ inbox # <<>> /\ inbox' = Tail(inbox)
        /\ Dispatch(Head(inbox)) /\ phase' = "draining"
        /\ UNCHANGED <<queue, cur, owed, wire>>
    BY Zenon, <1>0, <1>1 DEF Drain, TypeOK
  <2>2. \A i \in DOMAIN inbox' : i + 1 \in DOMAIN inbox /\ inbox'[i] = inbox[i + 1]
    BY <2>1
  <2>3. /\ \A j \in DOMAIN pending' : j \in DOMAIN pending /\ pending'[j] = pending[j]
        /\ \A c \in Calls : call'[c] \in {"idle", "sending"} => call[c] \in {"idle", "sending"}
    BY Zenon, <2>1, DispatchOnce
  <2>4. \A j \in JobIds, c \in Calls : Sent(j, c)' => Sent(j, c)
    BY Zenon, <2>1, <2>2, <2>3, RestOfInbox, RecordKept
  <2>5. NoInboxWhileDown'
    BY <2>1 DEF NoInboxWhileDown, Down
  <2> QED
    BY Zenon, <2>1, <2>3, <2>4, <2>5, QuietOnce
<1>2. ASSUME \A c \in Calls : call'[c] \in {"idle", "sending"} => call[c] \in {"idle", "sending"},
             \A j \in DOMAIN pending' : j \in DOMAIN pending /\ pending'[j] = pending[j],
             cur' \in {cur, NoWrite}, owed' \subseteq owed, wire' \in {wire, <<>>},
             inbox' = inbox \/ \A i \in DOMAIN inbox' : ~IsReply(inbox'[i]),
             queue' \in {queue, <<>>} \/ (queue # <<>> /\ queue' = Tail(queue)),
             phase' \in Down => inbox' = <<>>
      PROVE  OncePerCall' /\ QueuedOnce' /\ NoInboxWhileDown'
  <2>1. \A j \in JobIds, c \in Calls : Sent(j, c)' => Sent(j, c)
    BY Zenon, <1>2, ForgetSent
  <2> QED
    BY Zenon, <1>2, <2>1, QuietOnce DEF NoInboxWhileDown
<1>3. CASE BeginReconnect
  <2>1. \A c \in Calls : call'[c] \in {"idle", "sending"} => call[c] \in {"idle", "sending"}
    BY Zenon, <1>3, DeliverStartsNone DEF BeginReconnect
  <2> QED
    BY Zenon, <1>2, <1>3, <2>1 DEF BeginReconnect, Drained, NoneHeld
<1>4. CASE AnswerWhileDown
  <2>1. /\ phase \in Down /\ queue # <<>> /\ queue' = Tail(queue)
        /\ UNCHANGED <<inbox, wire, owed>>
    BY Zenon, <1>4 DEF AnswerWhileDown
  <2>2. CASE Stop("LoggedOff", {Head(queue)})
    BY Zenon, <1>2, <2>1, <2>2, StopOnce DEF Down
  <2>3. CASE /\ Deliver([d \in {Head(queue)} |-> Outcome(AnswerDown(Head(queue)))])
             /\ UNCHANGED <<phase, ending, conn, cur, pending>>
    <3>1. \A c \in Calls : call'[c] \in {"idle", "sending"} => call[c] \in {"idle", "sending"}
      BY Zenon, <2>3, DeliverStartsNone
    <3> QED
      BY Zenon, <1>0, <1>2, <2>1, <2>3, <3>1 DEF NoInboxWhileDown
  <2> QED
    BY Zenon, <1>4, <2>2, <2>3 DEF AnswerWhileDown
<1>5. CASE NoneWhileDown \/ EstablishRejected
  <2>1. PICK why \in {"LoggedOff", "Failed"} :
           Stop(why, {}) /\ UNCHANGED <<queue, inbox, wire, owed>>
    BY Zenon, <1>5 DEF NoneWhileDown, EstablishRejected
  <2> QED
    BY Zenon, <1>2, <2>1, StopOnce DEF Down
<1>6. CASE BackoffElapsed \/ EstablishFails \/ PublishEnd
  BY Zenon, <1>0, <1>2, <1>6 DEF BackoffElapsed, EstablishFails, PublishEnd, NoInboxWhileDown,
                                    Down
<1>7. CASE EstablishOk
  <2>1. \A i \in DOMAIN inbox' : ~IsReply(inbox'[i])
    BY <1>7 DEF EstablishOk, FreshLogon, Msg, IsReply
  <2>2. /\ phase' = "connected" /\ wire' = <<>> /\ owed' = {}
        /\ UNCHANGED <<call, pending, cur, queue>>
    BY Zenon, <1>7 DEF EstablishOk, FreshLogon
  <2> QED
    BY Zenon, <1>2, <2>1, <2>2 DEF Down
<1>8. CASE DropDriver
  <2>1. \A c \in Calls : call'[c] \in {"idle", "sending"} => call[c] \in {"idle", "sending"}
    BY Zenon, <1>8, DeliverStartsNone DEF DropDriver
  <2> QED
    BY Zenon, <1>2, <1>8, <2>1 DEF DropDriver, Down
<1> QED
  BY Zenon, <1>1, <1>3, <1>4, <1>5, <1>6, <1>7, <1>8 DEF Reconnecting, Teardown

\* Steam replies to jobs on record.
LEMMA EnvironmentOnce ==
    Once /\ Environment => OncePerCall' /\ QueuedOnce' /\ NoInboxWhileDown'
<1> SUFFICES ASSUME Once, Environment PROVE OncePerCall' /\ QueuedOnce' /\ NoInboxWhileDown'
  OBVIOUS
<1> USE DEF netVars, driverVars, callerVars
<1>0. TypeOK /\ connNo \in Conns /\ wire \in Seq(Seq(Messages) \ {<<>>})
  BY Zenon DEF Once, TypeOK
<1>1. UNCHANGED <<phase, inbox, queue, cur, call, pending>> /\ owed' \subseteq owed
  <2>1. CASE SteamReplies
    BY <2>1 DEF SteamReplies
  <2>2. CASE Environment /\ ~SteamReplies
    BY Zenon, <2>2 DEF Environment, SteamPushes, SteamLogsOff, SocketBreaks, SocketStalls,
       SilencePasses
  <2> QED
    BY Zenon, <2>1, <2>2
<1>2. ASSUME NEW m \in Messages, Send(m), IsReply(m) => Sent(m.job, m.of)
      PROVE  \A j \in JobIds, c \in Calls : Sent(j, c)' => Sent(j, c)
  <2>1. \A i \in DOMAIN wire' : \A k \in DOMAIN wire'[i] :
           \/ wire'[i][k] = m
           \/ i \in DOMAIN wire /\ k \in DOMAIN wire[i] /\ wire'[i][k] = wire[i][k]
    <3>1. PICK p \in DOMAIN wire' : \E q \in DOMAIN wire'[p] :
              /\ wire'[p][q] = m
              /\ \A i \in DOMAIN wire' : \A k \in DOMAIN wire'[i] :
                    \/ i = p /\ k = q
                    \/ i \in DOMAIN wire /\ k \in DOMAIN wire[i] /\ wire'[i][k] = wire[i][k]
      BY ZenonT(60), <1>0, <1>2, SendPosition
    <3> QED
      BY <3>1
  <2>2. ASSUME NEW j, NEW c, NEW i \in DOMAIN wire', NEW k \in DOMAIN wire'[i],
               IsReply(wire'[i][k]), wire'[i][k].job = j, wire'[i][k].of = c
        PROVE  Sent(j, c)
    <3>1. CASE wire'[i][k] = m
      BY Zenon, <1>2, <2>2, <3>1
    <3>2. CASE i \in DOMAIN wire /\ k \in DOMAIN wire[i] /\ wire'[i][k] = wire[i][k]
      BY Zenon, <2>2, <3>2 DEF Sent
    <3> QED
      BY Zenon, <2>1, <2>2, <3>1, <3>2
  <2>3. ASSUME NEW j, NEW c, NEW i \in DOMAIN inbox',
               IsReply(inbox'[i]), inbox'[i].job = j, inbox'[i].of = c
        PROVE  Sent(j, c)
    BY Zenon, <1>1, <2>3 DEF Sent
  <2> QED
    BY Zenon, <1>1, <2>2, <2>3, RecordKept
<1>3. \A j \in JobIds, c \in Calls : Sent(j, c)' => Sent(j, c)
  <2>1. CASE SteamReplies
    <3>1. PICK w \in owed : Send(Msg("reply", w.job, w.call, connNo))
      BY Zenon, <2>1 DEF SteamReplies
    <3> DEFINE m == Msg("reply", w.job, w.call, connNo)
    <3>2. w.job \in JobIds /\ w.call \in Requests /\ w = [call |-> w.call, job |-> w.job]
      BY Zenon, <1>0 DEF TypeOK, JobWrites
    <3>3. m \in Messages /\ m.job = w.job /\ m.of = w.call
      BY Zenon, <1>0, <3>2, MsgType DEF Msg
    <3>4. Send(m)
      BY <3>1
    <3> HIDE DEF m
    <3>5. Sent(m.job, m.of)
      BY Zenon, <3>2, <3>3 DEF Sent
    <3> QED
      BY Zenon, <1>2, <3>3, <3>4, <3>5
  <2>2. ASSUME NEW t \in {"first", "later", "transient", "terminal"},
               Send(Msg(t, 0, None, connNo))
        PROVE  \A j \in JobIds, c \in Calls : Sent(j, c)' => Sent(j, c)
    <3> DEFINE m == Msg(t, 0, None, connNo)
    <3>1. m \in Messages /\ ~IsReply(m)
      BY Zenon, <1>0, MsgType DEF Msg, IsReply
    <3>2. Send(m)
      BY <2>2
    <3> HIDE DEF m
    <3> QED
      BY Zenon, <1>2, <3>1, <3>2
  <2>3. CASE SteamPushes
    <3>1. steam' \in {"first", "later"} /\ Send(Msg(steam', 0, None, connNo))
      BY <2>3 DEF SteamPushes
    <3> QED
      BY <2>2, <3>1
  <2>4. CASE SteamLogsOff
    <3>1. PICK t \in {"transient", "terminal"} : Send(Msg(t, 0, None, connNo))
      BY <2>4 DEF SteamLogsOff
    <3> QED
      BY <2>2, <3>1
  <2>5. CASE SocketBreaks \/ SocketStalls \/ SilencePasses
    BY Zenon, <1>1, <2>5, ForgetSent DEF SocketBreaks, SocketStalls, SilencePasses
  <2> QED
    BY <2>1, <2>3, <2>4, <2>5 DEF Environment
<1>4. NoInboxWhileDown'
  BY <1>1 DEF Once, NoInboxWhileDown
<1> QED
  BY <1>1, <1>3, <1>4, QuietOnce

\* Nothing moves.
LEMMA StutterOnce == Once /\ UNCHANGED vars => OncePerCall' /\ QueuedOnce' /\ NoInboxWhileDown'
<1> SUFFICES ASSUME Once, UNCHANGED vars PROVE OncePerCall' /\ QueuedOnce' /\ NoInboxWhileDown'
  OBVIOUS
<1> USE DEF vars, netVars, driverVars, callerVars
<1>1. \A j \in JobIds, c \in Calls : Sent(j, c)' => Sent(j, c)
  BY Zenon, ForgetSent
<1> QED
  BY Zenon, <1>1, QuietOnce DEF Once, NoInboxWhileDown

\* One step keeps the invariant.
LEMMA NextOnce == Once /\ [Next]_vars => Once'
<1> SUFFICES ASSUME Once, [Next]_vars PROVE Once'
  OBVIOUS
<1>1. TypeOK'
  BY CallerTypeOK, ConnectedTypeOK, ReconnectingTypeOK, EnvironmentTypeOK, StutterTypeOK
     DEF Next, Over, Once
<1>2. OncePerCall' /\ QueuedOnce' /\ NoInboxWhileDown'
  BY CallerOnce, ConnectedOnce, ReconnectingOnce, EnvironmentOnce, StutterOnce DEF Next, Over
<1> QED
  BY <1>1, <1>2 DEF Once

\* No call has been made.
LEMMA InitOnce == Init => Once
<1> SUFFICES ASSUME Init PROVE OncePerCall /\ QueuedOnce /\ NoInboxWhileDown
  BY InitTypeOK DEF Once
<1>1. None \notin Calls
  BY CallsAssumption
<1>3. \A c \in Calls : ~WasSent(c)
  BY Zenon, InitSent DEF WasSent
<1>4. OncePerCall
  BY <1>1, <1>3 DEF Init, OncePerCall, Queued, NoWrite
<1>5. QueuedOnce /\ NoInboxWhileDown
  BY DEF Init, QueuedOnce, NoInboxWhileDown, Down
<1> QED
  BY <1>4, <1>5

\* A call that ends in a oneshot send was sent its result.
LEMMA DeliverResult ==
    ASSUME NEW r, Deliver(r), NEW c \in Calls, call[c] = "waiting", call'[c] = "done"
    PROVE  c \in DOMAIN r /\ result'[c] = r[c]
BY Zenon DEF Deliver

\* A request whose reply is in the inbox is neither queued nor being written, so
\* the only steps that could end it with "session reconnecting" are not enabled.
LEMMA UnpackedStep ==
    ASSUME Once, [Next]_vars, NEW i \in DOMAIN inbox, IsReply(inbox[i]),
           call[inbox[i].of] = "waiting", call'[inbox[i].of] = "done"
    PROVE  result'[inbox[i].of].tag # "reconnecting"
<1> DEFINE c == inbox[i].of
<1> USE DEF netVars, driverVars, callerVars
<1>0. TypeOK /\ inbox # <<>> /\ phase \notin Down
  BY DEF Once, NoInboxWhileDown
<1>1. inbox[i] \in Messages
  BY <1>0 DEF TypeOK
<1>2. c \in Requests /\ c \in Calls /\ inbox[i].job \in JobIds
  BY Zenon, <1>1 DEF Messages, IsReply, Calls
<1>3. WasSent(c)
  BY Zenon, <1>2 DEF WasSent, Sent
<1>4. c \notin Queued /\ cur.call # c
  BY Zenon, <1>2, <1>3 DEF Once, OncePerCall
<1>5. call[c] = "waiting" /\ call'[c] = "done"
  BY Zenon
<1> SUFFICES result'[c].tag # "reconnecting"
  BY Zenon
<1> HIDE DEF c
<1>6. ASSUME NEW r, Deliver(r), \A d \in DOMAIN r : r[d].tag = "reconnecting" => d = cur.call
      PROVE  result'[c].tag # "reconnecting"
  BY <1>2, <1>4, <1>5, <1>6, DeliverResult
<1>7. ASSUME NEW why, NEW acked, Stop(why, acked) PROVE result'[c].tag # "reconnecting"
  <2> DEFINE r == [d \in PendingCalls \cup acked |->
                     Outcome(IF d \in acked THEN "ok" ELSE "stopped")]
  <2>1. Deliver(r) /\ \A d \in DOMAIN r : r[d].tag # "reconnecting"
    BY Zenon, <1>7 DEF Stop, Outcome
  <2> HIDE DEF r
  <2> QED
    BY Zenon, <1>6, <2>1
<1>8. ASSUME NEW m, Dispatch(m) PROVE result'[c].tag # "reconnecting"
  <2>1. Deliver([d \in {pending[m.job]} |-> ReplyOf(m.of)])
    BY Zenon, <1>5, <1>8 DEF Dispatch, DeliverNothing
  <2> DEFINE r == [d \in {pending[m.job]} |-> ReplyOf(m.of)]
  <2>2. Deliver(r) /\ \A d \in DOMAIN r : r[d].tag # "reconnecting"
    BY Zenon, <2>1 DEF ReplyOf
  <2> HIDE DEF r
  <2> QED
    BY <1>6, <2>2
<1>9. CASE Caller
  <2>1. call \in [Calls -> CallStates] /\ result \in [Calls -> Results]
    BY Zenon, <1>0 DEF TypeOK
  <2>2. ASSUME NEW d \in Calls, Issue(d) \/ Enqueue(d) \/ EnqueueClosed(d) \/ Cancel(d)
        PROVE  result'[c].tag # "reconnecting"
    BY Zenon, <1>2, <1>5, <2>1, <2>2 DEF Issue, Enqueue, EnqueueClosed, Cancel, Outcome
  <2>3. ASSUME NEW d \in Requests, DeadlinePasses(d) \/ CallerTimeout(d)
        PROVE  result'[c].tag # "reconnecting"
    <3>1. CASE DeadlinePasses(d)
      BY Zenon, <1>5, <3>1 DEF DeadlinePasses
    <3>2. CASE CallerTimeout(d)
      <4>1. call'[c] # call[c] => c = d
        BY Zenon, <1>2, <2>1, <3>2 DEF CallerTimeout
      <4> QED
        BY <1>2, <1>5, <2>1, <3>2, <4>1 DEF CallerTimeout, Outcome
    <3> QED
      BY Zenon, <2>3, <3>1, <3>2
  <2> QED
    BY Zenon, <1>5, <1>9, <2>2, <2>3 DEF Caller, DropHandles
<1>10. CASE Connected
  <2>1. CASE RecvNone
    BY Zenon, <1>7, <2>1 DEF RecvNone
  <2>2. CASE WriteOk
    <3>1. ASSUME InsertPending PROVE result'[c].tag # "reconnecting"
      <4> DEFINE displaced == IF cur.job \in DOMAIN pending THEN {pending[cur.job]} ELSE {}
                 r == [d \in displaced |-> Outcome("dropped")]
      <4>1. Deliver(r) /\ \A d \in DOMAIN r : r[d].tag # "reconnecting"
        BY Zenon, <3>1 DEF InsertPending, Outcome
      <4> HIDE DEF r
      <4> QED
        BY <1>6, <4>1
    <3>2. ASSUME Deliver([d \in {cur.call} |-> Outcome("ok")])
          PROVE  result'[c].tag # "reconnecting"
      <4> DEFINE r == [d \in {cur.call} |-> Outcome("ok")]
      <4>1. Deliver(r) /\ \A d \in DOMAIN r : r[d].tag # "reconnecting"
        BY Zenon, <3>2 DEF Outcome
      <4> HIDE DEF r
      <4> QED
        BY <1>6, <4>1
    <3> QED
      BY Zenon, <1>5, <1>7, <2>2, <3>1, <3>2 DEF WriteOk, DeliverNothing
  <2>3. CASE WriteErr
    <3>1. ASSUME Deliver([d \in {cur.call} \ {None} |-> Outcome("reconnecting")])
          PROVE  result'[c].tag # "reconnecting"
      <4> DEFINE r == [d \in {cur.call} \ {None} |-> Outcome("reconnecting")]
      <4>1. Deliver(r) /\ \A d \in DOMAIN r : d = cur.call
        BY Zenon, <3>1
      <4> HIDE DEF r
      <4> QED
        BY Zenon, <1>6, <4>1
    <3> QED
      BY Zenon, <1>7, <2>3, <3>1 DEF WriteErr
  <2>4. CASE ReadMessage
    BY Zenon, <1>8, <2>4 DEF ReadMessage
  <2>5. CASE ReadLogoff
    BY Zenon, <1>5, <1>7, <2>5 DEF ReadLogoff, DeliverNothing
  <2>6. CASE SweepPending
    <3> DEFINE r == [d \in {pending[j] : j \in {k \in DOMAIN pending : ~Keeps(k)}} |->
                       Outcome("timeout")]
    <3>1. Deliver(r) /\ \A d \in DOMAIN r : r[d].tag # "reconnecting"
      BY Zenon, <2>6 DEF SweepPending, Outcome
    <3> HIDE DEF r
    <3> QED
      BY <1>6, <3>1
  <2>7. CASE RecvCommand \/ HeartbeatDue \/ ReadControl \/ ReadErr \/ SweepIdle
    BY Zenon, <1>5, <2>7 DEF RecvCommand, HeartbeatDue, ReadControl, ReadErr, SweepIdle,
                                DeliverNothing
  <2> QED
    BY Zenon, <1>10, <2>1, <2>2, <2>3, <2>4, <2>5, <2>6, <2>7 DEF Connected
<1>11. CASE Reconnecting \/ Teardown
  <2>1. CASE Drain
    BY Zenon, <1>8, <2>1 DEF Drain
  <2>2. CASE BeginReconnect
    BY Zenon, <1>0, <2>2 DEF BeginReconnect, Drained
  <2>3. CASE PublishEnd
    BY Zenon, <1>5, <2>3 DEF PublishEnd
  <2>4. CASE DropDriver
    <3> DEFINE r == [d \in Queued |-> Outcome(IF d \in Logoffs THEN "ok" ELSE "dropped")]
    <3>1. Deliver(r) /\ \A d \in DOMAIN r : r[d].tag # "reconnecting"
      BY Zenon, <2>4 DEF DropDriver, Outcome
    <3> HIDE DEF r
    <3> QED
      BY <1>6, <3>1
  <2>5. CASE \/ AnswerWhileDown \/ NoneWhileDown \/ BackoffElapsed \/ EstablishOk
             \/ EstablishRejected \/ EstablishFails
    BY Zenon, <1>0, <2>5 DEF AnswerWhileDown, NoneWhileDown, BackoffElapsed, EstablishOk,
                      EstablishRejected, EstablishFails, Down
  <2> QED
    BY Zenon, <1>11, <2>1, <2>2, <2>3, <2>4, <2>5 DEF Reconnecting, Teardown
<1>12. CASE Environment \/ Over \/ UNCHANGED vars
  BY Zenon, <1>5, <1>12 DEF Environment, SteamReplies, SteamPushes, SteamLogsOff, SocketBreaks,
                     SocketStalls, SilencePasses, Over, vars
<1> QED
  BY Zenon, <1>9, <1>10, <1>11, <1>12 DEF Next

\* A reply that Steam batched with others and that has been unpacked reaches its
\* caller even if the socket fails first: that request never ends with "session
\* reconnecting", whatever the batching and the number of calls, and also after
\* the job counter has wrapped.
THEOREM UnpackedDelivered == Spec => UnpackedReplyIsDelivered
<1>1. Once /\ [Next]_vars =>
        [\A i \in DOMAIN inbox :
            LET c == inbox[i].of
            IN  IsReply(inbox[i]) /\ call[c] = "waiting" /\ call'[c] = "done"
                  => result'[c].tag # "reconnecting"]_vars
  BY Zenon, UnpackedStep
<1> QED
  BY InitOnce, NextOnce, <1>1, PTL DEF Spec, UnpackedReplyIsDelivered

-----------------------------------------------------------------------------
(* The contract *)

\* The answers of the contract, by kind of call and condition of the session.
LEMMA AnswerTable ==
    /\ \A c \in Logoffs : Outcome("ok") \in Contract!Answers(c, "ended")
    /\ \A c \in Notifies :
          /\ Outcome("ok") \in Contract!Answers(c, "serving")
          /\ Outcome("reconnecting") \in Contract!Answers(c, "serving")
          /\ Outcome("reconnecting") \in Contract!Answers(c, "recovering")
          /\ Outcome("dropped") \in Contract!Answers(c, "ended")
    /\ \A c \in Requests :
          /\ \A s \in {"serving", "recovering", "ended"} :
                Outcome("timeout") \in Contract!Answers(c, s)
          /\ ReplyOf(c) \in Contract!Answers(c, "serving")
          /\ Outcome("reconnecting") \in Contract!Answers(c, "serving")
          /\ Outcome("reconnecting") \in Contract!Answers(c, "recovering")
          /\ Outcome("stopped") \in Contract!Answers(c, "ended")
          /\ Outcome("dropped") \in Contract!Answers(c, "ended")
<1> USE CallsAssumption DEF Contract!Answers, Contract!Outcome, Outcome, ReplyOf
<1>1. ASSUME NEW c \in Logoffs PROVE Outcome("ok") \in Contract!Answers(c, "ended")
  OBVIOUS
<1>2. ASSUME NEW c \in Notifies
      PROVE  /\ Outcome("ok") \in Contract!Answers(c, "serving")
             /\ Outcome("reconnecting") \in Contract!Answers(c, "serving")
             /\ Outcome("reconnecting") \in Contract!Answers(c, "recovering")
             /\ Outcome("dropped") \in Contract!Answers(c, "ended")
  OBVIOUS
<1>3. ASSUME NEW c \in Requests
      PROVE  /\ \A s \in {"serving", "recovering", "ended"} :
                   Outcome("timeout") \in Contract!Answers(c, s)
             /\ ReplyOf(c) \in Contract!Answers(c, "serving")
             /\ Outcome("reconnecting") \in Contract!Answers(c, "serving")
             /\ Outcome("reconnecting") \in Contract!Answers(c, "recovering")
             /\ Outcome("stopped") \in Contract!Answers(c, "ended")
             /\ Outcome("dropped") \in Contract!Answers(c, "ended")
  OBVIOUS
<1> QED
  BY <1>1, <1>2, <1>3

\* A oneshot send per entry of r answers some waiting calls, if each entry is an
\* answer the contract allows.
LEMMA DeliverAnswers ==
    ASSUME NEW r, Deliver(r), Condition = "ended" => Condition' = "ended",
           \A c \in Calls : c \in DOMAIN r /\ call[c] = "waiting"
                               => r[c] \in Contract!Answers(c, Condition')
    PROVE  Contract!Answer
<1> DEFINE S == {c \in Calls : call[c] = "waiting" /\ c \in DOMAIN r}
           s == Condition'
<1>1. s \in {"serving", "recovering", "ended"}
  BY DEF Condition
<1>2. Contract!Calls = Calls
  BY DEF Contract!Calls, Calls
<1>3. S \in SUBSET {c \in Contract!Calls : call[c] = "waiting"}
  BY <1>2
<1>4. /\ DOMAIN result' = Calls
      /\ \A c \in Calls : result'[c] \in IF c \in S THEN Contract!Answers(c, s) ELSE {result[c]}
      /\ call' = [c \in Calls |-> IF c \in S THEN "done" ELSE call[c]]
  BY DEF Deliver
<1>5. Condition = "ended" => s = "ended"
  OBVIOUS
<1> HIDE DEF S
<1> QED
  BY <1>1, <1>2, <1>3, <1>4, <1>5 DEF Contract!Answer

\* A step that answers nobody.
LEMMA NothingAnswered ==
    ASSUME TypeOK, UNCHANGED <<call, result>>, Condition = "ended" => Condition' = "ended"
    PROVE  Contract!Answer
<1>1. Deliver([c \in {} |-> None])
  BY DEF TypeOK, Deliver
<1> QED
  BY <1>1, DeliverAnswers

\* Everything known of a reachable state while the job counter lasts.
Kept == Final /\ Matched /\ Once

\* The driver on its way out answers pending requests, and the logoffs it acks.
LEMMA StopAnswers ==
    ASSUME TypeOK, NEW why, NEW acked \in SUBSET Logoffs, Stop(why, acked)
    PROVE  Contract!Answer
<1> DEFINE r == [c \in PendingCalls \cup acked |->
                   Outcome(IF c \in acked THEN "ok" ELSE "stopped")]
<1>1. Deliver(r) /\ Condition' = "ended"
  BY DEF Stop, Condition, Exiting
<1>2. PendingCalls \subseteq Requests
  BY DEF TypeOK, PendingCalls
<1>3. \A c \in DOMAIN r : r[c] \in Contract!Answers(c, "ended")
  BY <1>2, AnswerTable
<1> HIDE DEF r
<1> QED
  BY <1>1, <1>3, DeliverAnswers

\* dispatch answers the request on record with its own reply.
LEMMA DispatchAnswers ==
    ASSUME Matched, NEW m \in Messages, Dispatch(m), IsReply(m) => Knows(m.job, m.of),
           Condition = "serving", Condition' = "serving"
    PROVE  Contract!Answer
<1>0. TypeOK
  BY DEF Matched
<1>1. CASE m.job \notin {0, MaxJobId} /\ m.job \in DOMAIN pending
  <2> DEFINE c == pending[m.job]
             r == [d \in {c} |-> ReplyOf(m.of)]
  <2>1. Deliver(r)
    BY <1>1 DEF Dispatch
  <2>2. IsReply(m) /\ m.job \in JobIds /\ m.of \in Requests
    BY <1>1 DEF Messages, IsReply
  <2>3. c \in Requests /\ Knows(m.job, c)
    BY <1>1 DEF Matched, TypeOK, Knows, Sent
  <2>4. m.of = c
    BY SMTT(30), <2>2, <2>3 DEF Matched, JobsAgree
  <2>5. \A d \in DOMAIN r : r[d] \in Contract!Answers(d, "serving")
    BY <2>3, <2>4, AnswerTable
  <2> HIDE DEF r
  <2> QED
    BY <2>1, <2>5, DeliverAnswers
<1>2. CASE ~(m.job \notin {0, MaxJobId} /\ m.job \in DOMAIN pending)
  BY <1>0, <1>2, NothingAnswered DEF Dispatch, DeliverNothing
<1> QED
  BY <1>1, <1>2

\* The condition only depends on where the driver is and what it published.
LEMMA SameCondition == UNCHANGED <<phase, state>> => Condition' = Condition
BY DEF Condition

\* What callers do is what the contract says callers do.
LEMMA CallerKeeps == Kept /\ Caller => Contract!Next \/ UNCHANGED Contract!vars
<1> SUFFICES ASSUME Kept, Caller PROVE Contract!Next \/ UNCHANGED Contract!vars
  OBVIOUS
<1> USE DEF driverVars, netVars
<1>0. TypeOK /\ call \in [Calls -> CallStates] /\ result \in [Calls -> Results]
      /\ Contract!Calls = Calls
  BY DEF Kept, Final, TypeOK, Contract!Calls, Calls
<1>1. Condition' = Condition
  BY SameCondition, Zenon DEF Caller, Issue, Enqueue, EnqueueClosed, Cancel, DeadlinePasses,
                       CallerTimeout, DropHandles
<1>2. ASSUME NEW c \in Calls, Issue(c) PROVE Contract!Issue(c)
  BY <1>1, <1>2 DEF Issue, Contract!Issue
<1>3. ASSUME NEW c \in Calls, Enqueue(c) PROVE Contract!Accept(c)
  BY <1>1, <1>3 DEF Enqueue, Contract!Accept
<1>4. ASSUME NEW c \in Calls, EnqueueClosed(c) PROVE Contract!Refuse(c)
  BY <1>1, <1>4 DEF EnqueueClosed, Contract!Refuse, Condition, Exiting, Outcome, Contract!Outcome
<1>5. ASSUME NEW c \in Calls, Cancel(c) PROVE Contract!Abandon(c)
  BY <1>1, <1>5 DEF Cancel, Contract!Abandon
<1>6. ASSUME NEW c \in Requests, CallerTimeout(c) PROVE Contract!Answer
  <2> DEFINE r == [d \in {c} |-> Outcome("timeout")]
  <2>1. c \in Calls /\ call[c] = "waiting" /\ call' = [call EXCEPT ![c] = "done"]
        /\ result' = [result EXCEPT ![c] = Outcome("timeout")]
    BY <1>6 DEF CallerTimeout, Calls
  <2>2. Deliver(r)
    BY <1>0, <2>1, Zenon DEF Deliver
  <2>3. Condition' \in {"serving", "recovering", "ended"}
    BY DEF Condition
  <2>4. \A d \in DOMAIN r : r[d] \in Contract!Answers(d, Condition')
    BY <2>3, AnswerTable
  <2> HIDE DEF r
  <2> QED
    BY <1>1, <2>2, <2>4, DeliverAnswers
<1>7. ASSUME (\E c \in Requests : DeadlinePasses(c)) \/ DropHandles
      PROVE  UNCHANGED Contract!vars
  BY <1>1, <1>7 DEF DeadlinePasses, DropHandles, Contract!vars
<1> QED
  BY SMTT(30), <1>0, <1>2, <1>3, <1>4, <1>5, <1>6, <1>7 DEF Caller, Contract!Next

\* A connected driver serves: what it tells a caller, it tells while serving, or
\* by ending.
LEMMA ConnectedKeeps == Kept /\ Connected => Contract!Answer
<1> SUFFICES ASSUME Kept, Connected PROVE Contract!Answer
  OBVIOUS
<1> USE DEF netVars, callerVars
<1>0. TypeOK /\ None \notin Calls
  BY CallsAssumption DEF Kept, Final
<1>1. phase \in Up /\ state = "LoggedOn" /\ Condition = "serving"
  <2>1. phase \in Up
    BY Zenon DEF Connected, RecvCommand, RecvNone, HeartbeatDue, WriteOk, WriteErr, ReadMessage,
           ReadLogoff, ReadControl, ReadErr, SweepIdle, SweepPending, Up
  <2> QED
    BY <2>1 DEF Kept, Final, PhaseState, Condition, Up, Exiting
<1>2. ASSUME phase' \in {"connected", "writing", "draining"}, state' = state
      PROVE  Condition' = "serving"
  BY <1>1, <1>2 DEF Condition, Exiting
<1>3. CASE RecvCommand \/ HeartbeatDue \/ ReadControl \/ ReadErr \/ SweepIdle
  <2>1. UNCHANGED <<call, result, state>> /\ phase' \in {"connected", "writing", "draining"}
    BY Zenon, <1>3 DEF RecvCommand, HeartbeatDue, ReadControl, ReadErr, SweepIdle, Disconnect,
                DeliverNothing
  <2> QED
    BY <1>0, <1>1, <1>2, <2>1, NothingAnswered
<1>4. CASE RecvNone
  BY <1>0, <1>4, StopAnswers DEF RecvNone
<1>5. CASE WriteOk
  <2>1. CASE cur.call \in Logoffs
    <3>1. Stop("LoggedOff", {cur.call})
      BY <1>5, <2>1 DEF WriteOk
    <3> QED
      BY <1>0, <2>1, <3>1, StopAnswers
  <2>2. CASE cur.call \notin Logoffs
    <3>1. Condition' = "serving"
      BY <1>2, <1>5, <2>2 DEF WriteOk
    <3>2. CASE cur.call \in Requests /\ InsertPending
      <4>1. cur.job \in JobIds /\ cur = [call |-> cur.call, job |-> cur.job]
        BY Zenon, <1>0, <3>2, CallsAssumption DEF TypeOK, Writes, JobWrites, Calls
      <4>2. cur.job \notin DOMAIN pending
        <5> SUFFICES ASSUME cur.job \in DOMAIN pending PROVE FALSE
          OBVIOUS
        <5> DEFINE d == pending[cur.job]
        <5>1. d \in Requests /\ Sent(cur.job, d)
          BY <1>0 DEF TypeOK, Sent
        <5>2. Knows(cur.job, d) /\ Knows(cur.job, cur.call)
          BY <4>1, <5>1 DEF Knows
        <5>3. d = cur.call
          BY SMTT(30), <3>2, <4>1, <5>1, <5>2 DEF Kept, Matched, JobsAgree
        <5>4. cur.call \in Calls /\ WasSent(cur.call)
          BY SMTT(30), <3>2, <4>1, <5>1, <5>3 DEF WasSent, Calls
        <5> QED
          BY <5>4 DEF Kept, Once, OncePerCall
      <4> DEFINE r == [c \in {} |-> Outcome("dropped")]
      <4>3. Deliver(r)
        BY <3>2, <4>2 DEF InsertPending
      <4>4. \A c \in DOMAIN r : r[c] \in Contract!Answers(c, "serving")
        OBVIOUS
      <4> HIDE DEF r
      <4> QED
        BY <1>1, <3>1, <4>3, <4>4, DeliverAnswers
    <3>3. CASE cur.call \in Notifies /\ Deliver([c \in {cur.call} |-> Outcome("ok")])
      <4> DEFINE r == [c \in {cur.call} |-> Outcome("ok")]
      <4>1. Deliver(r) /\ \A c \in DOMAIN r : r[c] \in Contract!Answers(c, "serving")
        BY <3>3, AnswerTable
      <4> HIDE DEF r
      <4> QED
        BY SMTT(30), <1>1, <3>1, <4>1, DeliverAnswers
    <3>4. CASE DeliverNothing
      BY SMTT(30), <1>0, <1>1, <3>1, <3>4, NothingAnswered DEF DeliverNothing
    <3> QED
      BY <1>5, <2>2, <3>2, <3>3, <3>4 DEF WriteOk
  <2> QED
    BY <2>1, <2>2
<1>6. CASE WriteErr
  <2>1. CASE cur.call \in Logoffs
    <3>1. Stop("LoggedOff", {cur.call})
      BY <1>6, <2>1 DEF WriteErr
    <3> QED
      BY <1>0, <2>1, <3>1, StopAnswers
  <2>2. CASE cur.call \notin Logoffs
    <3> DEFINE r == [c \in {cur.call} \ {None} |-> Outcome("reconnecting")]
    <3>1. Deliver(r) /\ Condition' = "serving"
      BY SMTT(30), <1>2, <1>6, <2>2 DEF WriteErr, Disconnect
    <3>2. cur.call \in Requests \cup Notifies \cup {None}
      BY <1>0, <2>2 DEF TypeOK, Writes, JobWrites
    <3>3. \A c \in DOMAIN r : r[c] \in Contract!Answers(c, "serving")
      BY Zenon, <3>2, AnswerTable
    <3> HIDE DEF r
    <3> QED
      BY <1>1, <3>1, <3>3, DeliverAnswers
  <2> QED
    BY <2>1, <2>2
<1>7. CASE ReadMessage
  <2>1. NextMessage \in Messages /\ (IsReply(NextMessage) => Knows(NextMessage.job, NextMessage.of))
    BY Zenon, <1>0, <1>7, TakeType, TakeSent DEF ReadMessage, Knows
  <2>2. Dispatch(NextMessage) /\ Condition' = "serving"
    BY <1>2, <1>7 DEF ReadMessage
  <2> QED
    BY <1>1, <2>1, <2>2, DispatchAnswers DEF Kept
<1>8. CASE ReadLogoff
  <2>1. CASE Stop("LoggedOff", {})
    BY <1>0, <2>1, StopAnswers
  <2>2. CASE Disconnect /\ DeliverNothing
    <3>1. Condition' = "serving" /\ UNCHANGED <<call, result>>
      BY SMTT(30), <1>2, <1>8, <2>2 DEF ReadLogoff, Disconnect, DeliverNothing
    <3> QED
      BY <1>0, <1>1, <3>1, NothingAnswered
  <2> QED
    BY <1>8, <2>1, <2>2 DEF ReadLogoff
<1>9. CASE SweepPending
  <2> DEFINE r == [c \in {pending[j] : j \in {i \in DOMAIN pending : ~Keeps(i)}} |->
                     Outcome("timeout")]
  <2>1. Deliver(r) /\ Condition' = "serving"
    BY <1>2, <1>9 DEF SweepPending
  <2>2. \A c \in DOMAIN r : c \in Requests
    BY <1>0 DEF TypeOK
  <2>3. \A c \in DOMAIN r : r[c] \in Contract!Answers(c, "serving")
    BY Zenon, <2>2, AnswerTable
  <2> HIDE DEF r
  <2> QED
    BY <1>1, <2>1, <2>3, DeliverAnswers
<1> QED
  BY <1>3, <1>4, <1>5, <1>6, <1>7, <1>8, <1>9 DEF Connected

\* The drop, the reconnect and the way out.
LEMMA ReconnectingKeeps == Kept /\ (Reconnecting \/ Teardown) => Contract!Answer
<1> SUFFICES ASSUME Kept, Reconnecting \/ Teardown PROVE Contract!Answer
  OBVIOUS
<1> USE DEF netVars, callerVars
<1>0. TypeOK /\ PhaseState
  BY DEF Kept, Final
<1>1. CASE Drain
  <2>1. /\ inbox \in Seq(Messages) /\ inbox # <<>> /\ Dispatch(Head(inbox))
        /\ phase = "draining" /\ phase' = phase /\ state' = state /\ state = "LoggedOn"
    BY Zenon, <1>0, <1>1 DEF Drain, TypeOK, PhaseState
  <2>2. Head(inbox) \in Messages /\ Head(inbox) = inbox[1] /\ 1 \in DOMAIN inbox
    BY <2>1
  <2>3. IsReply(Head(inbox)) => Knows(Head(inbox).job, Head(inbox).of)
    BY Zenon, <2>2 DEF Knows, Sent
  <2>4. Condition = "serving" /\ Condition' = "serving"
    BY <2>1 DEF Condition, Exiting
  <2> QED
    BY <2>1, <2>2, <2>3, <2>4, DispatchAnswers DEF Kept
<1>2. CASE BeginReconnect
  <2> DEFINE r == [c \in PendingCalls |-> Outcome("reconnecting")]
  <2>1. Deliver(r) /\ Condition # "ended" /\ Condition' = "recovering"
    BY <1>2 DEF BeginReconnect, DownState, Condition, Exiting
  <2>2. PendingCalls \subseteq Requests
    BY <1>0 DEF TypeOK, PendingCalls
  <2>3. \A c \in DOMAIN r : r[c] \in Contract!Answers(c, "recovering")
    BY <2>2, AnswerTable
  <2> HIDE DEF r
  <2> QED
    BY <2>1, <2>3, DeliverAnswers
<1>3. CASE AnswerWhileDown
  <2> DEFINE h == Head(queue)
  <2>1. phase \in Down /\ state' = state /\ state = "Connecting" /\ h \in Calls
    BY <1>0, <1>3 DEF AnswerWhileDown, TypeOK, PhaseState
  <2>2. CASE h \in Logoffs
    <3>1. Stop("LoggedOff", {h})
      BY <1>3, <2>2 DEF AnswerWhileDown, StopsWhileDown
    <3> QED
      BY <1>0, <2>2, <3>1, StopAnswers
  <2>3. CASE h \notin Logoffs
    <3> DEFINE r == [d \in {h} |-> Outcome("reconnecting")]
    <3>1. Deliver(r) /\ phase' = phase
      BY <1>3, <2>3 DEF AnswerWhileDown, StopsWhileDown, AnswerDown
    <3>2. Condition = "recovering" /\ Condition' = "recovering"
      BY <2>1, <3>1 DEF Condition, Exiting, Down
    <3>3. \A d \in DOMAIN r : r[d] \in Contract!Answers(d, "recovering")
      BY <2>1, <2>3, AnswerTable DEF Calls
    <3> HIDE DEF r
    <3> QED
      BY SMTT(30), <3>1, <3>2, <3>3, DeliverAnswers
  <2> QED
    BY <2>2, <2>3
<1>4. CASE NoneWhileDown \/ EstablishRejected
  BY <1>0, <1>4, StopAnswers DEF NoneWhileDown, EstablishRejected
<1>5. CASE BackoffElapsed \/ EstablishFails \/ EstablishOk
  <2>1. UNCHANGED <<call, result>> /\ Condition # "ended"
    BY <1>5 DEF BackoffElapsed, EstablishFails, EstablishOk, Condition, Exiting
  <2> QED
    BY SMTT(30), <1>0, <2>1, NothingAnswered
<1>6. CASE PublishEnd
  <2>1. UNCHANGED <<call, result>> /\ Condition' = "ended"
    BY <1>6 DEF PublishEnd, Condition, Exiting
  <2> QED
    BY <1>0, <2>1, NothingAnswered
<1>7. CASE DropDriver
  <2> DEFINE r == [c \in Queued |-> Outcome(IF c \in Logoffs THEN "ok" ELSE "dropped")]
  <2>1. Deliver(r) /\ Condition' = "ended"
    BY <1>7 DEF DropDriver, Condition, Exiting
  <2>2. Queued \subseteq Calls
    BY <1>0 DEF TypeOK, Queued
  <2>3. \A c \in DOMAIN r : r[c] \in Contract!Answers(c, "ended")
    BY Zenon, <2>2, AnswerTable DEF Calls
  <2> HIDE DEF r
  <2> QED
    BY SMTT(30), <2>1, <2>3, DeliverAnswers
<1> QED
  BY SMTT(30), <1>1, <1>2, <1>3, <1>4, <1>5, <1>6, <1>7 DEF Reconnecting, Teardown

\* The driver implements the contract, as long as the u64 job counter has not
\* run out: every call is answered at most once, with an answer its kind may get
\* from a session in that condition; no reply comes out of a reconnect, no call
\* is turned away before the driver has ended, and an ended session stays ended.
THEOREM KeepsContract == Spec /\ [](nextJob < MaxJobId) => ImplementsContract
<1>1. Init => Contract!Init
  BY Zenon DEF Init, Contract!Init, Contract!Calls, Calls, Contract!Outcome, Outcome, Condition,
         Exiting
<1>2. Kept /\ [Next]_vars => [Contract!Next]_(Contract!vars)
  <2> SUFFICES ASSUME Kept, [Next]_vars PROVE Contract!Next \/ UNCHANGED Contract!vars
    OBVIOUS
  <2>1. CASE Caller
    BY <2>1, CallerKeeps
  <2>2. CASE Connected \/ Reconnecting \/ Teardown
    BY <2>2, ConnectedKeeps, ReconnectingKeeps DEF Contract!Next
  <2>3. CASE Environment \/ Over \/ UNCHANGED vars
    <3>1. UNCHANGED <<call, result, phase, state>>
      BY Zenon, <2>3 DEF Environment, SteamReplies, SteamPushes, SteamLogsOff, SocketBreaks,
                  SocketStalls, SilencePasses, Over, vars, callerVars, driverVars, netVars
    <3> QED
      BY <3>1, SameCondition DEF Contract!vars
  <2> QED
    BY <2>1, <2>2, <2>3 DEF Next
<1>3. Kept <=> Final /\ Matched /\ Once
  BY DEF Kept
<1> QED
  BY InitFinal, NextFinal, InitMatched, NextMatched, InitOnce, NextOnce, <1>1, <1>2, <1>3, PTL
     DEF Spec, ImplementsContract, Contract!Spec

-----------------------------------------------------------------------------
(* The snapshot cache *)

\* A first snapshot is in the inbox, or on the socket; it is there before position
\* n, or before message k of frame i.
InboxHoldsFirst == \E a \in DOMAIN inbox : inbox[a].type = "first"
WireHoldsFirst == \E a \in DOMAIN wire : \E b \in DOMAIN wire[a] : wire[a][b].type = "first"
FirstInInbox(n) == \E a \in DOMAIN inbox : a < n /\ inbox[a].type = "first"
FirstOnWire(i, k) ==
    \E a \in DOMAIN wire : \E b \in DOMAIN wire[a] :
        (a < i \/ (a = i /\ b < k)) /\ wire[a][b].type = "first"

\* Snapshots on their way are of this logon, and none overtakes the first.
InboxInOrder ==
    phase \in Up \cup {"draining"} =>
        \A i \in DOMAIN inbox :
            /\ IsSnapshot(inbox[i]) => inbox[i].conn = connNo
            /\ inbox[i].type = "later" => snapshot # NoSnapshot \/ FirstInInbox(i)
WireInOrder ==
    phase \in Up =>
        \A i \in DOMAIN wire : \A k \in DOMAIN wire[i] :
            /\ IsSnapshot(wire[i][k]) => wire[i][k].conn = connNo
            /\ wire[i][k].type = "later" =>
                  \/ snapshot # NoSnapshot
                  \/ InboxHoldsFirst
                  \/ FirstOnWire(i, k)

\* A first snapshot Steam has pushed is cached, in the inbox or on the socket.
FirstIsSomewhere ==
    phase \in Up /\ steam \in {"first", "later"} =>
        \/ snapshot # NoSnapshot
        \/ InboxHoldsFirst
        \/ WireHoldsFirst

\* Nothing has been broadcast from a logon to come.
EventsArePast == \A m \in events : IsSnapshot(m) => m.conn <= connNo

\* What holds of the cache and of the snapshots on their way to it.
Ordered == InboxInOrder /\ WireInOrder /\ FirstIsSomewhere /\ EventsArePast /\ SnapshotIsCurrent

\* The inductive invariant behind SnapshotIsCurrent.
Cached == Final /\ Ordered

\* A step that touches neither the messages nor the cache, and logs nobody on.
LEMMA QuietCached ==
    ASSUME Cached, UNCHANGED <<inbox, wire, snapshot, events, connNo, steam>>,
           phase' \in Up => phase \in Up,
           phase' = "draining" => phase \in Up \cup {"draining"},
           state' = "LoggedOn" => state = "LoggedOn"
    PROVE  Ordered'
<1>1. InboxInOrder' /\ WireInOrder' /\ FirstIsSomewhere'
  BY DEF Cached, Ordered, InboxInOrder, WireInOrder, FirstIsSomewhere, FirstInInbox,
                  FirstOnWire,
         InboxHoldsFirst, WireHoldsFirst
<1>2. EventsArePast' /\ SnapshotIsCurrent'
  BY DEF Cached, Ordered, EventsArePast, SnapshotIsCurrent
<1> QED
  BY SMTT(30), <1>1, <1>2 DEF Ordered

\* What Steam sends keeps the order: a later snapshot follows the first.
LEMMA SendCached ==
    ASSUME Cached, NEW m \in Messages, Send(m), phase \in Up,
           UNCHANGED <<phase, state, inbox, snapshot, events, connNo>>,
           IsSnapshot(m) => m.conn = connNo,
           m.type = "later" => steam \in {"first", "later"},
           steam' \in {"first", "later"} => m.type = "first" \/ steam \in {"first", "later"}
    PROVE  Ordered'
<1>1. wire \in Seq(Seq(Messages) \ {<<>>})
  BY DEF Cached, Final, TypeOK
<1>2. PICK p \in DOMAIN wire' : \E q \in DOMAIN wire'[p] :
          /\ wire'[p][q] = m
          /\ \A i \in DOMAIN wire : \A k \in DOMAIN wire[i] :
                /\ i \in DOMAIN wire' /\ k \in DOMAIN wire'[i] /\ wire'[i][k] = wire[i][k]
                /\ i < p \/ (i = p /\ k < q)
          /\ \A i \in DOMAIN wire' : \A k \in DOMAIN wire'[i] :
                \/ i = p /\ k = q
                \/ i \in DOMAIN wire /\ k \in DOMAIN wire[i] /\ wire'[i][k] = wire[i][k]
  BY Zenon, <1>1, SendPosition
<1>3. PICK q \in DOMAIN wire'[p] :
          /\ wire'[p][q] = m
          /\ \A i \in DOMAIN wire : \A k \in DOMAIN wire[i] :
                /\ i \in DOMAIN wire' /\ k \in DOMAIN wire'[i] /\ wire'[i][k] = wire[i][k]
                /\ i < p \/ (i = p /\ k < q)
          /\ \A i \in DOMAIN wire' : \A k \in DOMAIN wire'[i] :
                \/ i = p /\ k = q
                \/ i \in DOMAIN wire /\ k \in DOMAIN wire[i] /\ wire'[i][k] = wire[i][k]
  BY Zenon, <1>2
<1>4. \A i, k : FirstOnWire(i, k) => FirstOnWire(i, k)'
  BY SMTT(30), <1>3 DEF FirstOnWire
<1>5. /\ WireHoldsFirst => WireHoldsFirst' /\ FirstOnWire(p, q)'
      /\ m.type = "first" => WireHoldsFirst'
  BY SMTT(30), <1>3 DEF FirstOnWire, WireHoldsFirst
<1>6. InboxHoldsFirst' = InboxHoldsFirst /\ \A n : FirstInInbox(n)' <=> FirstInInbox(n)
  BY DEF FirstInInbox, InboxHoldsFirst
<1>7. InboxInOrder' /\ EventsArePast' /\ SnapshotIsCurrent'
  BY Zenon, <1>6 DEF Cached, Ordered, InboxInOrder, EventsArePast, SnapshotIsCurrent
<1>8. steam \in {"first", "later"} => snapshot # NoSnapshot \/ InboxHoldsFirst
                        \/ WireHoldsFirst
  BY DEF Cached, Ordered, FirstIsSomewhere
<1>9. FirstIsSomewhere'
  BY <1>5, <1>6, <1>8 DEF FirstIsSomewhere
<1>10. WireInOrder'
  <2> SUFFICES ASSUME NEW i \in DOMAIN wire', NEW k \in DOMAIN wire'[i]
               PROVE  /\ IsSnapshot(wire'[i][k]) => wire'[i][k].conn = connNo'
                      /\ wire'[i][k].type = "later" =>
                            \/ snapshot' # NoSnapshot
                            \/ InboxHoldsFirst'
                            \/ FirstOnWire(i, k)'
    BY Zenon DEF WireInOrder, IsSnapshot
  <2>1. CASE i = p /\ k = q
    BY Zenon, <1>3, <1>5, <1>6, <1>8, <2>1
  <2>2. CASE i \in DOMAIN wire /\ k \in DOMAIN wire[i] /\ wire'[i][k] = wire[i][k]
    BY Zenon, <1>4, <1>6, <2>2 DEF Cached, Ordered, WireInOrder
  <2> QED
    BY Zenon, <1>3, <2>1, <2>2
<1> QED
  BY SMTT(30), <1>7, <1>9, <1>10 DEF Ordered

\* dispatch keeps the cache right when no later snapshot comes before the first.
LEMMA DispatchCached ==
    ASSUME TypeOK, NEW m \in Messages, Dispatch(m), state = "LoggedOn",
           EventsArePast, SnapshotIsCurrent, UNCHANGED <<state, connNo>>,
           IsSnapshot(m) => m.conn = connNo,
           m.type = "later" => snapshot # NoSnapshot
    PROVE  /\ EventsArePast' /\ SnapshotIsCurrent'
           /\ snapshot # NoSnapshot => snapshot' # NoSnapshot
           /\ m.type = "first" => snapshot' # NoSnapshot
<1>1. connNo \in Nat
  BY BoundsAssumption DEF TypeOK, Conns
<1>2. CASE m.job \notin {0, MaxJobId} /\ m.job \in DOMAIN pending
  <2>1. UNCHANGED <<snapshot, events>> /\ m.type # "first"
    BY Zenon, <1>2 DEF Dispatch, Messages
  <2> QED
    BY <2>1 DEF EventsArePast, SnapshotIsCurrent
<1>3. CASE ~(m.job \notin {0, MaxJobId} /\ m.job \in DOMAIN pending)
  <2>1. /\ snapshot' = IF IsSnapshot(m) /\ snapshot = NoSnapshot
                       THEN [type |-> m.type, conn |-> m.conn]
                       ELSE snapshot
        /\ events' = events \cup {m}
    BY Zenon, <1>3 DEF Dispatch
  <2>2. EventsArePast'
    BY <1>1, <2>1 DEF EventsArePast
  <2>3. CASE IsSnapshot(m) /\ snapshot = NoSnapshot
    <3>1. m.type = "first" /\ snapshot' = [type |-> "first", conn |-> connNo]
      BY Zenon, <2>1, <2>3 DEF IsSnapshot
    <3>2. snapshot' # NoSnapshot
      BY Zenon, <3>1 DEF NoSnapshot
    <3> QED
      BY Zenon, <2>2, <2>3, <3>1, <3>2 DEF SnapshotIsCurrent
  <2>4. CASE ~(IsSnapshot(m) /\ snapshot = NoSnapshot)
    <3>1. snapshot' = snapshot /\ (snapshot = NoSnapshot => ~IsSnapshot(m))
      BY Zenon, <2>1, <2>4
    <3>2. SnapshotIsCurrent'
      BY Zenon, <2>1, <3>1 DEF SnapshotIsCurrent
    <3> QED
      BY <2>2, <3>1, <3>2 DEF IsSnapshot
  <2> QED
    BY <2>3, <2>4
<1> QED
  BY <1>2, <1>3

\* The message read next is of this logon, and no later snapshot comes up
\* before the first is cached.
LEMMA NextInOrder ==
    ASSUME TypeOK, InboxInOrder, WireInOrder, phase \in Up, HasMessage
    PROVE  /\ NextMessage \in Messages
           /\ IsSnapshot(NextMessage) => NextMessage.conn = connNo
           /\ NextMessage.type = "later" => snapshot # NoSnapshot
<1>1. CASE inbox # <<>>
  <2>1. /\ 1 \in DOMAIN inbox /\ NextMessage = inbox[1] /\ inbox[1] \in Messages
        /\ DOMAIN inbox = 1 .. Len(inbox)
    BY <1>1 DEF NextMessage, TypeOK
  <2> QED
    BY <2>1 DEF InboxInOrder, FirstInInbox
<1>2. CASE inbox = <<>>
  <2> DEFINE Frames == Seq(Messages) \ {<<>>}
  <2>1. wire \in Seq(Frames) /\ wire # <<>>
    BY Zenon, <1>2 DEF HasMessage, TypeOK
  <2> HIDE DEF Frames
  <2>2. Head(wire) = wire[1] /\ 1 \in DOMAIN wire /\ wire[1] \in Frames
        /\ DOMAIN wire \subseteq Nat \ {0}
    BY <2>1
  <2> USE DEF Frames
  <2>3. /\ 1 \in DOMAIN wire[1] /\ Head(wire[1]) = wire[1][1] /\ wire[1][1] \in Messages
        /\ DOMAIN wire[1] \subseteq Nat \ {0}
    BY <2>2
  <2> HIDE DEF Frames
  <2>4. NextMessage = wire[1][1]
    BY Zenon, <1>2, <2>2, <2>3 DEF NextMessage
  <2>5. ~InboxHoldsFirst
    BY <1>2 DEF InboxHoldsFirst
  <2>6. ~FirstOnWire(1, 1)
    BY <2>2, <2>3 DEF FirstOnWire
  <2> QED
    BY Zenon, <2>2, <2>3, <2>4, <2>5, <2>6 DEF WireInOrder
<1> QED
  BY SMTT(30), <1>1, <1>2

\* Taking the head of the inbox keeps the rest in order: what was behind a first
\* snapshot that is taken is now behind the cached one.
LEMMA TailInOrder ==
    ASSUME TypeOK, InboxInOrder, phase \in Up \cup {"draining"},
           inbox # <<>>, inbox' = Tail(inbox), connNo' = connNo,
           snapshot # NoSnapshot => snapshot' # NoSnapshot,
           Head(inbox).type = "first" => snapshot' # NoSnapshot
    PROVE  /\ InboxInOrder'
           /\ InboxHoldsFirst => InboxHoldsFirst' \/ snapshot' # NoSnapshot
<1>1. /\ DOMAIN inbox = 1 .. Len(inbox) /\ Len(inbox) \in Nat
      /\ DOMAIN inbox' = 1 .. Len(inbox) - 1
      /\ \A i \in DOMAIN inbox' : inbox'[i] = inbox[i + 1]
      /\ Head(inbox) = inbox[1]
  BY DEF TypeOK
<1>2. ASSUME NEW n \in Nat, FirstInInbox(n + 1)
      PROVE  FirstInInbox(n)' \/ snapshot' # NoSnapshot
  <2>1. PICK a \in DOMAIN inbox : a < n + 1 /\ inbox[a].type = "first"
    BY <1>2 DEF FirstInInbox
  <2>2. CASE a = 1
    BY <1>1, <2>1, <2>2
  <2>3. CASE a # 1
    <3>1. a - 1 \in DOMAIN inbox' /\ a - 1 < n /\ inbox'[a - 1] = inbox[a]
      BY <1>1, <2>1, <2>3
    <3> QED
      BY Zenon, <2>1, <3>1 DEF FirstInInbox
  <2> QED
    BY <2>2, <2>3
<1>3. InboxInOrder'
  <2> SUFFICES ASSUME NEW i \in DOMAIN inbox'
               PROVE  /\ IsSnapshot(inbox'[i]) => inbox'[i].conn = connNo'
                      /\ inbox'[i].type = "later" => snapshot' # NoSnapshot \/ FirstInInbox(i)'
    BY Zenon DEF InboxInOrder, IsSnapshot
  <2>1. i \in Nat /\ i + 1 \in DOMAIN inbox /\ inbox'[i] = inbox[i + 1]
    BY <1>1
  <2> QED
    BY Zenon, <1>2, <2>1 DEF InboxInOrder
<1>4. ASSUME InboxHoldsFirst PROVE InboxHoldsFirst' \/ snapshot' # NoSnapshot
  <2>1. PICK a \in DOMAIN inbox : inbox[a].type = "first"
    BY <1>4 DEF InboxHoldsFirst
  <2>2. CASE a = 1
    BY Zenon, <1>1, <2>1, <2>2
  <2>3. CASE a # 1
    <3>1. a - 1 \in DOMAIN inbox' /\ inbox'[a - 1] = inbox[a]
      BY <1>1, <2>3
    <3> QED
      BY Zenon, <2>1, <3>1 DEF InboxHoldsFirst
  <2> QED
    BY <2>2, <2>3
<1> QED
  BY SMTT(30), <1>3, <1>4

\* Unpacking a frame moves its messages, in order, from the socket to the inbox.
LEMMA UnpackInOrder ==
    ASSUME TypeOK, WireInOrder, FirstIsSomewhere, phase \in Up,
           inbox = <<>>, wire # <<>>, inbox' = Tail(Head(wire)), wire' = Tail(wire),
           UNCHANGED <<connNo, steam>>,
           snapshot # NoSnapshot => snapshot' # NoSnapshot,
           Head(Head(wire)).type = "first" => snapshot' # NoSnapshot
    PROVE  InboxInOrder' /\ WireInOrder' /\ FirstIsSomewhere'
<1> DEFINE Frames == Seq(Messages) \ {<<>>}
           f == wire[1]
<1>1. wire \in Seq(Frames)
  BY DEF TypeOK
<1> HIDE DEF Frames
<1>2. /\ DOMAIN wire = 1 .. Len(wire) /\ Len(wire) \in Nat
      /\ DOMAIN wire' = 1 .. Len(wire) - 1
      /\ \A i \in DOMAIN wire' : wire'[i] = wire[i + 1]
      /\ Head(wire) = f /\ 1 \in DOMAIN wire
      /\ f \in Frames
      /\ \A i \in DOMAIN wire : wire[i] \in Frames
  BY <1>1
<1>3. /\ DOMAIN f = 1 .. Len(f) /\ Len(f) \in Nat
      /\ DOMAIN inbox' = 1 .. Len(f) - 1
      /\ \A i \in DOMAIN inbox' : inbox'[i] = f[i + 1]
      /\ Head(f) = f[1]
  BY <1>2 DEF Frames
<1>4. ~InboxHoldsFirst
  BY DEF InboxHoldsFirst
<1>5. f = wire[1]
  OBVIOUS
<1> HIDE DEF f
<1>6. ASSUME NEW b \in DOMAIN f, f[b].type = "first"
      PROVE  snapshot' # NoSnapshot \/ (b - 1 \in DOMAIN inbox' /\ inbox'[b - 1].type = "first")
  <2>1. CASE b = 1
    BY Zenon, <1>2, <1>3, <1>6, <2>1
  <2>2. CASE b # 1
    BY SMTT(30), <1>3, <1>6, <2>2
  <2> QED
    BY Zenon, <2>1, <2>2
<1>7. InboxInOrder'
  <2> SUFFICES ASSUME NEW i \in DOMAIN inbox'
               PROVE  /\ IsSnapshot(inbox'[i]) => inbox'[i].conn = connNo'
                      /\ inbox'[i].type = "later" => snapshot' # NoSnapshot \/ FirstInInbox(i)'
    BY Zenon DEF InboxInOrder, IsSnapshot
  <2>1. i \in Nat /\ i + 1 \in DOMAIN f /\ inbox'[i] = f[i + 1]
    <3>1. Len(f) \in Nat /\ i \in 1 .. Len(f) - 1
      BY Zenon, <1>3
    <3>2. i \in Nat /\ i + 1 \in 1 .. Len(f)
      BY SMTT(30), <3>1
    <3> QED
      BY Zenon, <1>3, <3>2
  <2>2. /\ IsSnapshot(f[i + 1]) => f[i + 1].conn = connNo
        /\ f[i + 1].type = "later" => snapshot # NoSnapshot \/ FirstOnWire(1, i + 1)
    BY SMTT(30), <1>2, <1>4, <1>5, <2>1 DEF WireInOrder
  <2>3. ASSUME FirstOnWire(1, i + 1) PROVE snapshot' # NoSnapshot \/ FirstInInbox(i)'
    <3>1. PICK b \in DOMAIN f : b < i + 1 /\ f[b].type = "first"
      BY SMTT(30), <1>2, <1>5, <2>3 DEF FirstOnWire
    <3> QED
      BY SMTT(30), <1>3, <1>6, <2>1, <3>1 DEF FirstInInbox
  <2> QED
    BY Zenon, <2>1, <2>2, <2>3
<1>8. ASSUME NEW b \in DOMAIN f, f[b].type = "first"
      PROVE  snapshot' # NoSnapshot \/ InboxHoldsFirst'
  BY SMTT(30), <1>6, <1>8 DEF InboxHoldsFirst
<1>9. WireInOrder'
  <2> SUFFICES ASSUME NEW i \in DOMAIN wire', NEW k \in DOMAIN wire'[i]
               PROVE  /\ IsSnapshot(wire'[i][k]) => wire'[i][k].conn = connNo'
                      /\ wire'[i][k].type = "later" =>
                            \/ snapshot' # NoSnapshot
                            \/ InboxHoldsFirst'
                            \/ FirstOnWire(i, k)'
    BY Zenon DEF WireInOrder, IsSnapshot
  <2>1. i \in Nat /\ i + 1 \in DOMAIN wire /\ wire'[i] = wire[i + 1]
    BY SMTT(30), <1>2
  <2>2. /\ IsSnapshot(wire'[i][k]) => wire'[i][k].conn = connNo
        /\ wire'[i][k].type = "later" => snapshot # NoSnapshot \/ FirstOnWire(i + 1, k)
    BY SMTT(30), <1>4, <2>1 DEF WireInOrder
  <2>3. ASSUME FirstOnWire(i + 1, k)
        PROVE  snapshot' # NoSnapshot \/ InboxHoldsFirst' \/ FirstOnWire(i, k)'
    <3>1. PICK a \in DOMAIN wire : \E b \in DOMAIN wire[a] :
              (a < i + 1 \/ (a = i + 1 /\ b < k)) /\ wire[a][b].type = "first"
      BY Zenon, <2>3 DEF FirstOnWire
    <3>2. CASE a = 1
      BY SMTT(30), <1>5, <1>8, <3>1, <3>2
    <3>3. CASE a # 1
      <4>1. a - 1 \in DOMAIN wire' /\ wire'[a - 1] = wire[a]
            /\ (a < i + 1 => a - 1 < i) /\ (a = i + 1 => a - 1 = i)
        BY SMTT(30), <1>2, <2>1, <3>3
      <4> QED
        BY SMTT(30), <3>1, <4>1 DEF FirstOnWire
    <3> QED
      BY <3>2, <3>3
  <2> QED
    BY <2>2, <2>3
<1>10. FirstIsSomewhere'
  <2> SUFFICES ASSUME steam \in {"first", "later"}
               PROVE  snapshot' # NoSnapshot \/ InboxHoldsFirst' \/ WireHoldsFirst'
    BY Zenon DEF FirstIsSomewhere
  <2>1. CASE snapshot # NoSnapshot
    BY <2>1
  <2>2. CASE WireHoldsFirst
    <3>1. PICK a \in DOMAIN wire : \E b \in DOMAIN wire[a] : wire[a][b].type = "first"
      BY Zenon, <2>2 DEF WireHoldsFirst
    <3>2. CASE a = 1
      BY ZenonT(30), <1>5, <1>8, <3>1, <3>2
    <3>3. CASE a # 1
      <4>1. a - 1 \in DOMAIN wire' /\ wire'[a - 1] = wire[a]
        BY <1>2, <3>3
      <4> QED
        BY SMTT(30), <3>1, <4>1 DEF WireHoldsFirst
    <3> QED
      BY Zenon, <3>2, <3>3
  <2> QED
    BY <1>4, <2>1, <2>2 DEF FirstIsSomewhere
<1> QED
  BY SMTT(30), <1>7, <1>9, <1>10

\* The three steps of the driver that take a message: a push is cached when it
\* is the first of its logon, and a logoff leaves the cache alone.
LEMMA TakeCached == Cached /\ (ReadMessage \/ ReadLogoff \/ Drain) => Ordered'
<1> SUFFICES ASSUME Cached, ReadMessage \/ ReadLogoff \/ Drain PROVE Ordered'
  OBVIOUS
<1> USE DEF netVars
<1>0. TypeOK /\ PhaseState /\ InboxInOrder /\ WireInOrder /\ FirstIsSomewhere
      /\ EventsArePast /\ SnapshotIsCurrent
  BY DEF Cached, Final, Ordered
<1>1. ASSUME phase \in Up, HasMessage, TakeMessage, UNCHANGED <<connNo, steam>>,
             snapshot # NoSnapshot => snapshot' # NoSnapshot,
             NextMessage.type = "first" => snapshot' # NoSnapshot
      PROVE  InboxInOrder' /\ WireInOrder' /\ FirstIsSomewhere'
  <2>1. CASE inbox # <<>>
    <3>1. inbox' = Tail(inbox) /\ wire' = wire /\ NextMessage = Head(inbox)
      BY <1>1, <2>1 DEF TakeMessage, NextMessage
    <3>2. InboxInOrder' /\ (InboxHoldsFirst => InboxHoldsFirst' \/ snapshot' # NoSnapshot)
      BY Zenon, <1>0, <1>1, <2>1, <3>1, TailInOrder
    <3>3. WireHoldsFirst' = WireHoldsFirst /\ \A i, k : FirstOnWire(i, k)' <=> FirstOnWire(i, k)
      BY <3>1 DEF WireHoldsFirst, FirstOnWire
    <3>4. FirstIsSomewhere'
      BY ZenonT(30), <1>0, <1>1, <3>2, <3>3 DEF FirstIsSomewhere
    <3>5. WireInOrder'
      BY SMTT(30), <1>0, <1>1, <3>1, <3>2, <3>3 DEF WireInOrder
    <3> QED
      BY SMTT(30), <3>2, <3>4, <3>5
  <2>2. CASE inbox = <<>>
    <3>1. /\ wire # <<>> /\ inbox' = Tail(Head(wire)) /\ wire' = Tail(wire)
          /\ NextMessage = Head(Head(wire))
      BY Zenon, <1>1, <2>2 DEF HasMessage, TakeMessage, NextMessage
    <3> QED
      BY Zenon, <1>0, <1>1, <2>2, <3>1, UnpackInOrder
  <2> QED
    BY <2>1, <2>2
<1>2. CASE ReadMessage
  <2>1. phase \in Up /\ HasMessage /\ state = "LoggedOn"
    BY Zenon, <1>0, <1>2 DEF ReadMessage, Up, PhaseState
  <2>2. /\ NextMessage \in Messages
        /\ IsSnapshot(NextMessage) => NextMessage.conn = connNo
        /\ NextMessage.type = "later" => snapshot # NoSnapshot
    BY <1>0, <2>1, NextInOrder
  <2>3. Dispatch(NextMessage) /\ UNCHANGED <<state, connNo, steam>> /\ TakeMessage
    BY Zenon, <1>2 DEF ReadMessage
  <2>4. /\ EventsArePast' /\ SnapshotIsCurrent'
        /\ snapshot # NoSnapshot => snapshot' # NoSnapshot
        /\ NextMessage.type = "first" => snapshot' # NoSnapshot
    BY Zenon, <1>0, <2>1, <2>2, <2>3, DispatchCached
  <2> QED
    BY Zenon, <1>1, <2>1, <2>3, <2>4 DEF Ordered
<1>3. CASE ReadLogoff
  <2>1. /\ phase \in Up /\ HasMessage /\ TakeMessage
        /\ UNCHANGED <<state, snapshot, events, connNo, steam>>
        /\ NextMessage.type # "first"
    BY Zenon, <1>3 DEF ReadLogoff, Up, IsLogoff
  <2>2. EventsArePast' /\ SnapshotIsCurrent'
    BY Zenon, <1>0, <2>1 DEF EventsArePast, SnapshotIsCurrent
  <2> QED
    BY Zenon, <1>1, <2>1, <2>2 DEF Ordered
<1>4. CASE Drain
  <2>1. /\ phase = "draining" /\ phase' = phase /\ inbox # <<>> /\ inbox' = Tail(inbox)
        /\ Dispatch(Head(inbox)) /\ UNCHANGED <<state, connNo>> /\ state = "LoggedOn"
    BY Zenon, <1>0, <1>4 DEF Drain, PhaseState
  <2>2. 1 \in DOMAIN inbox /\ Head(inbox) = inbox[1] /\ inbox[1] \in Messages
        /\ DOMAIN inbox \subseteq Nat \ {0}
    BY SMTT(30), <1>0, <2>1 DEF TypeOK
  <2>3. /\ IsSnapshot(Head(inbox)) => Head(inbox).conn = connNo
        /\ Head(inbox).type = "later" => snapshot # NoSnapshot
    BY <1>0, <2>1, <2>2 DEF InboxInOrder, FirstInInbox
  <2>4. /\ EventsArePast' /\ SnapshotIsCurrent'
        /\ snapshot # NoSnapshot => snapshot' # NoSnapshot
        /\ Head(inbox).type = "first" => snapshot' # NoSnapshot
    BY Zenon, <1>0, <2>1, <2>2, <2>3, DispatchCached
  <2>5. InboxInOrder'
    BY Zenon, <1>0, <2>1, <2>4, TailInOrder
  <2>6. WireInOrder' /\ FirstIsSomewhere'
    BY Zenon, <2>1 DEF WireInOrder, FirstIsSomewhere, Up
  <2> QED
    BY <2>4, <2>5, <2>6 DEF Ordered
<1> QED
  BY <1>2, <1>3, <1>4

\* A new logon starts with an empty cache, an empty socket and at most the first
\* snapshot in its inbox; what was broadcast before is of an earlier one.
LEMMA LogonCached ==
    ASSUME TypeOK, EventsArePast, EstablishOk
    PROVE  Ordered'
<1>1. /\ connNo \in Nat /\ connNo' = connNo + 1 /\ wire' = <<>> /\ snapshot' = NoSnapshot
      /\ events' = events
      /\ \/ inbox' = <<>> /\ steam' = "new"
         \/ inbox' = <<Msg("first", 0, None, connNo')>> /\ steam' = "first"
  BY SMTT(30), BoundsAssumption DEF EstablishOk, FreshLogon, ClearedSnapshot, TypeOK, Conns
<1>2. EventsArePast' /\ SnapshotIsCurrent'
  <2>1. \A m \in events' : IsSnapshot(m) => m.conn \in Nat /\ m.conn < connNo'
    BY SMTT(30), <1>1, BoundsAssumption DEF EventsArePast, TypeOK, Messages, Conns
  <2> QED
    BY SMTT(30), <1>1, <2>1 DEF EventsArePast, SnapshotIsCurrent
<1>3. WireInOrder'
  BY <1>1 DEF WireInOrder
<1>4. CASE inbox' = <<>> /\ steam' = "new"
  BY <1>2, <1>3, <1>4 DEF Ordered, InboxInOrder, FirstIsSomewhere
<1>5. CASE inbox' = <<Msg("first", 0, None, connNo')>> /\ steam' = "first"
  <2> DEFINE n == connNo'
  <2>0. n = connNo'
    OBVIOUS
  <2> HIDE DEF n
  <2>1. DOMAIN inbox' = {1} /\ inbox'[1] = Msg("first", 0, None, n)
    BY SMTT(30), <1>5, <2>0
  <2>2. inbox'[1].type = "first" /\ inbox'[1].conn = n
    BY <2>1 DEF Msg
  <2>3. InboxInOrder'
    BY Zenon, <2>0, <2>1, <2>2 DEF InboxInOrder
  <2>4. InboxHoldsFirst'
    BY <2>1, <2>2 DEF InboxHoldsFirst
  <2> QED
    BY <1>2, <1>3, <2>3, <2>4 DEF Ordered, FirstIsSomewhere
<1> QED
  BY Zenon, <1>1, <1>4, <1>5

\* A step of a caller leaves messages and cache alone.
LEMMA CallerCached == Cached /\ (Caller \/ Over \/ UNCHANGED vars) => Ordered'
<1> SUFFICES ASSUME Cached, Caller \/ Over \/ UNCHANGED vars PROVE Ordered'
  OBVIOUS
<1> USE DEF driverVars, netVars, callerVars
<1>1. UNCHANGED <<inbox, wire, snapshot, events, connNo, steam, phase, state>>
  <2>1. CASE Caller
    BY <2>1, Zenon DEF Caller, Issue, Enqueue, EnqueueClosed, Cancel, DeadlinePasses,
                CallerTimeout, DropHandles
  <2>2. CASE Over \/ UNCHANGED vars
    BY Zenon, <2>2 DEF Over, vars
  <2> QED
    BY <2>1, <2>2
<1> QED
  BY <1>1, QuietCached

\* Every arm of run_connected.
LEMMA ConnectedCached == Cached /\ Connected => Ordered'
<1> SUFFICES ASSUME Cached, Connected PROVE Ordered'
  OBVIOUS
<1> USE DEF netVars, callerVars, Up
<1>1. CASE ReadMessage \/ ReadLogoff
  BY <1>1, TakeCached
<1>2. CASE \/ RecvCommand \/ RecvNone \/ HeartbeatDue \/ WriteOk \/ WriteErr
           \/ ReadControl \/ ReadErr \/ SweepIdle \/ SweepPending
  <2>1. UNCHANGED <<inbox, wire, snapshot, events, connNo, steam, state>> /\ phase \in Up
    BY Zenon, <1>2 DEF RecvCommand, RecvNone, HeartbeatDue, WriteOk, WriteErr, ReadControl,
                ReadErr, SweepIdle, SweepPending
  <2> QED
    BY Zenon, <2>1, QuietCached
<1> QED
  BY <1>1, <1>2 DEF Connected

\* The drop, the reconnect and the way out.
LEMMA ReconnectingCached == Cached /\ (Reconnecting \/ Teardown) => Ordered'
<1> SUFFICES ASSUME Cached, Reconnecting \/ Teardown PROVE Ordered'
  OBVIOUS
<1> USE DEF netVars, callerVars, Up, Down
<1>1. CASE Drain
  BY SMTT(30), <1>1, TakeCached
<1>2. CASE EstablishOk
  BY <1>2, LogonCached DEF Cached, Final, Ordered
<1>3. CASE BeginReconnect
  <2>1. /\ phase' = "backoff" /\ state' = "Connecting"
        /\ UNCHANGED <<snapshot, events, connNo>>
    BY Zenon, <1>3 DEF BeginReconnect, DownState
  <2> QED
    BY Zenon, <2>1 DEF Cached, Ordered, InboxInOrder, WireInOrder, FirstIsSomewhere,
                EventsArePast, SnapshotIsCurrent
<1>4. CASE NoneWhileDown \/ BackoffElapsed \/ EstablishRejected \/ EstablishFails
  <2>1. /\ UNCHANGED <<inbox, wire, snapshot, events, connNo, steam, state>>
        /\ phase' \in {"closing", "establishing", "backoff"}
    BY Zenon, <1>4 DEF NoneWhileDown, BackoffElapsed, EstablishRejected, EstablishFails, Stop
  <2> QED
    BY <2>1, QuietCached
<1>5. CASE AnswerWhileDown
  <2>1. /\ UNCHANGED <<inbox, wire, snapshot, events, connNo, steam, state>>
        /\ phase' \in {"closing", "establishing", "backoff"}
    BY Zenon, <1>5 DEF AnswerWhileDown, Stop
  <2> QED
    BY <2>1, QuietCached
<1>6. CASE PublishEnd
  <2>1. /\ UNCHANGED <<inbox, wire, snapshot, events, connNo, steam>>
        /\ phase' = "closed" /\ state' = ending /\ phase = "closing"
    BY <1>6 DEF PublishEnd
  <2>2. ending # "LoggedOn"
    BY <2>1 DEF Cached, Final, PhaseState, Exiting
  <2> QED
    BY Zenon, <2>1, <2>2, QuietCached
<1>7. CASE DropDriver
  <2>1. /\ UNCHANGED <<inbox, wire, snapshot, events, connNo, steam, state>>
        /\ phase' = "stopped"
    BY Zenon, <1>7 DEF DropDriver
  <2> QED
    BY <2>1, QuietCached
<1> QED
  BY SMTT(30), <1>1, <1>2, <1>3, <1>4, <1>5, <1>6, <1>7 DEF Reconnecting, Teardown

\* Steam and the socket.
LEMMA EnvironmentCached == Cached /\ Environment => Ordered'
<1> SUFFICES ASSUME Cached, Environment PROVE Ordered'
  OBVIOUS
<1> USE DEF netVars, driverVars, callerVars
<1>0. TypeOK /\ connNo \in Conns
  BY Zenon DEF Cached, Final, TypeOK
<1>1. CASE SteamReplies
  <2>1. PICK w \in owed : Send(Msg("reply", w.job, w.call, connNo))
    BY Zenon, <1>1 DEF SteamReplies
  <2> DEFINE m == Msg("reply", w.job, w.call, connNo)
  <2>2. m \in Messages /\ m.type = "reply"
    BY Zenon, <1>0 DEF TypeOK, JobWrites, Messages, Msg
  <2>3. Send(m)
    BY <2>1
  <2> HIDE DEF m
  <2>4. phase \in Up /\ UNCHANGED <<phase, state, inbox, snapshot, events, connNo, steam>>
    BY Zenon, <1>1 DEF SteamReplies, SteamTalks
  <2> QED
    BY Zenon, <2>2, <2>3, <2>4, SendCached DEF IsSnapshot
<1>2. CASE SteamPushes
  <2> DEFINE m == Msg(steam', 0, None, connNo)
  <2>1. /\ phase \in Up /\ UNCHANGED <<phase, state, inbox, snapshot, events, connNo>>
        /\ \/ steam = "new" /\ steam' = "first"
           \/ steam \in {"first", "later"} /\ steam' = "later"
        /\ Send(m)
    BY ZenonT(30), <1>2 DEF SteamPushes, SteamTalks
  <2>2. m \in Messages /\ m.type = steam' /\ m.conn = connNo
    BY <1>0, <2>1, MsgType DEF Msg
  <2> HIDE DEF m
  <2> QED
    BY Zenon, <2>1, <2>2, SendCached
<1>3. CASE SteamLogsOff
  <2>1. PICK type \in {"transient", "terminal"} : Send(Msg(type, 0, None, connNo))
    BY ZenonT(30), <1>3 DEF SteamLogsOff
  <2> DEFINE m == Msg(type, 0, None, connNo)
  <2>2. m \in Messages /\ m.type \in {"transient", "terminal"}
    BY <1>0, MsgType DEF Msg
  <2>3. Send(m)
    BY <2>1
  <2> HIDE DEF m
  <2>4. /\ phase \in Up /\ UNCHANGED <<phase, state, inbox, snapshot, events, connNo>>
        /\ steam' = "off"
    BY Zenon, <1>3 DEF SteamLogsOff, SteamTalks
  <2> QED
    BY Zenon, <2>2, <2>3, <2>4, SendCached DEF IsSnapshot
<1>4. CASE SocketBreaks \/ SocketStalls \/ SilencePasses
  <2>1. UNCHANGED <<inbox, wire, snapshot, events, connNo, steam, phase, state>>
    BY Zenon, <1>4 DEF SocketBreaks, SocketStalls, SilencePasses
  <2> QED
    BY Zenon, <2>1, QuietCached
<1> QED
  BY <1>1, <1>2, <1>3, <1>4 DEF Environment

\* Init is the state after the first logon.
LEMMA InitCached == Init => Cached
<1> SUFFICES ASSUME Init PROVE Ordered
  BY SMTT(30), InitFinal DEF Cached
<1>1. WireInOrder /\ EventsArePast /\ SnapshotIsCurrent
  BY DEF Init, WireInOrder, EventsArePast, SnapshotIsCurrent
<1>2. CASE inbox = <<>> /\ steam = "new"
  BY <1>1, <1>2 DEF Ordered, InboxInOrder, FirstIsSomewhere
<1>3. CASE inbox = <<Msg("first", 0, None, 1)>>
  <2>1. DOMAIN inbox = {1} /\ inbox[1].type = "first" /\ inbox[1].conn = connNo
    BY <1>3 DEF Init, Msg
  <2>2. InboxInOrder /\ InboxHoldsFirst
    BY Zenon, <2>1 DEF InboxInOrder, InboxHoldsFirst
  <2> QED
    BY SMTT(30), <1>1, <2>2 DEF Ordered, FirstIsSomewhere
<1> QED
  BY Zenon, <1>2, <1>3 DEF Init

\* While the session is logged on, the cache holds the first snapshot message
\* of this logon, never a later one or one of an earlier logon; and while it is empty, no
\* snapshot of this logon has been broadcast, so subscribing and then reading the
\* cache misses nothing.
THEOREM SnapshotCurrent == Spec => []SnapshotIsCurrent
<1>1. Cached /\ [Next]_vars => Cached'
  <2> SUFFICES ASSUME Cached, [Next]_vars PROVE Cached'
    OBVIOUS
  <2>1. Final'
    BY NextFinal DEF Cached
  <2>2. Ordered'
    BY CallerCached, ConnectedCached, ReconnectingCached, EnvironmentCached DEF Next
  <2> QED
    BY <2>1, <2>2 DEF Cached
<1>2. Cached => SnapshotIsCurrent
  BY DEF Cached, Ordered
<1> QED
  BY InitCached, <1>1, <1>2, PTL DEF Spec
=============================================================================
