------------------------ MODULE SessionDriverProofs ------------------------
(***************************************************************************)
(* Theorems about SessionDriver for every set of calls, queue depth,       *)
(* number of reconnects and batching: types, callers, logoff and replies.  *)
(***************************************************************************)
EXTENDS SessionDriver, TLAPS

-----------------------------------------------------------------------------
(* Values *)

\* Every outcome the driver sends is a result.
LEMMA OutcomeType ==
    /\ \A t \in Tags : Outcome(t) \in Results
    /\ \A c \in Requests : ReplyOf(c) \in Results
BY DEF Outcome, ReplyOf, Results, Tags

\* What Steam sends, and what is unpacked from it, are messages.
LEMMA MsgType ==
    /\ \A j \in JobIds, c \in Requests, n \in Conns : Msg("reply", j, c, n) \in Messages
    /\ \A t \in {"first", "later", "transient", "terminal"}, n \in Conns :
          Msg(t, 0, None, n) \in Messages
BY DEF Msg, Messages

\* A heartbeat write has no call; every write is either a request's, with a
\* job id, or another command's, or a heartbeat.
LEMMA WriteType ==
    /\ NoWrite \in Writes
    /\ \A w \in Writes : /\ w.call \in Calls \cup {None}
                         /\ w.call \in Requests => w \in JobWrites /\ w.job \in JobIds
    /\ \A c \in Requests, j \in JobIds : [call |-> c, job |-> j] \in Writes
    /\ \A c \in Notifies \cup Logoffs : [call |-> c, job |-> 0] \in Writes
BY CallsAssumption DEF NoWrite, Writes, JobWrites, Calls

\* Job ids stay within a u64 and never take the value 0.
LEMMA NextJobIdType == \A j \in JobIds : NextJobId(j) \in JobIds
BY BoundsAssumption DEF NextJobId, JobIds

\* A oneshot send changes only a waiting caller.
LEMMA DeliverType ==
    ASSUME NEW r, call \in [Calls -> CallStates], result \in [Calls -> Results],
           \A c \in DOMAIN r : r[c] \in Results, Deliver(r)
    PROVE  /\ call' \in [Calls -> CallStates]
           /\ result' \in [Calls -> Results]
BY DEF Deliver, CallStates

\* dispatch keeps the types of what it touches.
LEMMA DispatchType ==
    ASSUME TypeOK, NEW m \in Messages, Dispatch(m)
    PROVE  /\ call' \in [Calls -> CallStates]
           /\ result' \in [Calls -> Results]
           /\ DOMAIN pending' \subseteq JobIds
           /\ pending' \in [DOMAIN pending' -> Requests]
           /\ snapshot' \in Snapshots
           /\ events' \subseteq Messages
<1>1. CASE m.job \notin {0, MaxJobId} /\ m.job \in DOMAIN pending
  <2>1. m.of \in Requests
    BY <1>1 DEF Messages
  <2>2. /\ pending' = Restrict(pending, DOMAIN pending \ {m.job})
        /\ Deliver([c \in {pending[m.job]} |-> ReplyOf(m.of)])
        /\ UNCHANGED <<snapshot, events>>
    BY <1>1 DEF Dispatch
  <2>3. ReplyOf(m.of) \in Results
    BY <2>1, OutcomeType
  <2>4. call' \in [Calls -> CallStates] /\ result' \in [Calls -> Results]
    BY <2>2, <2>3, DeliverType, Zenon DEF TypeOK
  <2>5. DOMAIN pending' \subseteq JobIds /\ pending' \in [DOMAIN pending' -> Requests]
    BY <2>2 DEF TypeOK, Restrict
  <2> QED
    BY <2>2, <2>4, <2>5, Zenon DEF TypeOK
<1>2. CASE ~(m.job \notin {0, MaxJobId} /\ m.job \in DOMAIN pending)
  <2>1. IsSnapshot(m) => [type |-> m.type, conn |-> m.conn] \in Snapshots
    BY DEF IsSnapshot, Messages, Snapshots
  <2> QED
    BY <1>2, <2>1 DEF Dispatch, TypeOK, DeliverNothing
<1> QED
  BY <1>1, <1>2

\* Leaving the loop of run keeps the types of what it touches.
LEMMA StopType ==
    ASSUME TypeOK, NEW why \in States, NEW acked, Stop(why, acked)
    PROVE  /\ call' \in [Calls -> CallStates]
           /\ result' \in [Calls -> Results]
           /\ phase' \in Phases
           /\ ending' \in States
           /\ conn' \in {"up", "stalled", "broken", "gone"}
           /\ cur' \in Writes
           /\ DOMAIN pending' \subseteq JobIds
           /\ pending' \in [DOMAIN pending' -> Requests]
<1>1. pending' = NoneHeld /\ cur' = NoWrite
  BY DEF Stop
<1>2. DOMAIN pending' \subseteq JobIds /\ pending' \in [DOMAIN pending' -> Requests]
  BY <1>1 DEF NoneHeld
<1>3. \A c : Outcome(IF c \in acked THEN "ok" ELSE "stopped") \in Results
  BY OutcomeType DEF Tags
<1>4. call' \in [Calls -> CallStates] /\ result' \in [Calls -> Results]
  <2> DEFINE r == [c \in PendingCalls \cup acked |->
                     Outcome(IF c \in acked THEN "ok" ELSE "stopped")]
  <2>1. \A c \in DOMAIN r : r[c] \in Results
    BY <1>3
  <2>2. Deliver(r)
    BY DEF Stop
  <2> HIDE DEF r
  <2> QED
    BY SMTT(30), <2>1, <2>2, DeliverType DEF TypeOK
<1> QED
  BY <1>1, <1>2, <1>4, WriteType DEF Stop, Phases

\* Taking a message yields one, and leaves the inbox and the socket typed.
LEMMA TakeType ==
    ASSUME TypeOK, HasMessage, TakeMessage
    PROVE  /\ NextMessage \in Messages
           /\ inbox' \in Seq(Messages)
           /\ wire' \in Seq(Seq(Messages) \ {<<>>})
           /\ idle' \in BOOLEAN
<1>1. CASE inbox # <<>>
  <2>1. inbox' = Tail(inbox) /\ wire' = wire /\ idle' = idle
    BY <1>1 DEF TakeMessage
  <2>2. inbox \in Seq(Messages) /\ wire \in Seq(Seq(Messages) \ {<<>>})
    BY DEF TypeOK
  <2>3. NextMessage \in Messages /\ inbox' \in Seq(Messages)
    BY <1>1, <2>1, <2>2 DEF NextMessage
  <2>4. idle' \in BOOLEAN
    BY <2>1 DEF TypeOK
  <2> QED
    BY <2>1, <2>2, <2>3, <2>4
<1>2. CASE inbox = <<>>
  <2>1. wire # <<>> /\ wire \in Seq(Seq(Messages) \ {<<>>})
    BY <1>2 DEF HasMessage, TypeOK
  <2>2. Head(wire) \in Seq(Messages) \ {<<>>} /\ Tail(wire) \in Seq(Seq(Messages) \ {<<>>})
    BY <2>1
  <2>3. Head(Head(wire)) \in Messages /\ Tail(Head(wire)) \in Seq(Messages)
    BY <2>2
  <2> QED
    BY <1>2, <2>2, <2>3, Zenon DEF NextMessage, TakeMessage
<1> QED
  BY <1>1, <1>2

\* One message on its own is a sequence of messages.
LEMMA SingleType == \A m \in Messages : <<m>> \in Seq(Messages)
<1> SUFFICES ASSUME NEW m \in Messages PROVE <<m>> \in Seq(Messages)
  OBVIOUS
<1> QED
  OBVIOUS

\* A frame Steam sends is a non-empty batch.
LEMMA SendType ==
    ASSUME wire \in Seq(Seq(Messages) \ {<<>>}), NEW m \in Messages, Send(m)
    PROVE  wire' \in Seq(Seq(Messages) \ {<<>>})
<1> DEFINE Frames == Seq(Messages) \ {<<>>}
<1>1. CASE wire' = Append(wire, <<m>>)
  <2>1. <<m>> \in Frames
    OBVIOUS
  <2> HIDE DEF Frames
  <2> QED
    BY <1>1, <2>1 DEF Frames
<1>2. CASE wire # <<>> /\ wire' = [wire EXCEPT ![Len(wire)] = Append(@, m)]
  <2>1. Len(wire) \in DOMAIN wire /\ wire[Len(wire)] \in Frames
    BY <1>2
  <2>2. Append(wire[Len(wire)], m) \in Frames
    BY <2>1
  <2> HIDE DEF Frames
  <2>3. wire \in Seq(Frames)
    BY DEF Frames
  <2>4. [wire EXCEPT ![Len(wire)] = Append(wire[Len(wire)], m)] \in Seq(Frames)
    BY <2>1, <2>2, <2>3
  <2> QED
    BY <1>2, <2>4 DEF Frames
<1> QED
  BY <1>1, <1>2 DEF Send

\* A message joins the socket behind everything that is there.
LEMMA SendPosition ==
    ASSUME wire \in Seq(Seq(Messages) \ {<<>>}), NEW m \in Messages, Send(m)
    PROVE  \E p \in DOMAIN wire' : \E q \in DOMAIN wire'[p] :
              /\ wire'[p][q] = m
              /\ \A i \in DOMAIN wire : \A k \in DOMAIN wire[i] :
                    /\ i \in DOMAIN wire' /\ k \in DOMAIN wire'[i] /\ wire'[i][k] = wire[i][k]
                    /\ i < p \/ (i = p /\ k < q)
              /\ \A i \in DOMAIN wire' : \A k \in DOMAIN wire'[i] :
                    \/ i = p /\ k = q
                    \/ i \in DOMAIN wire /\ k \in DOMAIN wire[i] /\ wire'[i][k] = wire[i][k]
<1> DEFINE Frames == Seq(Messages) \ {<<>>}
<1>0. wire \in Seq(Frames)
  OBVIOUS
<1>1. CASE wire' = Append(wire, <<m>>)
  <2> HIDE DEF Frames
  <2>1. /\ DOMAIN wire = 1 .. Len(wire) /\ DOMAIN wire' = 1 .. Len(wire) + 1
        /\ Len(wire) \in Nat /\ Len(wire') = Len(wire) + 1
        /\ wire'[Len(wire) + 1] = <<m>>
        /\ \A i \in DOMAIN wire : wire'[i] = wire[i]
    BY <1>0, <1>1
  <2>2. DOMAIN <<m>> = {1} /\ <<m>>[1] = m
    OBVIOUS
  <2> DEFINE p == Len(wire) + 1
  <2>3. /\ p \in DOMAIN wire' /\ 1 \in DOMAIN wire'[p] /\ wire'[p][1] = m
    BY <2>1, <2>2
  <2>4. \A i \in DOMAIN wire : \A k \in DOMAIN wire[i] :
           /\ i \in DOMAIN wire' /\ k \in DOMAIN wire'[i] /\ wire'[i][k] = wire[i][k]
           /\ i < p \/ (i = p /\ k < 1)
    BY <2>1
  <2>5. \A i \in DOMAIN wire' : \A k \in DOMAIN wire'[i] :
           \/ i = p /\ k = 1
           \/ i \in DOMAIN wire /\ k \in DOMAIN wire[i] /\ wire'[i][k] = wire[i][k]
    BY <2>1, <2>2
  <2> HIDE DEF p
  <2> QED
    BY <2>3, <2>4, <2>5
<1>2. CASE wire # <<>> /\ wire' = [wire EXCEPT ![Len(wire)] = Append(@, m)]
  <2> DEFINE p == Len(wire)
             f == wire[p]
             q == Len(f) + 1
  <2>1. p \in Nat /\ DOMAIN wire = 1 .. p /\ p >= 1 /\ f \in Frames
    BY <1>0, <1>2
  <2>2. /\ q \in Nat /\ q >= 1 /\ DOMAIN f = 1 .. (q - 1)
        /\ DOMAIN Append(f, m) = 1 .. q /\ Append(f, m)[q] = m
        /\ \A k \in 1 .. (q - 1) : Append(f, m)[k] = f[k]
    BY <2>1
  <2> HIDE DEF Frames
  <2>3. /\ DOMAIN wire' = DOMAIN wire
        /\ wire'[p] = Append(f, m)
        /\ \A i \in DOMAIN wire : i # p => wire'[i] = wire[i]
    BY <1>2, <2>1
  <2>0. f = wire[p]
    OBVIOUS
  <2> HIDE DEF p, f, q
  <2>4. p \in DOMAIN wire' /\ q \in DOMAIN wire'[p]
    BY <2>1, <2>2, <2>3
  <2>5. wire'[p][q] = m
    BY <2>1, <2>2, <2>3
  <2>6. \A i \in DOMAIN wire : \A k \in DOMAIN wire[i] :
           /\ i \in DOMAIN wire' /\ k \in DOMAIN wire'[i] /\ wire'[i][k] = wire[i][k]
           /\ i < p \/ (i = p /\ k < q)
    <3> SUFFICES ASSUME NEW i \in DOMAIN wire, NEW k \in DOMAIN wire[i]
                 PROVE  /\ k \in DOMAIN wire'[i] /\ wire'[i][k] = wire[i][k]
                        /\ i < p \/ (i = p /\ k < q)
      BY <2>3
    <3>1. CASE i = p
      <4>1. k \in 1 .. (q - 1) /\ wire[i] = f /\ wire'[i] = Append(f, m)
        BY <2>0, <2>2, <2>3, <3>1
      <4> QED
        BY <2>2, <3>1, <4>1
    <3>2. CASE i # p
      BY <2>1, <2>3, <3>2
    <3> QED
      BY <3>1, <3>2
  <2>7. \A i \in DOMAIN wire' : \A k \in DOMAIN wire'[i] :
           \/ i = p /\ k = q
           \/ i \in DOMAIN wire /\ k \in DOMAIN wire[i] /\ wire'[i][k] = wire[i][k]
    <3> SUFFICES ASSUME NEW i \in DOMAIN wire', NEW k \in DOMAIN wire'[i], ~(i = p /\ k = q)
                 PROVE  k \in DOMAIN wire[i] /\ wire'[i][k] = wire[i][k]
      BY <2>3
    <3>1. CASE i = p
      <4>1. wire[i] = f /\ wire'[i] = Append(f, m) /\ k \in 1 .. q /\ k # q
        BY <2>0, <2>2, <2>3, <3>1
      <4>2. k \in 1 .. (q - 1)
        BY <2>2, <4>1
      <4> QED
        BY <2>2, <4>1, <4>2
    <3>2. CASE i # p
      BY <2>3, <3>2
    <3> QED
      BY <3>1, <3>2
  <2> QED
    BY <2>4, <2>5, <2>6, <2>7
<1> QED
  BY <1>1, <1>2 DEF Send

-----------------------------------------------------------------------------
(* Type correctness *)

\* The initial state is typed.
LEMMA InitTypeOK == Init => TypeOK
<1> SUFFICES ASSUME Init PROVE TypeOK
  OBVIOUS
<1> USE DEF Init
<1>1. call \in [Calls -> CallStates] /\ result \in [Calls -> Results]
  BY OutcomeType DEF CallStates, Tags
<1>2. expired \subseteq Requests /\ open \in BOOLEAN /\ idle \in BOOLEAN
  BY Zenon
<1>3. queue \in Seq(Calls) /\ wire \in Seq(Seq(Messages) \ {<<>>})
  OBVIOUS
<1>4. phase \in Phases /\ cur \in Writes /\ nextJob \in JobIds
  BY WriteType, BoundsAssumption DEF Phases, JobIds
<1>5. DOMAIN pending \subseteq JobIds /\ pending \in [DOMAIN pending -> Requests]
  BY DEF NoneHeld
<1>6. connNo \in Conns
  BY BoundsAssumption DEF Conns
<1>7. inbox \in Seq(Messages)
  <2>1. Msg("first", 0, None, 1) \in Messages
    BY MsgType, BoundsAssumption DEF Conns
  <2>2. CASE inbox = <<>>
    BY <2>2
  <2>3. CASE inbox = <<Msg("first", 0, None, 1)>>
    BY <2>1, <2>3, SingleType
  <2> QED
    BY <2>2, <2>3
<1>8. /\ snapshot \in Snapshots /\ state \in States /\ ending \in States
      /\ events \subseteq Messages /\ owed \subseteq JobWrites
      /\ conn \in {"up", "stalled", "broken", "gone"}
      /\ steam \in {"new", "first", "later", "off"}
  BY DEF NoSnapshot, Snapshots, States
<1> QED
  BY <1>1, <1>2, <1>3, <1>4, <1>5, <1>6, <1>7, <1>8 DEF TypeOK

\* Every step of a caller preserves the types.
LEMMA CallerTypeOK == TypeOK /\ Caller => TypeOK'
<1> SUFFICES ASSUME TypeOK, Caller PROVE TypeOK'
  OBVIOUS
<1> USE DEF driverVars, netVars, callerVars
<1>1. ASSUME NEW c \in Calls, Issue(c) PROVE TypeOK'
  BY <1>1 DEF Issue, TypeOK, CallStates
<1>2. ASSUME NEW c \in Calls, Enqueue(c) PROVE TypeOK'
  BY <1>2 DEF Enqueue, TypeOK, CallStates
<1>3. ASSUME NEW c \in Calls, EnqueueClosed(c) PROVE TypeOK'
  BY <1>3, OutcomeType DEF EnqueueClosed, TypeOK, CallStates, Tags
<1>4. ASSUME NEW c \in Calls, Cancel(c) PROVE TypeOK'
  BY <1>4 DEF Cancel, TypeOK, CallStates
<1>5. ASSUME NEW c \in Requests, DeadlinePasses(c) PROVE TypeOK'
  BY <1>5 DEF DeadlinePasses, TypeOK
<1>6. ASSUME NEW c \in Requests, CallerTimeout(c) PROVE TypeOK'
  BY <1>6, OutcomeType DEF CallerTimeout, TypeOK, CallStates, Tags, Calls
<1>7. CASE DropHandles
  BY <1>7, Zenon DEF DropHandles, TypeOK
<1> QED
  BY <1>1, <1>2, <1>3, <1>4, <1>5, <1>6, <1>7 DEF Caller

\* Every step of Steam or of the network preserves the types.
LEMMA EnvironmentTypeOK == TypeOK /\ Environment => TypeOK'
<1> SUFFICES ASSUME TypeOK, Environment PROVE TypeOK'
  OBVIOUS
<1> USE DEF driverVars, netVars, callerVars
<1>0. connNo \in Conns /\ wire \in Seq(Seq(Messages) \ {<<>>})
  BY DEF TypeOK
<1>1. CASE SteamReplies
  <2>1. PICK w \in owed : Send(Msg("reply", w.job, w.call, connNo)) /\ owed' = owed \ {w}
    BY <1>1 DEF SteamReplies
  <2>2. Msg("reply", w.job, w.call, connNo) \in Messages
    BY <1>0, MsgType DEF TypeOK, JobWrites
  <2>3. wire' \in Seq(Seq(Messages) \ {<<>>})
    BY <1>0, <2>1, <2>2, SendType
  <2> QED
    BY <1>1, <2>1, <2>3 DEF SteamReplies, TypeOK
<1>2. CASE SteamPushes
  <2>1. steam' \in {"first", "later"} /\ Send(Msg(steam', 0, None, connNo))
    BY <1>2 DEF SteamPushes
  <2>2. wire' \in Seq(Seq(Messages) \ {<<>>})
    BY <1>0, <2>1, MsgType, SendType
  <2> QED
    BY <1>2, <2>1, <2>2 DEF SteamPushes, TypeOK
<1>3. CASE SteamLogsOff
  <2>1. PICK t \in {"transient", "terminal"} : Send(Msg(t, 0, None, connNo))
    BY <1>3 DEF SteamLogsOff
  <2>2. wire' \in Seq(Seq(Messages) \ {<<>>})
    BY <1>0, <2>1, MsgType, SendType
  <2> QED
    BY <1>3, <2>2 DEF SteamLogsOff, TypeOK
<1>4. CASE SocketBreaks
  BY <1>4 DEF SocketBreaks, TypeOK
<1>5. CASE SocketStalls
  BY <1>5 DEF SocketStalls, TypeOK
<1>6. CASE SilencePasses
  BY <1>6 DEF SilencePasses, TypeOK
<1> QED
  BY <1>1, <1>2, <1>3, <1>4, <1>5, <1>6 DEF Environment

\* Every step of the driver inside run_connected preserves the types.
LEMMA ConnectedTypeOK == TypeOK /\ Connected => TypeOK'
<1> SUFFICES ASSUME TypeOK, Connected PROVE TypeOK'
  OBVIOUS
<1> USE DEF driverVars, netVars, callerVars
<1>0. "LoggedOff" \in States
  BY DEF States
<1>1. CASE RecvCommand
  <2>1. Head(queue) \in Calls /\ Tail(queue) \in Seq(Calls)
    BY <1>1 DEF RecvCommand, TypeOK
  <2>2. cur' \in Writes
    BY <1>1, <2>1, WriteType DEF RecvCommand, JobFor, Calls, TypeOK
  <2>3. nextJob' \in JobIds
    BY <1>1, NextJobIdType DEF RecvCommand, TypeOK
  <2> QED
    BY <1>1, <2>1, <2>2, <2>3 DEF RecvCommand, TypeOK, Phases
<1>2. CASE RecvNone
  <2>1. Stop("LoggedOff", {})
    BY <1>2 DEF RecvNone
  <2> QED
    BY <1>0, <1>2, <2>1, StopType DEF RecvNone, TypeOK
<1>3. CASE HeartbeatDue
  BY <1>3, WriteType DEF HeartbeatDue, TypeOK, Phases
<1>4. CASE WriteOk
  <2>1. owed' \subseteq JobWrites
    BY Zenon, <1>4, WriteType DEF WriteOk, TypeOK
  <2>2. CASE Stop("LoggedOff", {cur.call})
    BY Zenon, <1>0, <1>4, <2>1, <2>2, StopType DEF WriteOk, TypeOK
  <2>3. CASE /\ phase' = "connected"
             /\ cur' = NoWrite
             /\ cur.call \in Requests
             /\ InsertPending
             /\ UNCHANGED <<ending, conn>>
    <3> DEFINE displaced == IF cur.job \in DOMAIN pending THEN {pending[cur.job]} ELSE {}
               r == [c \in displaced |-> Outcome("dropped")]
    <3>1. cur.job \in JobIds
      BY <2>3, WriteType DEF TypeOK
    <3>2. /\ pending' = [j \in DOMAIN pending \cup {cur.job} |->
                          IF j = cur.job THEN cur.call ELSE pending[j]]
          /\ Deliver(r)
      BY Zenon, <2>3 DEF InsertPending
    <3>3. DOMAIN pending' \subseteq JobIds /\ pending' \in [DOMAIN pending' -> Requests]
      BY <2>3, <3>1, <3>2 DEF TypeOK
    <3>4. \A c \in DOMAIN r : r[c] \in Results
      BY OutcomeType DEF Tags
    <3> HIDE DEF r
    <3>5. call' \in [Calls -> CallStates] /\ result' \in [Calls -> Results]
      BY <3>2, <3>4, DeliverType, Zenon DEF TypeOK
    <3> QED
      BY Zenon, <1>4, <2>1, <2>3, <3>3, <3>5, WriteType DEF WriteOk, TypeOK, Phases
  <2>4. CASE /\ phase' = "connected"
             /\ cur' = NoWrite
             /\ \/ Deliver([c \in {cur.call} |-> Outcome("ok")])
                \/ DeliverNothing
             /\ UNCHANGED <<ending, conn, pending>>
    <3> DEFINE r == [c \in {cur.call} |-> Outcome("ok")]
    <3>1. \A c \in DOMAIN r : r[c] \in Results
      BY OutcomeType DEF Tags
    <3>2. Deliver(r) \/ DeliverNothing
      BY <2>4
    <3> HIDE DEF r
    <3>3. call' \in [Calls -> CallStates] /\ result' \in [Calls -> Results]
      BY <3>1, <3>2, DeliverType, Zenon DEF TypeOK, DeliverNothing
    <3> QED
      BY Zenon, <1>4, <2>1, <2>4, <3>3, WriteType DEF WriteOk, TypeOK, Phases
  <2> QED
    BY <1>4, <2>2, <2>3, <2>4 DEF WriteOk
<1>5. CASE WriteErr
  <2>1. CASE Stop("LoggedOff", {cur.call})
    BY Zenon, <1>0, <1>5, <2>1, StopType DEF WriteErr, TypeOK
  <2>2. CASE /\ Disconnect
             /\ Deliver([c \in {cur.call} \ {None} |-> Outcome("reconnecting")])
    <3> DEFINE r == [c \in {cur.call} \ {None} |-> Outcome("reconnecting")]
    <3>1. (\A c \in DOMAIN r : r[c] \in Results) /\ Deliver(r)
      BY <2>2, OutcomeType DEF Tags
    <3> HIDE DEF r
    <3>2. call' \in [Calls -> CallStates] /\ result' \in [Calls -> Results]
      BY <3>1, DeliverType, Zenon DEF TypeOK
    <3> QED
      BY Zenon, <1>5, <2>2, <3>2, WriteType DEF WriteErr, Disconnect, TypeOK, Phases
  <2> QED
    BY <1>5, <2>1, <2>2 DEF WriteErr
<1>6. CASE ReadMessage
  <2>1. /\ NextMessage \in Messages
        /\ inbox' \in Seq(Messages)
        /\ wire' \in Seq(Seq(Messages) \ {<<>>})
        /\ idle' \in BOOLEAN
    BY <1>6, TakeType DEF ReadMessage
  <2>2. Dispatch(NextMessage)
    BY <1>6 DEF ReadMessage
  <2> QED
    BY <1>6, <2>1, <2>2, DispatchType DEF ReadMessage, TypeOK
<1>7. CASE ReadLogoff
  <2>1. /\ inbox' \in Seq(Messages)
        /\ wire' \in Seq(Seq(Messages) \ {<<>>})
        /\ idle' \in BOOLEAN
    BY <1>7, TakeType DEF ReadLogoff
  <2>2. CASE Stop("LoggedOff", {})
    BY Zenon, <1>0, <1>7, <2>1, <2>2, StopType DEF ReadLogoff, TypeOK
  <2>3. CASE Disconnect /\ DeliverNothing
    BY Zenon, <1>7, <2>1, <2>3, WriteType DEF ReadLogoff, Disconnect, DeliverNothing, TypeOK, Phases
  <2> QED
    BY <1>7, <2>2, <2>3 DEF ReadLogoff
<1>8. CASE ReadErr
  BY <1>8, WriteType DEF ReadErr, Disconnect, DeliverNothing, TypeOK, Phases
<1>9. CASE SweepIdle
  BY <1>9, WriteType DEF SweepIdle, Disconnect, DeliverNothing, TypeOK, Phases
<1>10. CASE SweepPending
  <2> DEFINE r == [c \in {pending[j] : j \in {i \in DOMAIN pending : ~Keeps(i)}} |->
                     Outcome("timeout")]
  <2>1. (\A c \in DOMAIN r : r[c] \in Results) /\ Deliver(r)
    BY Zenon, <1>10, OutcomeType DEF SweepPending, Tags
  <2> HIDE DEF r
  <2>2. call' \in [Calls -> CallStates] /\ result' \in [Calls -> Results]
    BY <2>1, DeliverType, Zenon DEF TypeOK
  <2>3. pending' = [j \in {i \in DOMAIN pending : Keeps(i)} |-> pending[j]]
    BY Zenon, <1>10 DEF SweepPending, RestrictDomain, Restrict
  <2>4. DOMAIN pending' \subseteq JobIds /\ pending' \in [DOMAIN pending' -> Requests]
    BY <2>3 DEF TypeOK
  <2> QED
    BY <1>10, <2>2, <2>4 DEF SweepPending, TypeOK
<1>11. CASE ReadControl
  BY <1>11, Zenon DEF ReadControl, TypeOK
<1> QED
  BY <1>1, <1>2, <1>3, <1>4, <1>5, <1>6, <1>7, <1>8, <1>9, <1>10, <1>11 DEF Connected

\* Every step of a reconnect or of the teardown preserves the types.
LEMMA ReconnectingTypeOK == TypeOK /\ (Reconnecting \/ Teardown) => TypeOK'
<1> SUFFICES ASSUME TypeOK, Reconnecting \/ Teardown PROVE TypeOK'
  OBVIOUS
<1> USE DEF driverVars, netVars, callerVars
<1>0. {"LoggedOn", "Connecting", "LoggedOff", "Failed"} \subseteq States
  BY DEF States
<1>1. CASE Drain
  <2>1. Head(inbox) \in Messages /\ Tail(inbox) \in Seq(Messages) /\ Dispatch(Head(inbox))
    BY <1>1 DEF Drain, TypeOK
  <2> QED
    BY <1>1, <2>1, DispatchType DEF Drain, TypeOK
<1>2. CASE BeginReconnect
  <2> DEFINE r == [c \in PendingCalls |-> Outcome("reconnecting")]
  <2>1. (\A c \in DOMAIN r : r[c] \in Results) /\ Deliver(r)
    BY <1>2, OutcomeType DEF BeginReconnect, Tags
  <2> HIDE DEF r
  <2>2. call' \in [Calls -> CallStates] /\ result' \in [Calls -> Results]
    BY <2>1, DeliverType, Zenon DEF TypeOK
  <2>3. DOMAIN pending' \subseteq JobIds /\ pending' \in [DOMAIN pending' -> Requests]
    BY <1>2 DEF BeginReconnect, NoneHeld
  <2>4. wire' \in Seq(Seq(Messages) \ {<<>>}) /\ owed' \subseteq JobWrites
    BY <1>2 DEF BeginReconnect
  <2> QED
    BY <1>0, <1>2, <2>2, <2>3, <2>4, Zenon DEF BeginReconnect, DownState, TypeOK, Phases
<1>3. CASE AnswerWhileDown
  <2> DEFINE c == Head(queue)
  <2>1. Tail(queue) \in Seq(Calls)
    BY <1>3 DEF AnswerWhileDown, TypeOK
  <2>2. CASE Stop("LoggedOff", {c})
    BY <1>0, <1>3, <2>1, <2>2, StopType DEF AnswerWhileDown, TypeOK
  <2>3. CASE /\ Deliver([d \in {c} |-> Outcome(AnswerDown(c))])
             /\ UNCHANGED <<phase, ending, conn, cur, pending>>
    <3> DEFINE r == [d \in {c} |-> Outcome(AnswerDown(c))]
    <3>1. (\A d \in DOMAIN r : r[d] \in Results) /\ Deliver(r)
      BY <2>3, OutcomeType DEF Tags, AnswerDown
    <3> HIDE DEF r
    <3>2. call' \in [Calls -> CallStates] /\ result' \in [Calls -> Results]
      BY <3>1, DeliverType, Zenon DEF TypeOK
    <3> QED
      BY Zenon, <1>3, <2>1, <2>3, <3>2 DEF AnswerWhileDown, TypeOK
  <2> QED
    BY <1>3, <2>2, <2>3 DEF AnswerWhileDown
<1>4. CASE NoneWhileDown
  <2>1. Stop("LoggedOff", {})
    BY <1>4 DEF NoneWhileDown
  <2> QED
    BY Zenon, <1>0, <1>4, <2>1, StopType DEF NoneWhileDown, TypeOK
<1>5. CASE BackoffElapsed
  BY <1>5 DEF BackoffElapsed, TypeOK, Phases
<1>6. CASE EstablishOk
  <2>1. connNo + 1 \in Conns /\ connNo' \in Conns
    BY <1>6, BoundsAssumption DEF EstablishOk, FreshLogon, TypeOK, Conns
  <2>2. inbox' \in Seq(Messages)
    <3>1. Msg("first", 0, None, connNo + 1) \in Messages
      BY <2>1, MsgType
    <3>2. CASE inbox' = <<>>
      BY <3>2
    <3>3. CASE inbox' = <<Msg("first", 0, None, connNo + 1)>>
      BY <3>1, <3>3, SingleType
    <3> QED
      BY <1>6, <3>2, <3>3 DEF EstablishOk, FreshLogon
  <2>3. wire' \in Seq(Seq(Messages) \ {<<>>}) /\ owed' \subseteq JobWrites
    BY <1>6 DEF EstablishOk, FreshLogon
  <2>4. idle' \in BOOLEAN
    BY <1>6, Zenon DEF EstablishOk, FreshLogon
  <2>5. /\ conn' \in {"up", "stalled", "broken", "gone"}
        /\ steam' \in {"new", "first", "later", "off"}
        /\ snapshot' \in Snapshots
    BY <1>6 DEF EstablishOk, FreshLogon, ClearedSnapshot, NoSnapshot, Snapshots
  <2> QED
    BY Zenon, <1>0, <1>6, <2>1, <2>2, <2>3, <2>4, <2>5 DEF EstablishOk, TypeOK, Phases
<1>7. CASE EstablishRejected
  <2>1. Stop("Failed", {})
    BY <1>7 DEF EstablishRejected
  <2> QED
    BY Zenon, <1>0, <1>7, <2>1, StopType DEF EstablishRejected, TypeOK
<1>8. CASE EstablishFails
  BY <1>8 DEF EstablishFails, TypeOK, Phases
<1>9. CASE PublishEnd
  BY <1>9 DEF PublishEnd, TypeOK, Phases
<1>10. CASE DropDriver
  <2> DEFINE r == [c \in Queued |-> Outcome(IF c \in Logoffs THEN "ok" ELSE "dropped")]
  <2>1. \A c : Outcome(IF c \in Logoffs THEN "ok" ELSE "dropped") \in Results
    BY OutcomeType DEF Tags
  <2>2. (\A c \in DOMAIN r : r[c] \in Results) /\ Deliver(r)
    BY <1>10, <2>1 DEF DropDriver
  <2> HIDE DEF r
  <2>3. call' \in [Calls -> CallStates] /\ result' \in [Calls -> Results]
    BY <2>2, DeliverType, Zenon DEF TypeOK
  <2> QED
    BY <1>10, <2>3 DEF DropDriver, TypeOK, Phases
<1> QED
  BY <1>1, <1>2, <1>3, <1>4, <1>5, <1>6, <1>7, <1>8, <1>9, <1>10
     DEF Reconnecting, Teardown

\* A stuttering step changes nothing.
LEMMA StutterTypeOK == TypeOK /\ UNCHANGED vars => TypeOK'
BY DEF TypeOK, vars, callerVars, driverVars, netVars

\* The driver, its callers and Steam never leave the types: job ids stay in
\* 1..u64::MAX, a heartbeat or a notification never carries one, only requests
\* enter the pending table, and no frame is empty.
THEOREM TypeCorrect == Spec => []TypeOK
<1>1. TypeOK /\ [Next]_vars => TypeOK'
  BY CallerTypeOK, ConnectedTypeOK, ReconnectingTypeOK, EnvironmentTypeOK, StutterTypeOK
     DEF Next, Over
<1> QED
  BY InitTypeOK, <1>1, PTL DEF Spec

-----------------------------------------------------------------------------
(* No caller is stranded *)

\* Whoever still waits after a oneshot send was waiting and was not sent to.
LEMMA DeliverFrees ==
    ASSUME NEW r, Deliver(r), NEW c \in Calls, call'[c] = "waiting"
    PROVE  call[c] = "waiting" /\ c \notin DOMAIN r
BY DEF Deliver

\* The inductive invariant behind NoCallerStranded: on the way out the queue is
\* the only holder of senders left, so NoJobOutlivesItsSocket is part of it.
Held == TypeOK /\ NoJobOutlivesItsSocket /\ NoCallerStranded

\* fail_all_pending and the acks leave nobody waiting but the queued calls.
LEMMA StopHeld ==
    ASSUME Held, NEW why, NEW acked, Stop(why, acked),
           phase = "writing" => cur.call \in acked,
           \A c \in Queued : c \in Queued' \/ c \in acked
    PROVE  NoJobOutlivesItsSocket' /\ NoCallerStranded'
<1>1. phase' = "closing" /\ pending' = NoneHeld
  BY DEF Stop
<1>2. PendingCalls' = {}
  BY <1>1 DEF PendingCalls, NoneHeld
<1>3. ASSUME NEW c \in Calls, call'[c] = "waiting" PROVE c \in Queued'
  <2> DEFINE r == [d \in PendingCalls \cup acked |->
                     Outcome(IF d \in acked THEN "ok" ELSE "stopped")]
  <2>1. Deliver(r) /\ DOMAIN r = PendingCalls \cup acked
    BY DEF Stop
  <2> HIDE DEF r
  <2>2. call[c] = "waiting" /\ c \notin PendingCalls /\ c \notin acked
    BY <1>3, <2>1, DeliverFrees
  <2> QED
    BY <2>2 DEF Held, NoCallerStranded
<1> QED
  BY <1>1, <1>2, <1>3 DEF NoJobOutlivesItsSocket, NoCallerStranded

\* dispatch takes from the pending table only the call it answers.
LEMMA DispatchHeld ==
    ASSUME Held, NEW m \in Messages, Dispatch(m), phase' = phase, cur' = cur,
           queue' = queue
    PROVE  NoJobOutlivesItsSocket' /\ NoCallerStranded'
<1>1. CASE m.job \notin {0, MaxJobId} /\ m.job \in DOMAIN pending
  <2> DEFINE r == [c \in {pending[m.job]} |-> ReplyOf(m.of)]
  <2>1. /\ pending' = Restrict(pending, DOMAIN pending \ {m.job})
        /\ Deliver(r)
        /\ DOMAIN r = {pending[m.job]}
    BY Zenon, <1>1 DEF Dispatch
  <2> HIDE DEF r
  <2>2. pending' = [j \in DOMAIN pending \ {m.job} |-> pending[j]]
    BY Zenon, <2>1 DEF Restrict
  <2>3. \A c \in PendingCalls : c = pending[m.job] \/ c \in PendingCalls'
    BY Zenon, <2>2 DEF PendingCalls
  <2>4. PendingCalls' \subseteq PendingCalls
    BY Zenon, <2>2 DEF PendingCalls
  <2>5. \A c \in Calls : call'[c] = "waiting" =>
                            call[c] = "waiting" /\ c # pending[m.job]
    BY <2>1, DeliverFrees
  <2> QED
    BY Zenon, <2>3, <2>4, <2>5 DEF Held, NoJobOutlivesItsSocket, NoCallerStranded, Queued
<1>2. CASE ~(m.job \notin {0, MaxJobId} /\ m.job \in DOMAIN pending)
  BY Zenon, <1>2 DEF Dispatch, DeliverNothing, Held, NoJobOutlivesItsSocket, NoCallerStranded,
              PendingCalls, Queued
<1> QED
  BY <1>1, <1>2

\* A step that leaves the holders alone and makes nobody wait keeps them.
LEMMA QuietHeld ==
    ASSUME Held, pending' = pending, queue' = queue,
           phase' \in Down \cup Exiting => phase \in Down \cup Exiting,
           phase' = "stopped" => phase = "stopped",
           \A c \in Calls : call'[c] = "waiting" => call[c] = "waiting",
           phase = "writing" => \/ phase' = "writing" /\ cur' = cur
                                \/ \A c \in Calls : call'[c] = "waiting" => cur.call # c
    PROVE  NoJobOutlivesItsSocket' /\ NoCallerStranded'
BY DEF Held, NoJobOutlivesItsSocket, NoCallerStranded, PendingCalls, Queued

\* Callers keep NoCallerStranded: a call that starts to wait is in the queue.
LEMMA CallerHeld == Held /\ Caller => NoJobOutlivesItsSocket' /\ NoCallerStranded'
<1> SUFFICES ASSUME Held, Caller PROVE NoJobOutlivesItsSocket' /\ NoCallerStranded'
  OBVIOUS
<1> USE DEF driverVars, netVars, callerVars
<1>0. call \in [Calls -> CallStates]
  BY DEF Held, TypeOK
<1>1. ASSUME NEW c \in Calls, Issue(c) PROVE NoJobOutlivesItsSocket' /\ NoCallerStranded'
  BY Zenon, <1>0, <1>1, QuietHeld DEF Issue
<1>2. ASSUME NEW c \in Calls, Enqueue(c) PROVE NoJobOutlivesItsSocket' /\ NoCallerStranded'
  <2>1. queue \in Seq(Calls) /\ queue' = Append(queue, c)
    BY Zenon, <1>2 DEF Enqueue, Held, TypeOK
  <2>2. Queued' = Queued \cup {c}
    BY <2>1 DEF Queued
  <2>3. PendingCalls' = PendingCalls /\ phase' = phase /\ cur' = cur /\ phase # "stopped"
    BY Zenon, <1>2 DEF Enqueue, PendingCalls
  <2>4. \A d \in Calls : call'[d] = "waiting" => call[d] = "waiting" \/ d = c
    BY <1>0, <1>2 DEF Enqueue
  <2> QED
    BY Zenon, <2>2, <2>3, <2>4 DEF Held, NoJobOutlivesItsSocket, NoCallerStranded
<1>3. ASSUME NEW c \in Calls, EnqueueClosed(c) PROVE NoJobOutlivesItsSocket' /\ NoCallerStranded'
  BY Zenon, <1>0, <1>3, QuietHeld DEF EnqueueClosed
<1>4. ASSUME NEW c \in Calls, Cancel(c) PROVE NoJobOutlivesItsSocket' /\ NoCallerStranded'
  BY Zenon, <1>0, <1>4, QuietHeld DEF Cancel
<1>5. ASSUME NEW c \in Requests, DeadlinePasses(c) PROVE NoJobOutlivesItsSocket' /\ NoCallerStranded'
  BY Zenon, <1>0, <1>5, QuietHeld DEF DeadlinePasses
<1>6. ASSUME NEW c \in Requests, CallerTimeout(c) PROVE NoJobOutlivesItsSocket' /\ NoCallerStranded'
  BY <1>0, <1>6, QuietHeld, Zenon DEF CallerTimeout
<1>7. CASE DropHandles
  BY Zenon, <1>7, QuietHeld DEF DropHandles
<1> QED
  BY <1>1, <1>2, <1>3, <1>4, <1>5, <1>6, <1>7 DEF Caller

\* Steam and the network touch no sender.
LEMMA EnvironmentHeld == Held /\ Environment => NoJobOutlivesItsSocket' /\ NoCallerStranded'
BY Zenon, QuietHeld DEF Environment, SteamReplies, SteamPushes, SteamLogsOff, SocketBreaks,
   SocketStalls, SilencePasses, callerVars, driverVars

\* recv takes the head of the queue and nothing else.
LEMMA RecvQueued ==
    ASSUME queue \in Seq(Calls), queue # <<>>, queue' = Tail(queue), NEW c \in Queued
    PROVE  c \in Queued' \/ c = Head(queue)
<1>1. PICK i \in DOMAIN queue : c = queue[i]
  BY DEF Queued
<1>2. CASE i = 1
  BY <1>1, <1>2
<1>3. CASE i # 1
  <2>1. i - 1 \in DOMAIN queue' /\ queue'[i - 1] = queue[i]
    BY <1>1, <1>3
  <2> QED
    BY <1>1, <2>1 DEF Queued
<1> QED
  BY <1>2, <1>3

\* Inside run_connected a sender moves from the queue to the write, from the
\* write to the pending table, and leaves only when its caller is answered.
LEMMA ConnectedHeld == Held /\ Connected => NoJobOutlivesItsSocket' /\ NoCallerStranded'
<1> SUFFICES ASSUME Held, Connected PROVE NoJobOutlivesItsSocket' /\ NoCallerStranded'
  OBVIOUS
<1> USE DEF driverVars, netVars, callerVars
<1>0. TypeOK
  BY DEF Held
<1>1. CASE RecvCommand
  <2>1. queue \in Seq(Calls) /\ queue # <<>> /\ queue' = Tail(queue)
    BY Zenon, <1>0, <1>1 DEF RecvCommand, TypeOK
  <2>2. \A c \in Queued : c \in Queued' \/ c = Head(queue)
    BY <2>1, RecvQueued
  <2>3. /\ phase = "connected" /\ phase' = "writing" /\ cur'.call = Head(queue)
        /\ call' = call /\ PendingCalls' = PendingCalls
    BY Zenon, <1>1 DEF RecvCommand, PendingCalls
  <2> QED
    BY Zenon, <2>2, <2>3 DEF Held, NoJobOutlivesItsSocket, NoCallerStranded, Down, Exiting
<1>2. CASE RecvNone
  <2>1. Stop("LoggedOff", {}) /\ phase # "writing" /\ Queued' = Queued
    BY <1>2 DEF RecvNone, Queued
  <2> QED
    BY <2>1, StopHeld
<1>3. CASE HeartbeatDue
  BY Zenon, <1>3, QuietHeld DEF HeartbeatDue, Down, Exiting
<1>4. CASE WriteOk
  <2>1. phase = "writing" /\ Queued' = Queued
    BY Zenon, <1>4 DEF WriteOk, Queued
  <2>2. CASE Stop("LoggedOff", {cur.call})
    BY <2>1, <2>2, StopHeld
  <2>3. CASE /\ phase' = "connected"
             /\ InsertPending
    <3> DEFINE displaced == IF cur.job \in DOMAIN pending THEN {pending[cur.job]} ELSE {}
               r == [c \in displaced |-> Outcome("dropped")]
    <3>1. /\ pending' = [j \in DOMAIN pending \cup {cur.job} |->
                          IF j = cur.job THEN cur.call ELSE pending[j]]
          /\ Deliver(r)
          /\ DOMAIN r = displaced
      BY Zenon, <2>3 DEF InsertPending
    <3> HIDE DEF r
    <3>2. cur.call \in PendingCalls'
      BY <3>1 DEF PendingCalls
    <3>3. \A c \in PendingCalls : c \in PendingCalls' \/ c \in displaced
      BY Zenon, <3>1 DEF PendingCalls
    <3>4. \A c \in Calls : call'[c] = "waiting" => call[c] = "waiting" /\ c \notin displaced
      BY Zenon, <3>1, DeliverFrees
    <3> QED
      BY Zenon, <2>1, <2>3, <3>2, <3>3, <3>4
         DEF Held, NoJobOutlivesItsSocket, NoCallerStranded, Down, Exiting
  <2>4. CASE /\ phase' = "connected"
             /\ Deliver([c \in {cur.call} |-> Outcome("ok")])
             /\ UNCHANGED pending
    <3>1. \A c \in Calls : call'[c] = "waiting" => call[c] = "waiting" /\ c # cur.call
      BY <2>4, DeliverFrees
    <3> QED
      BY Zenon, <1>4, <2>1, <2>4, <3>1, QuietHeld DEF WriteOk, Down, Exiting
  <2>5. CASE /\ phase' = "connected"
             /\ cur.call = None
             /\ DeliverNothing
             /\ UNCHANGED pending
    BY Zenon, <1>4, <2>1, <2>5, QuietHeld, CallsAssumption
       DEF WriteOk, DeliverNothing, Down, Exiting
  <2> QED
    BY Zenon, <1>4, <2>2, <2>3, <2>4, <2>5 DEF WriteOk
<1>5. CASE WriteErr
  <2>1. phase = "writing" /\ Queued' = Queued
    BY <1>5 DEF WriteErr, Queued
  <2>2. CASE Stop("LoggedOff", {cur.call})
    BY <2>1, <2>2, StopHeld
  <2>3. CASE /\ Disconnect
             /\ Deliver([c \in {cur.call} \ {None} |-> Outcome("reconnecting")])
    <3>1. \A c \in Calls : call'[c] = "waiting" => call[c] = "waiting" /\ c # cur.call
      BY <2>3, DeliverFrees, CallsAssumption
    <3> QED
      BY Zenon, <1>5, <2>1, <2>3, <3>1, QuietHeld DEF WriteErr, Disconnect, Down, Exiting
  <2> QED
    BY Zenon, <1>5, <2>2, <2>3 DEF WriteErr
<1>6. CASE ReadMessage
  <2>1. NextMessage \in Messages
    BY <1>0, <1>6, TakeType DEF ReadMessage
  <2>2. Dispatch(NextMessage) /\ phase' = phase /\ cur' = cur /\ queue' = queue
    BY <1>6 DEF ReadMessage
  <2> QED
    BY <2>1, <2>2, DispatchHeld
<1>7. CASE ReadLogoff
  <2>1. phase = "connected" /\ queue' = queue /\ Queued' = Queued
    BY <1>7 DEF ReadLogoff, Queued
  <2>2. CASE Stop("LoggedOff", {})
    BY <2>1, <2>2, StopHeld
  <2>3. CASE Disconnect /\ DeliverNothing
    BY <2>1, <2>3, QuietHeld DEF Disconnect, DeliverNothing, Down, Exiting
  <2> QED
    BY <1>7, <2>2, <2>3 DEF ReadLogoff
<1>8. CASE ReadErr
  BY Zenon, <1>8, QuietHeld DEF ReadErr, Disconnect, DeliverNothing, Down, Exiting
<1>9. CASE SweepIdle
  BY Zenon, <1>9, QuietHeld DEF SweepIdle, Disconnect, DeliverNothing, Down, Exiting
<1>10. CASE SweepPending
  <2> DEFINE swept == {pending[j] : j \in {i \in DOMAIN pending : ~Keeps(i)}}
             r == [c \in swept |-> Outcome("timeout")]
  <2>1. Deliver(r) /\ DOMAIN r = swept
    BY Zenon, <1>10 DEF SweepPending
  <2> HIDE DEF r
  <2>2. pending' = [j \in {i \in DOMAIN pending : Keeps(i)} |-> pending[j]]
    BY <1>10 DEF SweepPending, RestrictDomain, Restrict
  <2>3. \A c \in PendingCalls : c \in PendingCalls' \/ c \in swept
    BY <2>2 DEF PendingCalls
  <2>4. \A c \in Calls : call'[c] = "waiting" => call[c] = "waiting" /\ c \notin swept
    BY <2>1, DeliverFrees
  <2>5. phase = "connected" /\ phase' = phase /\ Queued' = Queued
    BY Zenon, <1>10 DEF SweepPending, Queued
  <2> QED
    BY Zenon, <2>3, <2>4, <2>5 DEF Held, NoJobOutlivesItsSocket, NoCallerStranded, Down, Exiting
<1>11. CASE ReadControl
  BY Zenon, <1>11, QuietHeld DEF ReadControl, Down, Exiting
<1> QED
  BY <1>1, <1>2, <1>3, <1>4, <1>5, <1>6, <1>7, <1>8, <1>9, <1>10, <1>11 DEF Connected

\* A reconnect answers every pending call before it starts and every queued one
\* while it lasts; the drop of the driver answers the rest.
LEMMA ReconnectingHeld ==
    Held /\ (Reconnecting \/ Teardown) => NoJobOutlivesItsSocket' /\ NoCallerStranded'
<1> SUFFICES ASSUME Held, Reconnecting \/ Teardown
             PROVE  NoJobOutlivesItsSocket' /\ NoCallerStranded'
  OBVIOUS
<1> USE DEF driverVars, netVars, callerVars
<1>0. TypeOK
  BY DEF Held
<1>1. CASE Drain
  <2>1. Head(inbox) \in Messages
    BY <1>0, <1>1 DEF Drain, TypeOK
  <2>2. Dispatch(Head(inbox)) /\ phase' = phase /\ cur' = cur /\ queue' = queue
    BY <1>1 DEF Drain
  <2> QED
    BY <2>1, <2>2, DispatchHeld
<1>2. CASE BeginReconnect
  <2> DEFINE r == [c \in PendingCalls |-> Outcome("reconnecting")]
  <2>1. Deliver(r) /\ DOMAIN r = PendingCalls
    BY <1>2 DEF BeginReconnect
  <2> HIDE DEF r
  <2>2. \A c \in Calls : call'[c] = "waiting" => call[c] = "waiting" /\ c \notin PendingCalls
    BY <2>1, DeliverFrees
  <2>3. PendingCalls' = {}
    BY Zenon, <1>2 DEF BeginReconnect, PendingCalls, NoneHeld
  <2>4. phase = "draining" /\ phase' = "backoff" /\ Queued' = Queued
    BY Zenon, <1>2 DEF BeginReconnect, Queued
  <2> QED
    BY Zenon, <2>2, <2>3, <2>4 DEF Held, NoJobOutlivesItsSocket, NoCallerStranded
<1>3. CASE AnswerWhileDown
  <2> DEFINE c == Head(queue)
  <2>1. queue \in Seq(Calls) /\ queue # <<>> /\ queue' = Tail(queue)
    BY Zenon, <1>0, <1>3 DEF AnswerWhileDown, TypeOK
  <2>2. \A d \in Queued : d \in Queued' \/ d = c
    BY <2>1, RecvQueued
  <2>3. phase \in Down /\ phase # "writing" /\ phase # "stopped"
    BY Zenon, <1>3 DEF AnswerWhileDown, Down
  <2>4. CASE Stop("LoggedOff", {c})
    BY <2>2, <2>3, <2>4, StopHeld
  <2>5. CASE /\ Deliver([d \in {c} |-> Outcome(AnswerDown(c))])
             /\ UNCHANGED <<phase, ending, conn, cur, pending>>
    <3>1. \A d \in Calls : call'[d] = "waiting" => call[d] = "waiting" /\ d # c
      BY <2>5, DeliverFrees
    <3>2. PendingCalls' = PendingCalls /\ phase' = phase
      BY Zenon, <2>5 DEF PendingCalls
    <3> QED
      BY Zenon, <2>2, <2>3, <3>1, <3>2 DEF Held, NoJobOutlivesItsSocket, NoCallerStranded
  <2> QED
    BY Zenon, <1>3, <2>4, <2>5 DEF AnswerWhileDown
<1>4. CASE NoneWhileDown
  <2>1. Stop("LoggedOff", {}) /\ phase # "writing" /\ Queued' = Queued
    BY <1>4 DEF NoneWhileDown, Queued, Down
  <2> QED
    BY <2>1, StopHeld
<1>5. CASE BackoffElapsed
  BY Zenon, <1>5, QuietHeld DEF BackoffElapsed, Down
<1>6. CASE EstablishOk
  BY Zenon, <1>6, QuietHeld DEF EstablishOk, Down, Exiting
<1>7. CASE EstablishRejected
  <2>1. Stop("Failed", {}) /\ phase # "writing" /\ Queued' = Queued
    BY Zenon, <1>7 DEF EstablishRejected, Queued
  <2> QED
    BY <2>1, StopHeld
<1>8. CASE EstablishFails
  BY Zenon, <1>8, QuietHeld DEF EstablishFails, Down
<1>9. CASE PublishEnd
  BY Zenon, <1>9, QuietHeld DEF PublishEnd, Exiting
<1>10. CASE DropDriver
  <2> DEFINE r == [c \in Queued |-> Outcome(IF c \in Logoffs THEN "ok" ELSE "dropped")]
  <2>1. Deliver(r) /\ DOMAIN r = Queued
    BY Zenon, <1>10 DEF DropDriver
  <2> HIDE DEF r
  <2>2. \A c \in Calls : call'[c] = "waiting" => call[c] = "waiting" /\ c \notin Queued
    BY <2>1, DeliverFrees
  <2>3. phase = "closed" /\ PendingCalls = {} /\ PendingCalls' = PendingCalls
    BY Zenon, <1>10 DEF DropDriver, Held, NoJobOutlivesItsSocket, Exiting, PendingCalls
  <2> QED
    BY Zenon, <2>2, <2>3 DEF Held, NoJobOutlivesItsSocket, NoCallerStranded
<1> QED
  BY Zenon, <1>1, <1>2, <1>3, <1>4, <1>5, <1>6, <1>7, <1>8, <1>9, <1>10
     DEF Reconnecting, Teardown

\* At the start nothing is queued, held or answered.
LEMMA InitHeld == Init => Held
<1> SUFFICES ASSUME Init PROVE NoJobOutlivesItsSocket /\ NoCallerStranded
  BY InitTypeOK DEF Held
<1> QED
  BY Zenon DEF Init, NoJobOutlivesItsSocket, NoCallerStranded, Down, Exiting

\* One step keeps the invariant.
LEMMA NextHeld == Held /\ [Next]_vars => Held'
<1>1. Held /\ UNCHANGED vars => NoJobOutlivesItsSocket' /\ NoCallerStranded'
  BY Zenon, QuietHeld DEF vars, callerVars, driverVars
<1> SUFFICES ASSUME Held, [Next]_vars PROVE Held'
  OBVIOUS
<1>2. TypeOK'
  BY CallerTypeOK, ConnectedTypeOK, ReconnectingTypeOK, EnvironmentTypeOK, StutterTypeOK
     DEF Next, Over, Held
<1>3. NoJobOutlivesItsSocket' /\ NoCallerStranded'
  BY <1>1, CallerHeld, ConnectedHeld, ReconnectingHeld, EnvironmentHeld DEF Next, Over
<1> QED
  BY <1>2, <1>3 DEF Held

\* In every reachable state a waiting caller's sender is in the command queue,
\* in the write in progress or in the pending table, no job outlives its
\* socket, and nobody waits on a task that is gone.
THEOREM CallersHeld == Spec => [](NoCallerStranded /\ NoJobOutlivesItsSocket)
<1>1. Held => NoCallerStranded /\ NoJobOutlivesItsSocket
  BY DEF Held
<1> QED
  BY InitHeld, NextHeld, <1>1, PTL DEF Spec

\* fail_all_pending runs before every reconnect and on every way out: no entry
\* of the pending table is carried to another connection.
THEOREM JobsEndWithSocket == Spec => []NoJobOutlivesItsSocket
BY CallersHeld, PTL

-----------------------------------------------------------------------------
(* Logging off is final *)

\* What the state watch and the end result are in each phase of the driver.
PhaseState ==
    /\ phase \in Up \cup {"draining"} => state = "LoggedOn"
    /\ phase \in Down => state = "Connecting"
    /\ phase \in Exiting => ending \in {"LoggedOff", "Failed"}

\* The inductive invariant behind LogoffIsFinal.
Final == TypeOK /\ PhaseState /\ LogoffIsFinal

\* A logoff is answered "ok" only by a driver that is past its loop.
LEMMA AckedFinal ==
    ASSUME Final, PhaseState', phase \in Exiting => phase' \in Exiting,
           \/ phase' \in Exiting
           \/ \A c \in Logoffs : result'[c] = result[c] \/ result'[c].tag # "ok"
    PROVE  PhaseState' /\ LogoffIsFinal'
BY Zenon DEF Final, PhaseState, LogoffIsFinal

\* Leaving the loop of run fixes the result it will publish.
LEMMA StopFinal ==
    ASSUME Final, NEW why \in {"LoggedOff", "Failed"}, NEW acked, Stop(why, acked)
    PROVE  PhaseState' /\ LogoffIsFinal'
BY Zenon, AckedFinal DEF Stop, PhaseState, Up, Down, Exiting

\* A oneshot send answers no logoff with "ok" unless it was meant to.
LEMMA DeliverNoAck ==
    ASSUME NEW r, Deliver(r), \A c \in DOMAIN r : c \in Logoffs => r[c].tag # "ok",
           NEW c \in Logoffs
    PROVE  result'[c] = result[c] \/ result'[c].tag # "ok"
BY Zenon DEF Deliver, Calls

\* dispatch answers requests only.
LEMMA DispatchNoAck ==
    ASSUME TypeOK, NEW m \in Messages, Dispatch(m), NEW c \in Logoffs
    PROVE  result'[c] = result[c] \/ result'[c].tag # "ok"
<1>1. CASE m.job \notin {0, MaxJobId} /\ m.job \in DOMAIN pending
  <2> DEFINE r == [d \in {pending[m.job]} |-> ReplyOf(m.of)]
  <2>1. Deliver(r) /\ \A d \in DOMAIN r : r[d].tag # "ok"
    BY Zenon, <1>1 DEF Dispatch, ReplyOf
  <2> HIDE DEF r
  <2> QED
    BY Zenon, <2>1, DeliverNoAck
<1>2. CASE ~(m.job \notin {0, MaxJobId} /\ m.job \in DOMAIN pending)
  BY Zenon, <1>2 DEF Dispatch, DeliverNothing
<1> QED
  BY Zenon, <1>1, <1>2

\* Callers and the network neither answer a logoff with "ok" nor move the driver.
LEMMA CallerFinal == Final /\ (Caller \/ Environment) => PhaseState' /\ LogoffIsFinal'
<1> SUFFICES ASSUME Final, Caller \/ Environment PROVE PhaseState' /\ LogoffIsFinal'
  OBVIOUS
<1> USE DEF driverVars, netVars, callerVars
<1>1. phase' = phase /\ state' = state /\ ending' = ending
  BY Zenon DEF Caller, Issue, Enqueue, EnqueueClosed, Cancel, DeadlinePasses, CallerTimeout,
         DropHandles, Environment, SteamReplies, SteamPushes, SteamLogsOff, SocketBreaks,
         SocketStalls, SilencePasses
<1>2. PhaseState'
  BY <1>1 DEF Final, PhaseState
<1>3. result \in [Calls -> Results]
  BY DEF Final, TypeOK
<1>4. \A d \in Logoffs : result'[d] = result[d] \/ result'[d].tag # "ok"
  <2>1. ASSUME NEW c \in Calls, Issue(c) PROVE result' = result
    BY Zenon, <2>1 DEF Issue
  <2>2. CASE Environment
    BY Zenon, <2>2 DEF Environment, SteamReplies, SteamPushes, SteamLogsOff, SocketBreaks,
                SocketStalls, SilencePasses
  <2>3. ASSUME NEW c \in Calls, EnqueueClosed(c)
        PROVE  \A d \in Logoffs : result'[d] = result[d] \/ result'[d].tag # "ok"
    BY Zenon, <1>3, <2>3 DEF EnqueueClosed, Outcome, Calls
  <2>4. ASSUME NEW c \in Requests, CallerTimeout(c)
        PROVE  \A d \in Logoffs : result'[d] = result[d] \/ result'[d].tag # "ok"
    BY Zenon, <1>3, <2>4 DEF CallerTimeout, Outcome, Calls
  <2>5. ASSUME NEW c \in Calls, Enqueue(c) \/ Cancel(c) \/ DeadlinePasses(c)
        PROVE  result' = result
    BY Zenon, <2>5 DEF Enqueue, Cancel, DeadlinePasses
  <2>6. DropHandles => result' = result
    BY Zenon DEF DropHandles
  <2> QED
    BY Zenon, <2>1, <2>2, <2>3, <2>4, <2>5, <2>6 DEF Caller, Calls
<1> QED
  BY Zenon, <1>1, <1>2, <1>4, AckedFinal

\* Inside run_connected only a driver on its way out acks a logoff.
LEMMA ConnectedFinal == Final /\ Connected => PhaseState' /\ LogoffIsFinal'
<1> SUFFICES ASSUME Final, Connected PROVE PhaseState' /\ LogoffIsFinal'
  OBVIOUS
<1> USE DEF driverVars, netVars, callerVars
<1>0. TypeOK /\ Notifies \cap Logoffs = {} /\ "LoggedOff" \in {"LoggedOff", "Failed"}
  BY CallsAssumption DEF Final
<1>1. ASSUME phase \in Up, phase' \in Up \cup {"draining"}, state' = state,
             \A c \in Logoffs : result'[c] = result[c] \/ result'[c].tag # "ok"
      PROVE  PhaseState' /\ LogoffIsFinal'
  <2>1. PhaseState' /\ phase \notin Exiting
    BY Zenon, <1>1 DEF Final, PhaseState, Up, Down, Exiting
  <2> QED
    BY Zenon, <1>1, <2>1, AckedFinal
<1>2. CASE RecvCommand \/ HeartbeatDue \/ ReadControl
  BY Zenon, <1>1, <1>2 DEF RecvCommand, HeartbeatDue, ReadControl, Up
<1>3. CASE RecvNone
  BY Zenon, <1>0, <1>3, StopFinal DEF RecvNone
<1>4. CASE WriteOk
  <2>1. phase \in Up /\ state' = state
    BY Zenon, <1>4 DEF WriteOk, Up
  <2>2. CASE Stop("LoggedOff", {cur.call})
    BY <1>0, <2>2, StopFinal
  <2>3. CASE phase' = "connected" /\ InsertPending
    <3> DEFINE displaced == IF cur.job \in DOMAIN pending THEN {pending[cur.job]} ELSE {}
               r == [c \in displaced |-> Outcome("dropped")]
    <3>1. Deliver(r) /\ \A c \in DOMAIN r : r[c].tag # "ok"
      BY Zenon, <2>3 DEF InsertPending, Outcome
    <3> HIDE DEF r
    <3>2. \A c \in Logoffs : result'[c] = result[c] \/ result'[c].tag # "ok"
      BY Zenon, <3>1, DeliverNoAck
    <3> QED
      BY <1>1, <2>1, <2>3, <3>2 DEF Up
  <2>4. CASE /\ phase' = "connected" /\ cur.call \in Notifies
             /\ Deliver([c \in {cur.call} |-> Outcome("ok")])
    <3> DEFINE r == [c \in {cur.call} |-> Outcome("ok")]
    <3>1. Deliver(r) /\ \A c \in DOMAIN r : c \notin Logoffs
      BY <1>0, <2>4
    <3> HIDE DEF r
    <3>2. \A c \in Logoffs : result'[c] = result[c] \/ result'[c].tag # "ok"
      BY Zenon, <3>1, DeliverNoAck
    <3> QED
      BY Zenon, <1>1, <2>1, <2>4, <3>2 DEF Up
  <2>5. CASE phase' = "connected" /\ DeliverNothing
    BY Zenon, <1>1, <2>1, <2>5 DEF DeliverNothing, Up
  <2> QED
    BY Zenon, <1>4, <2>2, <2>3, <2>4, <2>5 DEF WriteOk
<1>5. CASE WriteErr
  <2>1. CASE Stop("LoggedOff", {cur.call})
    BY <1>0, <2>1, StopFinal
  <2>2. CASE /\ Disconnect
             /\ Deliver([c \in {cur.call} \ {None} |-> Outcome("reconnecting")])
    <3> DEFINE r == [c \in {cur.call} \ {None} |-> Outcome("reconnecting")]
    <3>1. Deliver(r) /\ \A c \in DOMAIN r : r[c].tag # "ok"
      BY Zenon, <2>2 DEF Outcome
    <3> HIDE DEF r
    <3>2. \A c \in Logoffs : result'[c] = result[c] \/ result'[c].tag # "ok"
      BY <3>1, DeliverNoAck
    <3> QED
      BY Zenon, <1>1, <1>5, <2>2, <3>2 DEF WriteErr, Disconnect, Up
  <2> QED
    BY <1>5, <2>1, <2>2 DEF WriteErr
<1>6. CASE ReadMessage
  <2>1. NextMessage \in Messages /\ Dispatch(NextMessage)
    BY <1>0, <1>6, TakeType DEF ReadMessage
  <2>2. \A c \in Logoffs : result'[c] = result[c] \/ result'[c].tag # "ok"
    BY <1>0, <2>1, DispatchNoAck
  <2> QED
    BY Zenon, <1>1, <1>6, <2>2 DEF ReadMessage, Up
<1>7. CASE ReadLogoff
  <2>1. CASE Stop("LoggedOff", {})
    BY <1>0, <2>1, StopFinal
  <2>2. CASE Disconnect /\ DeliverNothing
    BY Zenon, <1>1, <1>7, <2>2 DEF ReadLogoff, Disconnect, DeliverNothing, Up
  <2> QED
    BY <1>7, <2>1, <2>2 DEF ReadLogoff
<1>8. CASE ReadErr \/ SweepIdle
  BY Zenon, <1>1, <1>8 DEF ReadErr, SweepIdle, Disconnect, DeliverNothing, Up
<1>9. CASE SweepPending
  <2> DEFINE r == [c \in {pending[j] : j \in {i \in DOMAIN pending : ~Keeps(i)}} |->
                     Outcome("timeout")]
  <2>1. Deliver(r) /\ \A c \in DOMAIN r : r[c].tag # "ok"
    BY Zenon, <1>9 DEF SweepPending, Outcome
  <2> HIDE DEF r
  <2>2. \A c \in Logoffs : result'[c] = result[c] \/ result'[c].tag # "ok"
    BY <2>1, DeliverNoAck
  <2> QED
    BY Zenon, <1>1, <1>9, <2>2 DEF SweepPending, Up
<1> QED
  BY Zenon, <1>2, <1>3, <1>4, <1>5, <1>6, <1>7, <1>8, <1>9 DEF Connected

\* A logoff that arrives during a reconnect ends it; one left in the queue is
\* answered by the drop of a driver that has published its end.
LEMMA ReconnectingFinal ==
    Final /\ (Reconnecting \/ Teardown) => PhaseState' /\ LogoffIsFinal'
<1> SUFFICES ASSUME Final, Reconnecting \/ Teardown PROVE PhaseState' /\ LogoffIsFinal'
  OBVIOUS
<1> USE DEF driverVars, netVars, callerVars
<1>0. TypeOK
  BY DEF Final
<1>1. ASSUME phase \notin Exiting, PhaseState',
             \A c \in Logoffs : result'[c] = result[c] \/ result'[c].tag # "ok"
      PROVE  PhaseState' /\ LogoffIsFinal'
  BY Zenon, <1>1, AckedFinal
<1>2. CASE Drain
  <2>1. Head(inbox) \in Messages /\ Dispatch(Head(inbox))
    BY <1>0, <1>2 DEF Drain, TypeOK
  <2>2. \A c \in Logoffs : result'[c] = result[c] \/ result'[c].tag # "ok"
    BY <1>0, <2>1, DispatchNoAck
  <2>3. PhaseState' /\ phase \notin Exiting
    BY Zenon, <1>2 DEF Drain, Final, PhaseState, Exiting
  <2> QED
    BY <1>1, <2>2, <2>3
<1>3. CASE BeginReconnect
  <2> DEFINE r == [c \in PendingCalls |-> Outcome("reconnecting")]
  <2>1. Deliver(r) /\ \A c \in DOMAIN r : r[c].tag # "ok"
    BY Zenon, <1>3 DEF BeginReconnect, Outcome
  <2> HIDE DEF r
  <2>2. \A c \in Logoffs : result'[c] = result[c] \/ result'[c].tag # "ok"
    BY Zenon, <2>1, DeliverNoAck
  <2>3. PhaseState' /\ phase \notin Exiting
    BY <1>3 DEF BeginReconnect, DownState, PhaseState, Up, Exiting
  <2> QED
    BY <1>1, <2>2, <2>3
<1>4. CASE AnswerWhileDown
  <2> DEFINE c == Head(queue)
  <2>1. CASE Stop("LoggedOff", {c})
    BY <1>0, <2>1, StopFinal
  <2>2. CASE /\ c \notin Logoffs
             /\ Deliver([d \in {c} |-> Outcome(AnswerDown(c))])
             /\ UNCHANGED <<phase, ending, conn, cur, pending>>
    <3> DEFINE r == [d \in {c} |-> Outcome(AnswerDown(c))]
    <3>1. Deliver(r) /\ \A d \in DOMAIN r : d \notin Logoffs
      BY <2>2
    <3> HIDE DEF r
    <3>2. \A d \in Logoffs : result'[d] = result[d] \/ result'[d].tag # "ok"
      BY Zenon, <3>1, DeliverNoAck
    <3>3. PhaseState' /\ phase \notin Exiting
      BY Zenon, <1>4, <2>2 DEF AnswerWhileDown, Final, PhaseState, Down, Exiting
    <3> QED
      BY <1>1, <3>2, <3>3
  <2> QED
    BY Zenon, <1>4, <2>1, <2>2 DEF AnswerWhileDown, StopsWhileDown
<1>5. CASE NoneWhileDown \/ EstablishRejected
  BY Zenon, <1>5, StopFinal DEF NoneWhileDown, EstablishRejected
<1>6. CASE BackoffElapsed \/ EstablishFails
  <2>1. PhaseState' /\ phase \notin Exiting /\ result' = result
    BY Zenon, <1>6 DEF BackoffElapsed, EstablishFails, Final, PhaseState, Up, Down, Exiting
  <2> QED
    BY Zenon, <1>1, <2>1
<1>7. CASE EstablishOk
  <2>1. PhaseState' /\ phase \notin Exiting /\ result' = result
    BY Zenon, <1>7 DEF EstablishOk, PhaseState, Down, Exiting
  <2> QED
    BY <1>1, <2>1
<1>8. CASE PublishEnd \/ DropDriver
  <2>1. PhaseState' /\ phase' \in Exiting
    BY Zenon, <1>8 DEF PublishEnd, DropDriver, Final, PhaseState, Up, Down, Exiting
  <2> QED
    BY Zenon, <2>1, AckedFinal
<1> QED
  BY <1>2, <1>3, <1>4, <1>5, <1>6, <1>7, <1>8 DEF Reconnecting, Teardown

\* Nothing moves, so nothing is lost.
LEMMA StutterFinal == Final /\ UNCHANGED vars => PhaseState' /\ LogoffIsFinal'
BY Zenon DEF Final, PhaseState, LogoffIsFinal, vars, callerVars, driverVars

\* One step keeps the invariant.
LEMMA NextFinal == Final /\ [Next]_vars => Final'
<1> SUFFICES ASSUME Final, [Next]_vars PROVE Final'
  OBVIOUS
<1>1. TypeOK'
  BY CallerTypeOK, ConnectedTypeOK, ReconnectingTypeOK, EnvironmentTypeOK, StutterTypeOK
     DEF Next, Over, Final
<1>2. PhaseState' /\ LogoffIsFinal'
  BY CallerFinal, ConnectedFinal, ReconnectingFinal, StutterFinal DEF Next, Over
<1> QED
  BY <1>1, <1>2 DEF Final

\* The session starts logged on, with no logoff answered.
LEMMA InitFinal == Init => Final
<1> SUFFICES ASSUME Init PROVE PhaseState /\ LogoffIsFinal
  BY InitTypeOK DEF Final
<1> QED
  BY Zenon DEF Init, PhaseState, LogoffIsFinal, Outcome, Calls, Up, Down, Exiting

\* Once logoff() has returned Ok, whatever it raced with (a drop, a reconnect, a
\* full queue, the end of the task), the session has ended for good.
THEOREM LogoffFinal == Spec => []LogoffIsFinal
<1>1. Final => LogoffIsFinal
  BY DEF Final
<1> QED
  BY InitFinal, NextFinal, <1>1, PTL DEF Spec

-----------------------------------------------------------------------------
(* The state watch *)

\* Until PublishEnd the watch shows what the loop of run last sent.
EndUnpublished == phase = "closing" => state \in {"LoggedOn", "Connecting"}

\* The inductive invariant behind StatesInOrder.
Watched == Final /\ Held /\ EndUnpublished

\* Only three steps send on the watch, and the loop of run is left from a phase
\* in which the watch shows LoggedOn or Connecting.
LEMMA WatchStep ==
    ASSUME [Next]_vars
    PROVE  \/ BeginReconnect \/ EstablishOk \/ PublishEnd
           \/ /\ state' = state
              /\ phase' = "closing" => phase \in Up \cup Down \cup {"draining", "closing"}
<1> USE DEF driverVars, netVars, callerVars
<1>1. CASE Caller \/ Environment
  BY Zenon, <1>1 DEF Caller, Issue, Enqueue, EnqueueClosed, Cancel, DeadlinePasses,
         CallerTimeout, DropHandles, Environment, SteamReplies, SteamPushes, SteamLogsOff,
         SocketBreaks, SocketStalls, SilencePasses
<1>2. CASE Connected
  <2>1. CASE RecvCommand \/ RecvNone \/ HeartbeatDue \/ ReadControl \/ ReadMessage
    BY Zenon, <2>1 DEF RecvCommand, RecvNone, HeartbeatDue, ReadControl, ReadMessage, Up
  <2>2. CASE WriteOk \/ WriteErr
    BY Zenon, <2>2 DEF WriteOk, WriteErr, Up
  <2>3. CASE ReadLogoff \/ ReadErr \/ SweepIdle \/ SweepPending
    BY Zenon, <2>3 DEF ReadLogoff, ReadErr, SweepIdle, SweepPending, Up
  <2> QED
    BY Zenon, <1>2, <2>1, <2>2, <2>3 DEF Connected
<1>3. CASE Drain \/ AnswerWhileDown \/ NoneWhileDown \/ EstablishRejected
  BY Zenon, <1>3 DEF Drain, AnswerWhileDown, NoneWhileDown, EstablishRejected, Down
<1>4. CASE BackoffElapsed \/ EstablishFails \/ DropDriver
  BY Zenon, <1>4 DEF BackoffElapsed, EstablishFails, DropDriver
<1>5. CASE Over \/ UNCHANGED vars
  BY Zenon, <1>5 DEF Over, vars
<1> QED
  BY Zenon, <1>1, <1>2, <1>3, <1>4, <1>5 DEF Next, Reconnecting, Teardown

\* A step sends on the watch only what may follow what it shows.
LEMMA WatchOrder == Watched /\ [Next]_vars =>
    /\ EndUnpublished'
    /\ state' # state =>
          /\ state \in {"LoggedOn", "Connecting"}
          /\ state' = "Connecting" => state = "LoggedOn" /\ connNo' = connNo
          /\ state' = "LoggedOn" => state = "Connecting" /\ connNo' = connNo + 1
          /\ state' \notin {"LoggedOn", "Connecting"} => phase' \in Exiting
          /\ PendingCalls' = {}
<1> SUFFICES ASSUME Watched, [Next]_vars
             PROVE  /\ EndUnpublished'
                    /\ state' # state =>
                       /\ state \in {"LoggedOn", "Connecting"}
                       /\ state' = "Connecting" => state = "LoggedOn" /\ connNo' = connNo
                       /\ state' = "LoggedOn" => state = "Connecting" /\ connNo' = connNo + 1
                       /\ state' \notin {"LoggedOn", "Connecting"} => phase' \in Exiting
                       /\ PendingCalls' = {}
  OBVIOUS
<1>0. PhaseState /\ NoJobOutlivesItsSocket /\ EndUnpublished
  BY Zenon DEF Watched, Final, Held
<1>1. CASE BeginReconnect
  <2>1. state = "LoggedOn" /\ state' = "Connecting" /\ connNo' = connNo /\ phase' = "backoff"
    BY Zenon, <1>0, <1>1 DEF BeginReconnect, DownState, PhaseState
  <2>2. PendingCalls' = {}
    BY SMT, <1>1 DEF BeginReconnect, PendingCalls, NoneHeld
  <2> QED
    BY <2>1, <2>2 DEF EndUnpublished
<1>2. CASE EstablishOk
  <2>1. state = "Connecting" /\ state' = "LoggedOn" /\ phase' = "connected"
    BY Zenon, <1>0, <1>2 DEF EstablishOk, PhaseState, Down
  <2>2. connNo' = connNo + 1
    BY Zenon, <1>2 DEF EstablishOk, FreshLogon
  <2>3. PendingCalls' = {}
    BY Zenon, <1>0, <1>2 DEF EstablishOk, NoJobOutlivesItsSocket, PendingCalls, Down
  <2> QED
    BY <2>1, <2>2, <2>3 DEF EndUnpublished
<1>3. CASE PublishEnd
  <2>1. state \in {"LoggedOn", "Connecting"} /\ phase' = "closed" /\ phase' \in Exiting
    BY Zenon, <1>0, <1>3 DEF PublishEnd, EndUnpublished, Exiting
  <2>2. state' \in {"LoggedOff", "Failed"}
    BY Zenon, <1>0, <1>3 DEF PublishEnd, PhaseState, Exiting
  <2>3. PendingCalls' = {}
    BY Zenon, <1>0, <1>3 DEF PublishEnd, NoJobOutlivesItsSocket, PendingCalls, Exiting
  <2> QED
    BY <2>1, <2>2, <2>3 DEF EndUnpublished
<1>4. CASE /\ state' = state
           /\ phase' = "closing" => phase \in Up \cup Down \cup {"draining", "closing"}
  BY Zenon, <1>0, <1>4 DEF PhaseState, EndUnpublished
<1> QED
  BY <1>1, <1>2, <1>3, <1>4, WatchStep

\* The state watch is in order: Connecting only after LoggedOn and on the same
\* connection, LoggedOn again only with the next logon, nothing after a terminal
\* state; and no change is shown while a request of the old connection is held.
THEOREM WatchInOrder == Spec => StatesInOrder
<1>1. Init => Watched
  <2> SUFFICES ASSUME Init PROVE Watched
    OBVIOUS
  <2>1. Held
    BY InitHeld
  <2> QED
    BY Zenon, <2>1, InitFinal DEF Watched, Init, EndUnpublished
<1>2. Watched /\ [Next]_vars => Watched'
  BY NextFinal, NextHeld, WatchOrder DEF Watched
<1>3. Watched /\ [Next]_vars =>
        [state' # state =>
          /\ state \in {"LoggedOn", "Connecting"}
          /\ state' = "Connecting" => state = "LoggedOn" /\ connNo' = connNo
          /\ state' = "LoggedOn" => state = "Connecting" /\ connNo' = connNo + 1
          /\ state' \notin {"LoggedOn", "Connecting"} => phase' \in Exiting
          /\ PendingCalls' = {}]_vars
  BY WatchOrder
<1> QED
  BY <1>1, <1>2, <1>3, PTL DEF Spec, StatesInOrder

-----------------------------------------------------------------------------
(* A caller never gets another request's reply.                            *)
(*                                                                         *)
(* A job id ties a request to its reply in five places: the write in       *)
(* progress, the pending table, Steam, the frames on the socket and the    *)
(* inbox.  All of them agree on whose job it is, because an id is handed   *)
(* out once: every id in use is below next_jobid.                          *)

\* Job j was written for call c, and is on record somewhere.
Sent(j, c) ==
    \/ j \in DOMAIN pending /\ pending[j] = c
    \/ [call |-> c, job |-> j] \in owed
    \/ \E i \in DOMAIN inbox : IsReply(inbox[i]) /\ inbox[i].job = j /\ inbox[i].of = c
    \/ \E i \in DOMAIN wire : \E k \in DOMAIN wire[i] :
          IsReply(wire[i][k]) /\ wire[i][k].job = j /\ wire[i][k].of = c

\* Job j is call c's: written, or being written.
Knows(j, c) == cur = [call |-> c, job |-> j] \/ Sent(j, c)

\* Ids in use have been handed out, each to one request.
JobsAgree ==
    \A j \in JobIds, c, d \in Requests :
        Knows(j, c) => j < nextJob /\ (Knows(j, d) => c = d)

\* The inductive invariant behind ReplyMatchesRequest.
Matched == TypeOK /\ JobsAgree /\ ReplyMatchesRequest

\* A step that puts nothing on record and returns no reply.
LEMMA QuietMatched ==
    ASSUME Matched, nextJob' = nextJob,
           \A j \in JobIds, c \in Requests : Knows(j, c)' => Knows(j, c),
           \A c \in Requests : result'[c] = result[c] \/ result'[c].tag # "reply"
    PROVE  JobsAgree' /\ ReplyMatchesRequest'
<1>1. JobsAgree'
  BY DEF Matched, JobsAgree
<1>2. ReplyMatchesRequest'
  BY DEF Matched, ReplyMatchesRequest
<1> QED
  BY <1>1, <1>2

\* A oneshot send of anything but a reply returns no reply.
LEMMA DeliverNoReply ==
    ASSUME NEW r, Deliver(r), \A c \in DOMAIN r : r[c].tag # "reply", NEW c \in Requests
    PROVE  result'[c] = result[c] \/ result'[c].tag # "reply"
BY SMTT(30) DEF Deliver, Calls

\* What is left of the inbox when its first message is gone was on record.
LEMMA RestOfInbox ==
    ASSUME \A i \in DOMAIN inbox' : i + 1 \in DOMAIN inbox /\ inbox'[i] = inbox[i + 1],
           wire' = wire
    PROVE  \A j, c :
              \/ \E i \in DOMAIN inbox' :
                    IsReply(inbox'[i]) /\ inbox'[i].job = j /\ inbox'[i].of = c
              \/ \E i \in DOMAIN wire' : \E k \in DOMAIN wire'[i] :
                    IsReply(wire'[i][k]) /\ wire'[i][k].job = j /\ wire'[i][k].of = c
              => Sent(j, c)
BY SMTT(30) DEF Sent

\* A message taken from the inbox or from the socket was on record there, and
\* what is left was there before.
LEMMA TakeSent ==
    ASSUME TypeOK, HasMessage, TakeMessage
    PROVE  /\ IsReply(NextMessage) => Sent(NextMessage.job, NextMessage.of)
           /\ \A j, c :
                 \/ \E i \in DOMAIN inbox' :
                       IsReply(inbox'[i]) /\ inbox'[i].job = j /\ inbox'[i].of = c
                 \/ \E i \in DOMAIN wire' : \E k \in DOMAIN wire'[i] :
                       IsReply(wire'[i][k]) /\ wire'[i][k].job = j /\ wire'[i][k].of = c
                 => Sent(j, c)
<1>0. inbox \in Seq(Messages) /\ wire \in Seq(Seq(Messages) \ {<<>>})
  BY DEF TypeOK
<1>1. CASE inbox # <<>>
  <2>1. NextMessage = inbox[1] /\ 1 \in DOMAIN inbox /\ inbox' = Tail(inbox) /\ wire' = wire
    BY <1>0, <1>1 DEF NextMessage, TakeMessage
  <2>2. \A i \in DOMAIN inbox' : i + 1 \in DOMAIN inbox /\ inbox'[i] = inbox[i + 1]
    BY <1>0, <1>1, <2>1
  <2>3. IsReply(NextMessage) => Sent(NextMessage.job, NextMessage.of)
    BY ZenonT(30), <2>1 DEF Sent
  <2> QED
    BY Zenon, <2>1, <2>2, <2>3, RestOfInbox
<1>2. CASE inbox = <<>>
  <2> DEFINE Frames == Seq(Messages) \ {<<>>}
  <2>1. /\ wire # <<>> /\ wire \in Seq(Frames)
        /\ inbox' = Tail(Head(wire)) /\ wire' = Tail(wire)
        /\ NextMessage = Head(Head(wire))
    BY <1>0, <1>2 DEF HasMessage, TakeMessage, NextMessage
  <2>2. \A f \in Frames : /\ 1 \in DOMAIN f /\ Head(f) = f[1]
                          /\ \A i \in DOMAIN Tail(f) : i + 1 \in DOMAIN f /\ Tail(f)[i] = f[i + 1]
    OBVIOUS
  <2> HIDE DEF Frames
  <2>3. 1 \in DOMAIN wire /\ Head(wire) = wire[1] /\ wire[1] \in Frames
    BY <2>1
  <2>4. \A i \in DOMAIN wire' : i + 1 \in DOMAIN wire /\ wire'[i] = wire[i + 1]
    BY <2>1
  <2> QED
    BY <2>1, <2>2, <2>3, <2>4 DEF Sent
<1> QED
  BY <1>1, <1>2

\* A step after which every reply on its way was on record before, and that adds
\* no job to the pending table or to what Steam owes.
LEMMA RecordKept ==
    ASSUME \A j \in DOMAIN pending' : j \in DOMAIN pending /\ pending'[j] = pending[j],
           owed' \subseteq owed,
           \A j, c :
              \/ \E i \in DOMAIN inbox' :
                    IsReply(inbox'[i]) /\ inbox'[i].job = j /\ inbox'[i].of = c
              \/ \E i \in DOMAIN wire' : \E k \in DOMAIN wire'[i] :
                    IsReply(wire'[i][k]) /\ wire'[i][k].job = j /\ wire'[i][k].of = c
              => Sent(j, c)
    PROVE  \A j, c : Sent(j, c)' => Sent(j, c)
<1> SUFFICES ASSUME NEW j, NEW c, Sent(j, c)' PROVE Sent(j, c)
  BY Zenon
<1>1. CASE j \in DOMAIN pending' /\ pending'[j] = c
  BY Zenon, <1>1 DEF Sent
<1>2. CASE [call |-> c, job |-> j] \in owed'
  BY Zenon, <1>2 DEF Sent
<1> QED
  BY ZenonT(60), <1>1, <1>2 DEF Sent

\* What is forgotten, or left alone, was on record before.
LEMMA ForgetSent ==
    ASSUME \A j \in DOMAIN pending' : j \in DOMAIN pending /\ pending'[j] = pending[j],
           owed' \subseteq owed,
           inbox' = inbox \/ \A i \in DOMAIN inbox' : ~IsReply(inbox'[i]),
           wire' \in {wire, <<>>}
    PROVE  \A j, c : Sent(j, c)' => Sent(j, c)
<1>1. \A i \in DOMAIN wire' : wire' = wire
  OBVIOUS
<1>2. ASSUME NEW j, NEW c, NEW i \in DOMAIN wire', NEW k \in DOMAIN wire'[i],
             IsReply(wire'[i][k]), wire'[i][k].job = j, wire'[i][k].of = c
      PROVE  Sent(j, c)
  BY Zenon, <1>1, <1>2 DEF Sent
<1>3. ASSUME NEW j, NEW c, NEW i \in DOMAIN inbox',
             IsReply(inbox'[i]), inbox'[i].job = j, inbox'[i].of = c
      PROVE  Sent(j, c)
  BY Zenon, <1>3 DEF Sent
<1> QED
  BY Zenon, <1>2, <1>3, RecordKept

\* Nor does a step that keeps or forgets what every place had on record.
LEMMA ForgetMatched ==
    ASSUME Matched, nextJob' = nextJob,
           cur' \in {cur, NoWrite},
           \A j \in DOMAIN pending' : j \in DOMAIN pending /\ pending'[j] = pending[j],
           owed' \subseteq owed,
           inbox' = inbox \/ \A i \in DOMAIN inbox' : ~IsReply(inbox'[i]),
           wire' \in {wire, <<>>},
           \A c \in Requests : result'[c] = result[c] \/ result'[c].tag # "reply"
    PROVE  JobsAgree' /\ ReplyMatchesRequest'
<1>1. \A j, c : Sent(j, c)' => Sent(j, c)
  BY Zenon, ForgetSent
<1>2. ASSUME NEW j \in JobIds, NEW c \in Requests, cur' = [call |-> c, job |-> j]
      PROVE  cur = cur'
  BY <1>2, CallsAssumption DEF NoWrite, Calls
<1>3. \A j \in JobIds, c \in Requests : Knows(j, c)' => Knows(j, c)
  BY Zenon, <1>1, <1>2 DEF Knows
<1> QED
  BY Zenon, <1>3, QuietMatched

\* At the start nothing is on record.
LEMMA InitSent == Init => \A j, c : ~Sent(j, c)
<1> SUFFICES ASSUME Init, NEW j, NEW c PROVE ~Sent(j, c)
  BY Zenon
<1>1. \A i \in DOMAIN inbox : ~IsReply(inbox[i])
  BY DEF Init, Msg, IsReply
<1>2. DOMAIN pending = {} /\ owed = {} /\ DOMAIN wire = {}
  BY DEF Init, NoneHeld
<1> QED
  BY Zenon, <1>1, <1>2 DEF Sent

\* dispatch hands a reply to the call on record for its job, which is the call
\* Steam's reply is to.
LEMMA DispatchMatched ==
    ASSUME Matched, NEW m \in Messages, Dispatch(m),
           IsReply(m) => Knows(m.job, m.of)
    PROVE  /\ ReplyMatchesRequest'
           /\ \A j \in DOMAIN pending' : j \in DOMAIN pending /\ pending'[j] = pending[j]
<1>1. CASE m.job \notin {0, MaxJobId} /\ m.job \in DOMAIN pending
  <2> DEFINE c == pending[m.job]
             r == [d \in {c} |-> ReplyOf(m.of)]
  <2>1. pending' = [j \in DOMAIN pending \ {m.job} |-> pending[j]] /\ Deliver(r)
    BY <1>1 DEF Dispatch, Restrict
  <2>2. IsReply(m) /\ m.job \in JobIds /\ m.of \in Requests
    BY SMTT(30), <1>1 DEF Messages, IsReply
  <2>3. c \in Requests /\ Knows(m.job, c)
    BY <1>1 DEF Matched, TypeOK, Knows, Sent
  <2>4. m.of = c
    BY SMTT(30), <2>2, <2>3 DEF Matched, JobsAgree
  <2>5. \A d \in Requests : result'[d] = result[d] \/ (d = c /\ result'[d] = ReplyOf(c))
    BY SMTT(30), <2>1, <2>4 DEF Deliver, Calls
  <2>6. ReplyMatchesRequest'
    BY SMTT(30), <2>5 DEF ReplyOf, Matched, ReplyMatchesRequest
  <2> QED
    BY SMTT(30), <2>1, <2>6
<1>2. CASE ~(m.job \notin {0, MaxJobId} /\ m.job \in DOMAIN pending)
  BY <1>2 DEF Dispatch, DeliverNothing, Matched, ReplyMatchesRequest
<1> QED
  BY SMTT(30), <1>1, <1>2

\* Callers put nothing on record.
LEMMA CallerMatched == Matched /\ Caller => JobsAgree' /\ ReplyMatchesRequest'
<1> SUFFICES ASSUME Matched, Caller PROVE JobsAgree' /\ ReplyMatchesRequest'
  OBVIOUS
<1> USE DEF driverVars, netVars, callerVars
<1>1. /\ nextJob' = nextJob /\ cur' = cur /\ pending' = pending
      /\ owed' = owed /\ inbox' = inbox /\ wire' = wire
  BY Zenon DEF Caller, Issue, Enqueue, EnqueueClosed, Cancel, DeadlinePasses, CallerTimeout,
         DropHandles
<1>2. result \in [Calls -> Results]
  BY DEF Matched, TypeOK
<1>3. \A d \in Requests : result'[d] = result[d] \/ result'[d].tag # "reply"
  <2>1. \/ result' = result
        \/ \E c \in Calls : \/ result' = [result EXCEPT ![c] = Outcome("stopped")]
                            \/ result' = [result EXCEPT ![c] = Outcome("timeout")]
    BY Zenon DEF Caller, Issue, Enqueue, EnqueueClosed, Cancel, DeadlinePasses, CallerTimeout,
                 DropHandles, Calls
  <2>2. ASSUME NEW c \in Calls, NEW o, o.tag # "reply", result' = [result EXCEPT ![c] = o],
               NEW d \in Requests
        PROVE  result'[d] = result[d] \/ result'[d].tag # "reply"
    BY <1>2, <2>2 DEF Calls
  <2>3. Outcome("stopped").tag # "reply" /\ Outcome("timeout").tag # "reply"
    BY DEF Outcome
  <2> QED
    BY Zenon, <2>1, <2>2, <2>3
<1> QED
  BY <1>1, <1>3, ForgetMatched

\* Steam replies to a job with the call it knows the job by.
LEMMA EnvironmentMatched == Matched /\ Environment => JobsAgree' /\ ReplyMatchesRequest'
<1> SUFFICES ASSUME Matched, Environment PROVE JobsAgree' /\ ReplyMatchesRequest'
  OBVIOUS
<1> USE DEF driverVars, netVars, callerVars
<1>0. wire \in Seq(Seq(Messages) \ {<<>>})
  BY SMTT(30) DEF Matched, TypeOK
<1>1. ASSUME NEW m \in Messages, Send(m),
             IsReply(m) => Knows(m.job, m.of),
             owed' \subseteq owed, UNCHANGED <<result, nextJob, cur, pending, inbox>>
      PROVE  JobsAgree' /\ ReplyMatchesRequest'
  <2>1. \A i \in DOMAIN wire' : \A k \in DOMAIN wire'[i] :
           \/ wire'[i][k] = m
           \/ i \in DOMAIN wire /\ k \in DOMAIN wire[i] /\ wire'[i][k] = wire[i][k]
    <3>1. CASE wire' = Append(wire, <<m>>)
      BY SMTT(30), <1>0, <3>1
    <3>2. CASE wire # <<>> /\ wire' = [wire EXCEPT ![Len(wire)] = Append(@, m)]
      <4>1. Len(wire) \in DOMAIN wire /\ wire[Len(wire)] \in Seq(Messages)
        BY <1>0, <3>2
      <4>2. \A k \in DOMAIN Append(wire[Len(wire)], m) :
               \/ Append(wire[Len(wire)], m)[k] = m
               \/ /\ k \in DOMAIN wire[Len(wire)]
                  /\ Append(wire[Len(wire)], m)[k] = wire[Len(wire)][k]
        BY <4>1
      <4>3. /\ DOMAIN wire' = DOMAIN wire
            /\ \A i \in DOMAIN wire : wire'[i] = IF i = Len(wire) THEN Append(wire[Len(wire)], m)
                                                                 ELSE wire[i]
        BY <3>2, <4>1
      <4> QED
        BY SMTT(30), <4>1, <4>2, <4>3
    <3> QED
      BY SMTT(30), <1>1, <3>1, <3>2 DEF Send
  <2>2. ASSUME NEW j \in JobIds, NEW c \in Requests, Knows(j, c)' PROVE Knows(j, c)
    <3>1. CASE \E i \in DOMAIN wire' : \E k \in DOMAIN wire'[i] :
                  IsReply(wire'[i][k]) /\ wire'[i][k].job = j /\ wire'[i][k].of = c
      <4>0. PICK i \in DOMAIN wire' : \E k \in DOMAIN wire'[i] :
                  IsReply(wire'[i][k]) /\ wire'[i][k].job = j /\ wire'[i][k].of = c
        BY <3>1
      <4>1. PICK k \in DOMAIN wire'[i] :
                  IsReply(wire'[i][k]) /\ wire'[i][k].job = j /\ wire'[i][k].of = c
        BY <4>0
      <4>2. CASE wire'[i][k] = m
        BY <1>1, <4>1, <4>2
      <4>3. CASE i \in DOMAIN wire /\ k \in DOMAIN wire[i] /\ wire'[i][k] = wire[i][k]
        BY Zenon, <4>1, <4>3 DEF Knows, Sent
      <4> QED
        BY Zenon, <2>1, <4>2, <4>3
    <3> QED
      BY Zenon, <1>1, <2>2, <3>1 DEF Knows, Sent
  <2> QED
    BY SMTT(30), <1>1, <2>2, QuietMatched
<1>2. connNo \in Conns
  BY DEF Matched, TypeOK
<1>3. CASE SteamReplies
  <2>1. PICK w \in owed : Send(Msg("reply", w.job, w.call, connNo)) /\ owed' = owed \ {w}
    BY <1>3 DEF SteamReplies
  <2>2. w.job \in JobIds /\ w.call \in Requests /\ w = [call |-> w.call, job |-> w.job]
    BY SMTT(30) DEF Matched, TypeOK, JobWrites
  <2> DEFINE m == Msg("reply", w.job, w.call, connNo)
  <2>3. m \in Messages /\ m.job = w.job /\ m.of = w.call
    BY SMTT(30), <1>2, <2>2, MsgType DEF Msg
  <2>4. Knows(m.job, m.of)
    BY <2>2, <2>3 DEF Knows, Sent
  <2> HIDE DEF m
  <2>5. Send(m) /\ owed' \subseteq owed
    BY <2>1 DEF m
  <2>6. UNCHANGED <<result, nextJob, cur, pending, inbox>>
    BY <1>3 DEF SteamReplies
  <2> QED
    BY ZenonT(30), <1>1, <2>3, <2>4, <2>5, <2>6
<1>4. ASSUME NEW t \in {"first", "later", "transient", "terminal"},
             Send(Msg(t, 0, None, connNo)),
             UNCHANGED <<owed, result, nextJob, cur, pending, inbox>>
      PROVE  JobsAgree' /\ ReplyMatchesRequest'
  <2> DEFINE m == Msg(t, 0, None, connNo)
  <2>1. m \in Messages
    BY <1>2, MsgType
  <2>2. ~IsReply(m)
    BY DEF Msg, IsReply
  <2> HIDE DEF m
  <2>3. Send(m)
    BY <1>4 DEF m
  <2> QED
    BY SMTT(30), <1>1, <1>4, <2>1, <2>2, <2>3
<1>5. CASE SteamPushes
  <2>1. steam' \in {"first", "later"} /\ Send(Msg(steam', 0, None, connNo))
    BY <1>5 DEF SteamPushes
  <2> QED
    BY SMTT(30), <1>4, <1>5, <2>1 DEF SteamPushes
<1>6. CASE SteamLogsOff
  <2>1. PICK t \in {"transient", "terminal"} : Send(Msg(t, 0, None, connNo))
    BY <1>6 DEF SteamLogsOff
  <2> QED
    BY SMTT(30), <1>4, <1>6, <2>1 DEF SteamLogsOff
<1>7. CASE SocketBreaks \/ SocketStalls \/ SilencePasses
  BY SMTT(30), <1>7, ForgetMatched DEF SocketBreaks, SocketStalls, SilencePasses
<1> QED
  BY SMTT(30), <1>3, <1>5, <1>6, <1>7 DEF Environment

\* A stop forgets every job and returns no reply.
LEMMA StopMatched ==
    ASSUME Matched, NEW why, NEW acked, Stop(why, acked), nextJob' = nextJob
    PROVE  /\ cur' = NoWrite
           /\ \A j \in DOMAIN pending' : j \in DOMAIN pending /\ pending'[j] = pending[j]
           /\ \A c \in Requests : result'[c] = result[c] \/ result'[c].tag # "reply"
<1> DEFINE r == [c \in PendingCalls \cup acked |->
                   Outcome(IF c \in acked THEN "ok" ELSE "stopped")]
<1>1. Deliver(r) /\ cur' = NoWrite /\ pending' = NoneHeld
  BY DEF Stop
<1>2. \A c \in DOMAIN r : r[c].tag # "reply"
  BY DEF Outcome
<1> HIDE DEF r
<1> QED
  BY <1>1, <1>2, DeliverNoReply DEF NoneHeld

\* The driver records a job under its own id, a new one, and forgets it when it
\* is answered.
LEMMA ConnectedMatched ==
    Matched /\ nextJob < MaxJobId /\ Connected => JobsAgree' /\ ReplyMatchesRequest'
<1> SUFFICES ASSUME Matched, nextJob < MaxJobId, Connected
             PROVE  JobsAgree' /\ ReplyMatchesRequest'
  OBVIOUS
<1> USE DEF driverVars, netVars, callerVars
<1>0. TypeOK /\ None \notin Requests
  BY CallsAssumption DEF Matched, Calls
<1>1. CASE RecvCommand
  <2> DEFINE h == Head(queue)
  <2>1. /\ cur' = [call |-> h, job |-> IF h \in Requests THEN nextJob ELSE 0]
        /\ nextJob' = IF h \in Requests THEN NextJobId(nextJob) ELSE nextJob
        /\ UNCHANGED <<result, pending, owed, inbox, wire>>
    BY SMTT(30), <1>1 DEF RecvCommand, JobFor
  <2>2. nextJob \in Nat /\ nextJob' \in Nat /\ nextJob' >= nextJob
    BY SMTT(30), <1>0, <2>1, BoundsAssumption DEF NextJobId, TypeOK, JobIds
  <2>3. h \in Requests => nextJob' = nextJob + 1
    BY SMTT(30), <2>1, <2>2, BoundsAssumption DEF NextJobId
  <2>4. \A j \in JobIds, c \in Requests :
           Knows(j, c)' => Knows(j, c) \/ (c = h /\ j = nextJob /\ h \in Requests)
    BY <2>1 DEF Knows, Sent
  <2>5. JobsAgree'
    <3> HIDE DEF h
    <3> SUFFICES ASSUME NEW j \in JobIds, NEW c \in Requests, NEW d \in Requests, Knows(j, c)'
                 PROVE  j < nextJob' /\ (Knows(j, d)' => c = d)
      BY DEF JobsAgree
    <3>1. j \in Nat
      BY BoundsAssumption DEF JobIds
    <3>2. \A e \in Requests : Knows(j, e) => j < nextJob
      BY DEF Matched, JobsAgree
    <3>3. Knows(j, c) /\ Knows(j, d) => c = d
      BY SMTT(30) DEF Matched, JobsAgree
    <3> QED
      BY SMTT(30), <2>2, <2>3, <2>4, <3>1, <3>2, <3>3
  <2>6. ReplyMatchesRequest'
    BY <2>1 DEF Matched, ReplyMatchesRequest
  <2> QED
    BY SMTT(30), <2>5, <2>6
<1>2. CASE RecvNone
  BY Zenon, <1>2, StopMatched, ForgetMatched DEF RecvNone
<1>3. CASE HeartbeatDue
  BY Zenon, <1>3, ForgetMatched DEF HeartbeatDue
<1>4. CASE WriteOk
  <2>0. UNCHANGED <<nextJob, inbox, wire>>
    BY SMTT(30), <1>4 DEF WriteOk
  <2>1. cur.call \in Requests => cur = [call |-> cur.call, job |-> cur.job]
    BY <1>0 DEF TypeOK, Writes, JobWrites
  <2>2. \A j \in JobIds, c \in Requests :
           [call |-> c, job |-> j] \in owed' => Knows(j, c)
    BY Zenon, <1>4, <2>1 DEF WriteOk, Knows, Sent
  <2>3. ASSUME cur' \in {cur, NoWrite},
               \A j \in DOMAIN pending' :
                  Knows(j, pending'[j]) \/ (j \in DOMAIN pending /\ pending'[j] = pending[j]),
               \A c \in Requests : result'[c] = result[c] \/ result'[c].tag # "reply"
        PROVE  JobsAgree' /\ ReplyMatchesRequest'
    <3>1. ASSUME NEW j \in JobIds, NEW c \in Requests, Sent(j, c)' PROVE Knows(j, c)
      <4>1. CASE j \in DOMAIN pending' /\ pending'[j] = c
        BY Zenon, <2>3, <4>1 DEF Knows, Sent
      <4>2. CASE [call |-> c, job |-> j] \in owed'
        BY Zenon, <2>2, <4>2
      <4>3. CASE Sent(j, c)
        BY Zenon, <4>3 DEF Knows
      <4> QED
        BY Zenon, <2>0, <3>1, <4>1, <4>2, <4>3 DEF Sent
    <3>2. ASSUME NEW j \in JobIds, NEW c \in Requests, cur' = [call |-> c, job |-> j]
          PROVE  cur = [call |-> c, job |-> j]
      <4>1. NoWrite # [call |-> c, job |-> j]
        BY CallsAssumption DEF NoWrite, Calls
      <4> QED
        BY Zenon, <2>3, <3>2, <4>1
    <3>3. \A j \in JobIds, c \in Requests : Knows(j, c)' => Knows(j, c)
      BY Zenon, <3>1, <3>2 DEF Knows
    <3> QED
      BY Zenon, <2>0, <2>3, <3>3, QuietMatched
  <2>4. CASE Stop("LoggedOff", {cur.call})
    BY Zenon, <2>0, <2>3, <2>4, StopMatched
  <2>5. CASE cur' = NoWrite /\ cur.call \in Requests /\ InsertPending
    <3> DEFINE displaced == IF cur.job \in DOMAIN pending THEN {pending[cur.job]} ELSE {}
               r == [c \in displaced |-> Outcome("dropped")]
    <3>1. Deliver(r) /\ \A c \in DOMAIN r : r[c].tag # "reply"
      BY Zenon, <2>5 DEF InsertPending, Outcome
    <3> HIDE DEF r
    <3>2. \A c \in Requests : result'[c] = result[c] \/ result'[c].tag # "reply"
      BY <3>1, DeliverNoReply
    <3>3. \A j \in DOMAIN pending' :
             Knows(j, pending'[j]) \/ (j \in DOMAIN pending /\ pending'[j] = pending[j])
      BY Zenon, <2>1, <2>5 DEF InsertPending, Knows, Sent
    <3> QED
      BY <2>3, <2>5, <3>2, <3>3
  <2>6. CASE /\ cur' = NoWrite
             /\ Deliver([c \in {cur.call} |-> Outcome("ok")])
             /\ UNCHANGED pending
    <3> DEFINE r == [c \in {cur.call} |-> Outcome("ok")]
    <3>1. Deliver(r) /\ \A c \in DOMAIN r : r[c].tag # "reply"
      BY SMTT(30), <2>6 DEF Outcome
    <3> HIDE DEF r
    <3>2. \A c \in Requests : result'[c] = result[c] \/ result'[c].tag # "reply"
      BY <3>1, DeliverNoReply
    <3> QED
      BY SMTT(30), <2>3, <2>6, <3>2
  <2>7. CASE cur' = NoWrite /\ DeliverNothing /\ UNCHANGED pending
    BY SMTT(30), <2>3, <2>7 DEF DeliverNothing
  <2> QED
    BY Zenon, <1>4, <2>4, <2>5, <2>6, <2>7 DEF WriteOk
<1>5. CASE WriteErr
  <2>1. UNCHANGED <<nextJob, inbox, wire, owed>>
    BY SMTT(30), <1>5 DEF WriteErr
  <2>2. CASE Stop("LoggedOff", {cur.call})
    BY <2>1, <2>2, StopMatched, ForgetMatched
  <2>3. CASE /\ Disconnect
             /\ Deliver([c \in {cur.call} \ {None} |-> Outcome("reconnecting")])
    <3> DEFINE r == [c \in {cur.call} \ {None} |-> Outcome("reconnecting")]
    <3>1. Deliver(r) /\ \A c \in DOMAIN r : r[c].tag # "reply"
      BY <2>3 DEF Outcome
    <3> HIDE DEF r
    <3>2. \A c \in Requests : result'[c] = result[c] \/ result'[c].tag # "reply"
      BY <3>1, DeliverNoReply
    <3> QED
      BY Zenon, <2>1, <2>3, <3>2, ForgetMatched DEF Disconnect
  <2> QED
    BY SMTT(30), <1>5, <2>2, <2>3 DEF WriteErr
<1>6. CASE ReadMessage
  <2>1. NextMessage \in Messages /\ (IsReply(NextMessage) => Knows(NextMessage.job, NextMessage.of))
    BY Zenon, <1>0, <1>6, TakeType, TakeSent DEF ReadMessage, Knows
  <2>2. /\ ReplyMatchesRequest'
        /\ \A j \in DOMAIN pending' : j \in DOMAIN pending /\ pending'[j] = pending[j]
    BY Zenon, <1>6, <2>1, DispatchMatched DEF ReadMessage
  <2>3. HasMessage /\ TakeMessage /\ UNCHANGED <<nextJob, cur, owed>>
    BY <1>6 DEF ReadMessage
  <2>4. \A j \in JobIds, c \in Requests : Knows(j, c)' => Knows(j, c)
    <3>1. \A j, c : Sent(j, c)' => Sent(j, c)
      BY Zenon, <1>0, <2>2, <2>3, TakeSent, RecordKept
    <3> QED
      BY Zenon, <2>3, <3>1 DEF Knows
  <2>5. JobsAgree'
    BY SMTT(30), <2>3, <2>4 DEF Matched, JobsAgree
  <2> QED
    BY <2>2, <2>5
<1>7. CASE ReadLogoff
  <2>1. HasMessage /\ TakeMessage /\ UNCHANGED <<nextJob, owed>>
    BY <1>7 DEF ReadLogoff
  <2>2. /\ cur' = NoWrite
        /\ \A j \in DOMAIN pending' : j \in DOMAIN pending /\ pending'[j] = pending[j]
        /\ \A c \in Requests : result'[c] = result[c] \/ result'[c].tag # "reply"
    <3>1. CASE Stop("LoggedOff", {})
      BY SMTT(30), <2>1, <3>1, StopMatched
    <3>2. CASE Disconnect /\ DeliverNothing
      BY <3>2 DEF Disconnect, DeliverNothing
    <3> QED
      BY Zenon, <1>7, <3>1, <3>2 DEF ReadLogoff
  <2>3. \A j \in JobIds, c \in Requests : Knows(j, c)' => Knows(j, c)
    <3>1. \A j, c : Sent(j, c)' => Sent(j, c)
      BY ZenonT(30), <1>0, <2>1, <2>2, TakeSent, RecordKept
    <3>2. ASSUME NEW j \in JobIds, NEW c \in Requests PROVE cur' # [call |-> c, job |-> j]
      BY <2>2, CallsAssumption DEF NoWrite, Calls
    <3> QED
      BY Zenon, <3>1, <3>2 DEF Knows
  <2> QED
    BY SMTT(30), <2>1, <2>2, <2>3, QuietMatched
<1>8. CASE ReadErr \/ SweepIdle \/ ReadControl
  BY Zenon, <1>8, ForgetMatched DEF ReadErr, SweepIdle, ReadControl, Disconnect, DeliverNothing
<1>9. CASE SweepPending
  <2> DEFINE r == [c \in {pending[j] : j \in {i \in DOMAIN pending : ~Keeps(i)}} |->
                     Outcome("timeout")]
  <2>1. Deliver(r) /\ \A c \in DOMAIN r : r[c].tag # "reply"
    BY ZenonT(30), <1>9 DEF SweepPending, Outcome
  <2> HIDE DEF r
  <2>2. \A c \in Requests : result'[c] = result[c] \/ result'[c].tag # "reply"
    BY <2>1, DeliverNoReply
  <2>3. \A j \in DOMAIN pending' : j \in DOMAIN pending /\ pending'[j] = pending[j]
    BY <1>9 DEF SweepPending, RestrictDomain, Restrict
  <2> QED
    BY Zenon, <1>9, <2>2, <2>3, ForgetMatched DEF SweepPending
<1> QED
  BY SMTT(30), <1>1, <1>2, <1>3, <1>4, <1>5, <1>6, <1>7, <1>8, <1>9 DEF Connected

\* A reconnect drains the inbox by the same rule and then forgets every job.
LEMMA ReconnectingMatched ==
    Matched /\ (Reconnecting \/ Teardown) => JobsAgree' /\ ReplyMatchesRequest'
<1> SUFFICES ASSUME Matched, Reconnecting \/ Teardown PROVE JobsAgree' /\ ReplyMatchesRequest'
  OBVIOUS
<1> USE DEF driverVars, netVars, callerVars
<1>0. TypeOK
  BY DEF Matched
<1>1. CASE Drain
  <2>1. inbox \in Seq(Messages) /\ inbox # <<>> /\ inbox' = Tail(inbox)
    BY <1>0, <1>1 DEF Drain, TypeOK
  <2>2. /\ Head(inbox) \in Messages /\ Head(inbox) = inbox[1] /\ 1 \in DOMAIN inbox
        /\ \A i \in DOMAIN inbox' : i + 1 \in DOMAIN inbox /\ inbox'[i] = inbox[i + 1]
    BY <2>1
  <2>3. IsReply(Head(inbox)) => Knows(Head(inbox).job, Head(inbox).of)
    BY Zenon, <2>2 DEF Knows, Sent
  <2>4. /\ ReplyMatchesRequest'
        /\ \A j \in DOMAIN pending' : j \in DOMAIN pending /\ pending'[j] = pending[j]
    BY Zenon, <1>1, <2>2, <2>3, DispatchMatched DEF Drain
  <2>5. \A j \in JobIds, c \in Requests : Knows(j, c)' => Knows(j, c)
    <3>1. UNCHANGED <<cur, owed, wire>>
      BY <1>1 DEF Drain
    <3>2. \A j, c : Sent(j, c)' => Sent(j, c)
      BY Zenon, <2>2, <2>4, <3>1, RestOfInbox, RecordKept
    <3> QED
      BY Zenon, <3>1, <3>2 DEF Knows
  <2>6. JobsAgree'
    BY <1>1, <2>5 DEF Drain, Matched, JobsAgree
  <2> QED
    BY SMTT(30), <2>4, <2>6
<1>2. CASE BeginReconnect
  <2> DEFINE r == [c \in PendingCalls |-> Outcome("reconnecting")]
  <2>1. Deliver(r) /\ \A c \in DOMAIN r : r[c].tag # "reply"
    BY <1>2 DEF BeginReconnect, Outcome
  <2> HIDE DEF r
  <2>2. \A c \in Requests : result'[c] = result[c] \/ result'[c].tag # "reply"
    BY SMTT(30), <2>1, DeliverNoReply
  <2> QED
    BY Zenon, <1>2, <2>2, ForgetMatched DEF BeginReconnect, NoneHeld
<1>3. CASE AnswerWhileDown
  <2> DEFINE c == Head(queue)
  <2>1. UNCHANGED <<nextJob, inbox, wire, owed>>
    BY <1>3 DEF AnswerWhileDown
  <2>2. CASE Stop("LoggedOff", {c})
    BY Zenon, <2>1, <2>2, StopMatched, ForgetMatched
  <2>3. CASE /\ Deliver([d \in {c} |-> Outcome(AnswerDown(c))])
             /\ UNCHANGED <<phase, ending, conn, cur, pending>>
    <3> DEFINE r == [d \in {c} |-> Outcome(AnswerDown(c))]
    <3>1. Deliver(r) /\ \A d \in DOMAIN r : r[d].tag # "reply"
      BY <2>3 DEF Outcome, AnswerDown
    <3> HIDE DEF r
    <3>2. \A d \in Requests : result'[d] = result[d] \/ result'[d].tag # "reply"
      BY <3>1, DeliverNoReply
    <3> QED
      BY Zenon, <2>1, <2>3, <3>2, ForgetMatched
  <2> QED
    BY SMTT(30), <1>3, <2>2, <2>3 DEF AnswerWhileDown
<1>4. CASE NoneWhileDown \/ EstablishRejected
  BY Zenon, <1>4, StopMatched, ForgetMatched DEF NoneWhileDown, EstablishRejected
<1>5. CASE BackoffElapsed \/ EstablishFails \/ PublishEnd
  BY Zenon, <1>5, ForgetMatched DEF BackoffElapsed, EstablishFails, PublishEnd
<1>6. CASE EstablishOk
  <2>1. \A i \in DOMAIN inbox' : ~IsReply(inbox'[i])
    BY <1>6 DEF EstablishOk, FreshLogon, Msg, IsReply
  <2> QED
    BY ZenonT(30), <1>6, <2>1, ForgetMatched DEF EstablishOk, FreshLogon
<1>7. CASE DropDriver
  <2> DEFINE r == [c \in Queued |-> Outcome(IF c \in Logoffs THEN "ok" ELSE "dropped")]
  <2>1. Deliver(r) /\ \A c \in DOMAIN r : r[c].tag # "reply"
    BY Zenon, <1>7 DEF DropDriver, Outcome
  <2> HIDE DEF r
  <2>2. \A c \in Requests : result'[c] = result[c] \/ result'[c].tag # "reply"
    BY <2>1, DeliverNoReply
  <2> QED
    BY Zenon, <1>7, <2>2, ForgetMatched DEF DropDriver
<1> QED
  BY SMTT(30), <1>1, <1>2, <1>3, <1>4, <1>5, <1>6, <1>7 DEF Reconnecting, Teardown

\* No job has been handed out.
LEMMA InitMatched == Init => Matched
<1> SUFFICES ASSUME Init PROVE JobsAgree /\ ReplyMatchesRequest
  BY InitTypeOK DEF Matched
<1>1. None \notin Requests
  BY SMTT(30), CallsAssumption DEF Calls
<1>2. ASSUME NEW j \in JobIds, NEW c \in Requests PROVE cur # [call |-> c, job |-> j]
  BY <1>1 DEF Init, NoWrite
<1>3. JobsAgree
  BY Zenon, <1>2, InitSent DEF JobsAgree, Knows
<1>4. ReplyMatchesRequest
  BY Zenon DEF Init, ReplyMatchesRequest, Outcome, Calls
<1> QED
  BY <1>3, <1>4

\* One step keeps the invariant while there is a job id to hand out.
LEMMA NextMatched == Matched /\ nextJob < MaxJobId /\ [Next]_vars => Matched'
<1> SUFFICES ASSUME Matched, nextJob < MaxJobId, [Next]_vars PROVE Matched'
  OBVIOUS
<1>1. UNCHANGED vars => JobsAgree' /\ ReplyMatchesRequest'
  BY Zenon, ForgetMatched DEF vars, callerVars, driverVars, netVars
<1>2. TypeOK'
  BY SMTT(30), CallerTypeOK, ConnectedTypeOK, ReconnectingTypeOK, EnvironmentTypeOK, StutterTypeOK
     DEF Next, Over, Matched
<1>3. JobsAgree' /\ ReplyMatchesRequest'
  BY <1>1, CallerMatched, ConnectedMatched, ReconnectingMatched, EnvironmentMatched
     DEF Next, Over
<1> QED
  BY <1>2, <1>3 DEF Matched

\* As long as the u64 job counter has not run out, a reply that reaches a
\* caller is Steam's reply to that caller's own request: not to a job that
\* timed out, was abandoned, or was made on an earlier connection.
THEOREM RepliesMatch == Spec /\ [](nextJob < MaxJobId) => []ReplyMatchesRequest
<1>1. Matched => ReplyMatchesRequest
  BY DEF Matched
<1> QED
  BY InitMatched, NextMatched, <1>1, PTL DEF Spec
=============================================================================
