---------------------------- MODULE SessionDriver ----------------------------
(***************************************************************************)
(* The background session driver of src/session/driver.rs and the calls    *)
(* made on its SessionHandle.                                              *)
(*                                                                         *)
(* The driver is one task.  It is either in the select! loop of            *)
(* run_connected ("connected"), awaiting a socket write inside one of its  *)
(* arms ("writing"), dispatching what is left in the inbox after a drop    *)
(* ("draining"), in one of the two waits of reconnect ("backoff",          *)
(* "establishing"), or on its way out: awaiting the bounded Close          *)
(* ("closing"), state published but task not yet dropped ("closed"),       *)
(* gone ("stopped").  Handle calls run on other tasks and interleave with  *)
(* all of these.  A call is one invocation of request, notify or logoff.   *)
(*                                                                         *)
(* Time is abstract: a deadline passes, a timer fires, a silence budget    *)
(* runs out in steps of their own.  A message is a record naming the       *)
(* connection it arrived on and, for a reply, the job it targets.          *)
(***************************************************************************)
EXTENDS Naturals, Sequences, FiniteSets, Functions

CONSTANTS
    Requests,         \* calls of request / request_with_timeout
    Notifies,         \* calls of notify
    Logoffs,          \* calls of logoff
    None,             \* no call: the write in progress is a heartbeat
    CommandCapacity,  \* COMMAND_CAPACITY, depth of the mpsc queue
    MaxJobId,         \* u64::MAX, the largest job id
    MaxConns,         \* bound: connections made; the last one stays up
    MaxWire,          \* bound: frames sent by Steam and not yet read
    MaxMulti,         \* bound: messages batched into one Multi frame
    MaxPush,          \* bound: snapshot messages of a logon, 3 for any number
    MaxCalls          \* bound: calls made

Calls == Requests \cup Notifies \cup Logoffs

ASSUME CallsAssumption ==
    /\ Requests \cap Notifies = {}
    /\ Requests \cap Logoffs = {}
    /\ Notifies \cap Logoffs = {}
    /\ None \notin Calls

ASSUME BoundsAssumption ==
    /\ CommandCapacity \in Nat \ {0}
    /\ MaxJobId \in Nat \ {0}
    /\ MaxConns \in Nat \ {0}
    /\ MaxWire \in Nat \ {0}
    /\ MaxMulti \in Nat \ {0}
    /\ MaxPush \in 0 .. 3

VARIABLES
    \* the callers
    call,      \* per call: idle, sending, waiting, done or gone (cancelled)
    result,    \* per call: what it returned
    expired,   \* requests whose deadline has passed
    open,      \* some SessionHandle clone is alive
    \* the driver
    queue,     \* commands: the mpsc channel
    phase,     \* where the driver task is
    cur,       \* the write in progress: its call and job id
    nextJob,   \* next_jobid
    pending,   \* job id -> call whose reply sender it holds
    inbox,     \* messages unpacked from a Multi, not yet taken
    snapshot,  \* the post-login snapshot cache (one emsg)
    state,     \* the SessionState watch
    ending,    \* the result run() will publish
    events,    \* messages broadcast to subscribers
    idle,      \* no frame for idle_timeout: the watchdog's reading
    \* the socket and Steam
    conn,      \* up, stalled (dead but open), broken, or gone
    connNo,    \* number of the current logon
    wire,      \* frames from Steam, each a non-empty batch of messages
    owed,      \* requests Steam has received and not answered
    steam      \* what Steam last pushed on this logon: new, first, later, off

callerVars == <<call, result, expired, open>>
driverVars == <<queue, phase, cur, nextJob, pending, inbox, snapshot, state,
                ending, events, idle>>
netVars    == <<conn, connNo, wire, owed, steam>>
vars       == <<callerVars, driverVars, netVars>>

-----------------------------------------------------------------------------
(* Values *)

CallStates == {"idle", "sending", "waiting", "done", "gone"}
Phases     == {"connected", "writing", "draining", "backoff", "establishing",
               "closing", "closed", "stopped"}
Up         == {"connected", "writing"}            \* inside run_connected
Down       == {"backoff", "establishing"}         \* inside reconnect
Exiting    == {"closing", "closed", "stopped"}    \* past the loop of run
States     == {"LoggedOn", "Connecting", "LoggedOff", "Failed"}
Tags       == {"none", "reply", "ok", "timeout", "reconnecting", "stopped",
               "dropped"}
JobIds     == 1 .. MaxJobId
Conns      == 1 .. MaxConns

Outcome(tag) == [tag |-> tag, of |-> None]
ReplyOf(c)   == [tag |-> "reply", of |-> c]
Results      == [tag : Tags, of : Requests \cup {None}]

Msg(type, job, c, n) == [type |-> type, job |-> job, of |-> c, conn |-> n]
Messages ==
    [type : {"reply"}, job : JobIds, of : Requests, conn : Conns] \cup
    [type : {"first", "later", "transient", "terminal"}, job : {0}, of : {None},
     conn : Conns]

IsReply(m)    == m.type = "reply"
IsSnapshot(m) == m.type \in {"first", "later"}
IsLogoff(m)   == m.type \in {"transient", "terminal"}

NoSnapshot  == [type |-> "none", conn |-> 0]
NoWrite     == [call |-> None, job |-> 0]
NoneHeld    == [j \in {} |-> None]
Snapshots   == [type : {"none", "first", "later"}, conn : {0} \cup Conns]
JobWrites   == [call : Requests, job : JobIds]
Writes      == JobWrites \cup [call : Notifies \cup Logoffs \cup {None}, job : {0}]

PendingCalls == {pending[j] : j \in DOMAIN pending}
Queued       == {queue[i] : i \in DOMAIN queue}
-----------------------------------------------------------------------------
(* Shared steps *)

\* A oneshot send per entry of r.  It reaches the caller only while the
\* receiver is alive; sending to a closed one is ignored, as in `let _ =`.
Deliver(r) ==
    LET heard(c) == c \in DOMAIN r /\ call[c] = "waiting"
    IN  /\ call' = [c \in Calls |-> IF heard(c) THEN "done" ELSE call[c]]
        /\ result' = [c \in Calls |-> IF heard(c) THEN r[c] ELSE result[c]]

DeliverNothing == UNCHANGED <<call, result>>

\* fault: numbering restarts whenever nothing is in flight
NextJobIdRestarted(j) == IF pending = NoneHeld THEN 1 ELSE j + 1

NextJobId(j) == IF j = MaxJobId THEN 1 ELSE j + 1

\* dispatch: a reply goes to the call holding its job id; anything else is
\* cached if it is the first snapshot, and broadcast.
Dispatch(m) ==
    IF m.job \notin {0, MaxJobId} /\ m.job \in DOMAIN pending
    THEN /\ pending' = Restrict(pending, DOMAIN pending \ {m.job})
         /\ Deliver([c \in {pending[m.job]} |-> ReplyOf(m.of)])
         /\ UNCHANGED <<snapshot, events>>
    ELSE /\ snapshot' = IF IsSnapshot(m) /\ snapshot = NoSnapshot
                        THEN [type |-> m.type, conn |-> m.conn]
                        ELSE snapshot
         /\ events' = events \cup {m}
         /\ DeliverNothing
         /\ UNCHANGED pending

\* LoopExit::Disconnected: the socket is not used again.
Disconnect ==
    /\ phase' = "draining"
    /\ conn' = "gone"
    /\ cur' = NoWrite
    /\ UNCHANGED <<pending, ending>>

\* fault: in-flight requests are left to the drop of the driver
StopHoldingPending(why, acked) ==
    /\ phase' = "closing"
    /\ ending' = why
    /\ conn' = "gone"
    /\ cur' = NoWrite
    /\ Deliver([c \in acked |-> Outcome("ok")])
    /\ UNCHANGED pending

\* Every other way out of the loop of run: fail_all_pending, then the Close.
\* `acked` holds the calls answered on the way out.
Stop(why, acked) ==
    /\ phase' = "closing"
    /\ ending' = why
    /\ conn' = "gone"
    /\ cur' = NoWrite
    /\ pending' = NoneHeld
    /\ Deliver([c \in PendingCalls \cup acked |->
                  Outcome(IF c \in acked THEN "ok" ELSE "stopped")])

-----------------------------------------------------------------------------
(* Callers: SessionHandle::request, notify, logoff *)

Issue(c) ==
    /\ open
    /\ call[c] = "idle"
    /\ Cardinality({d \in Calls : call[d] # "idle"}) < MaxCalls
    /\ call' = [call EXCEPT ![c] = "sending"]
    /\ UNCHANGED <<result, expired, open, driverVars, netVars>>

\* commands.send().await completes: a permit of the bounded channel is free.
Enqueue(c) ==
    /\ call[c] = "sending"
    /\ phase # "stopped"
    /\ Len(queue) < CommandCapacity
    /\ queue' = Append(queue, c)
    /\ call' = [call EXCEPT ![c] = "waiting"]
    /\ UNCHANGED <<result, expired, open, phase, cur, nextJob, pending, inbox,
                   snapshot, state, ending, events, idle, netVars>>

\* commands.send().await fails: the receiver has been dropped.
EnqueueClosed(c) ==
    /\ call[c] = "sending"
    /\ phase = "stopped"
    /\ call' = [call EXCEPT ![c] = "done"]
    /\ result' = [result EXCEPT ![c] = Outcome("stopped")]
    /\ UNCHANGED <<expired, open, driverVars, netVars>>

\* The deadline, computed before the send, passes.
DeadlinePasses(c) ==
    /\ call[c] \in {"sending", "waiting", "gone"}
    /\ c \notin expired
    /\ expired' = expired \cup {c}
    /\ UNCHANGED <<call, result, open, driverVars, netVars>>

\* tokio::time::timeout(timeout, rx): armed after the send, so it fires after
\* the deadline; dropping rx closes the slot.
CallerTimeout(c) ==
    /\ call[c] = "waiting"
    /\ c \in expired
    /\ call' = [call EXCEPT ![c] = "done"]
    /\ result' = [result EXCEPT ![c] = Outcome("timeout")]
    /\ UNCHANGED <<expired, open, driverVars, netVars>>

\* The caller drops its future.
Cancel(c) ==
    /\ call[c] \in {"sending", "waiting"}
    /\ call' = [call EXCEPT ![c] = "gone"]
    /\ UNCHANGED <<result, expired, open, driverVars, netVars>>

\* The last handle clone is dropped; a call in progress borrows one.
DropHandles ==
    /\ open
    /\ \A c \in Calls : call[c] \notin {"sending", "waiting"}
    /\ open' = FALSE
    /\ UNCHANGED <<call, result, expired, driverVars, netVars>>

-----------------------------------------------------------------------------
(* run_connected: the arms of its select! *)

\* Only a request carries a jobid_source.
JobFor(c) == IF c \in Requests THEN nextJob ELSE 0

RecvCommand ==
    /\ phase = "connected"
    /\ queue # <<>>
    /\ cur' = [call |-> Head(queue), job |-> JobFor(Head(queue))]
    /\ nextJob' = IF Head(queue) \in Requests THEN NextJobId(nextJob) ELSE nextJob
    /\ queue' = Tail(queue)
    /\ phase' = "writing"
    /\ UNCHANGED <<callerVars, pending, inbox, snapshot, state, ending, events,
                   idle, netVars>>

\* commands.recv() yields None: every handle is gone and the queue is empty.
RecvNone ==
    /\ phase = "connected"
    /\ ~open
    /\ queue = <<>>
    /\ Stop("LoggedOff", {})
    /\ UNCHANGED <<expired, open, queue, nextJob, inbox, snapshot, state, events,
                   idle, connNo, wire, owed, steam>>

\* The heartbeat timer: a heartbeat frame, then a Ping.
HeartbeatDue ==
    /\ phase = "connected"
    /\ phase' = "writing"
    /\ cur' = NoWrite
    /\ UNCHANGED <<callerVars, queue, nextJob, pending, inbox, snapshot, state,
                   ending, events, idle, netVars>>

\* pending.insert of the request just written: a displaced entry's sender is
\* dropped.
InsertPending ==
    LET displaced == IF cur.job \in DOMAIN pending THEN {pending[cur.job]} ELSE {}
    IN  /\ pending' = [j \in DOMAIN pending \cup {cur.job} |->
                         IF j = cur.job THEN cur.call ELSE pending[j]]
        /\ Deliver([c \in displaced |-> Outcome("dropped")])

\* The write is flushed.  A stalled socket takes it and Steam never sees it.
WriteOk ==
    /\ phase = "writing"
    /\ conn \in {"up", "stalled"}
    /\ owed' = IF conn = "up" /\ cur.call \in Requests THEN owed \cup {cur} ELSE owed
    /\ \/ /\ cur.call \in Logoffs
          /\ Stop("LoggedOff", {cur.call})
       \/ /\ cur.call \notin Logoffs
          /\ phase' = "connected"
          /\ cur' = NoWrite
          /\ \/ /\ cur.call \in Requests
                /\ InsertPending
             \/ /\ cur.call \in Notifies
                /\ Deliver([c \in {cur.call} |-> Outcome("ok")])
                /\ UNCHANGED pending
             \/ /\ cur.call = None
                /\ DeliverNothing
                /\ UNCHANGED pending
          /\ UNCHANGED <<ending, conn>>
    /\ UNCHANGED <<expired, open, queue, nextJob, inbox, snapshot, state, events,
                   idle, connNo, wire, steam>>

\* The write fails.  A logoff is acked all the same; anything else reconnects.
WriteErr ==
    /\ phase = "writing"
    /\ conn = "broken"
    /\ \/ /\ cur.call \in Logoffs
          /\ Stop("LoggedOff", {cur.call})
       \/ /\ cur.call \notin Logoffs
          /\ Disconnect
          /\ Deliver([c \in {cur.call} \ {None} |-> Outcome("reconnecting")])
    /\ UNCHANGED <<expired, open, queue, nextJob, inbox, snapshot, state, events,
                   idle, connNo, wire, owed, steam>>

\* read_message: the inbox first, else the next frame, unpacked into it.
HasMessage == inbox # <<>> \/ wire # <<>>

NextMessage == IF inbox # <<>> THEN Head(inbox) ELSE Head(Head(wire))

TakeMessage ==
    \/ /\ inbox # <<>>
       /\ inbox' = Tail(inbox)
       /\ UNCHANGED <<wire, idle>>
    \/ /\ inbox = <<>>
       /\ inbox' = Tail(Head(wire))
       /\ wire' = Tail(wire)
       /\ idle' = FALSE

ReadMessage ==
    /\ phase = "connected"
    /\ HasMessage
    /\ ~IsLogoff(NextMessage)
    /\ TakeMessage
    /\ Dispatch(NextMessage)
    /\ UNCHANGED <<expired, open, queue, phase, cur, nextJob, state, ending, conn,
                   connNo, owed, steam>>

\* CMsgClientLoggedOff: classify_logoff.
ReadLogoff ==
    /\ phase = "connected"
    /\ HasMessage
    /\ IsLogoff(NextMessage)
    /\ TakeMessage
    /\ \/ /\ NextMessage.type = "transient"
          /\ Disconnect
          /\ DeliverNothing
       \/ /\ NextMessage.type = "terminal"
          /\ Stop("LoggedOff", {})
    /\ UNCHANGED <<expired, open, queue, nextJob, snapshot, state, events, connNo,
                   owed, steam>>

\* read_frame: a Pong or another control frame stamps the clock and is skipped.
ReadControl ==
    /\ phase = "connected"
    /\ inbox = <<>>
    /\ conn = "up"
    /\ idle
    /\ idle' = FALSE
    /\ UNCHANGED <<callerVars, queue, phase, cur, nextJob, pending, inbox, snapshot,
                   state, ending, events, netVars>>

\* The read side fails: closed, reset, or a frame that does not decode.
ReadErr ==
    /\ phase = "connected"
    /\ inbox = <<>>
    /\ conn = "broken"
    /\ Disconnect
    /\ DeliverNothing
    /\ UNCHANGED <<expired, open, queue, nextJob, inbox, snapshot, state, events,
                   idle, connNo, wire, owed, steam>>

\* fault: no watchdog
SweepIdleIgnored == phase = "connected" /\ idle /\ UNCHANGED vars

ReadIdleExpired == idle

\* The sweep timer, watchdog tripped.
SweepIdle ==
    /\ phase = "connected"
    /\ ReadIdleExpired
    /\ Disconnect
    /\ DeliverNothing
    /\ UNCHANGED <<expired, open, queue, nextJob, inbox, snapshot, state, events,
                   idle, connNo, wire, owed, steam>>

\* fault: nothing is reaped
KeepsAll(j) == TRUE

\* sweep_pending keeps an entry while its caller waits and its deadline is ahead.
Keeps(j) == call[pending[j]] = "waiting" /\ pending[j] \notin expired

\* The sweep timer, socket alive: sweep_pending.
SweepPending ==
    /\ phase = "connected"
    /\ ~ReadIdleExpired
    /\ pending' = RestrictDomain(pending, Keeps)
    /\ Deliver([c \in {pending[j] : j \in {i \in DOMAIN pending : ~Keeps(i)}} |->
                  Outcome("timeout")])
    /\ UNCHANGED <<expired, open, queue, phase, cur, nextJob, inbox, snapshot,
                   state, ending, events, idle, netVars>>

-----------------------------------------------------------------------------
(* run: the Disconnected arm, and reconnect *)

\* Messages already unpacked are dispatched before the socket goes away.
Drain ==
    /\ phase = "draining"
    /\ inbox # <<>>
    /\ inbox' = Tail(inbox)
    /\ Dispatch(Head(inbox))
    /\ UNCHANGED <<expired, open, queue, phase, cur, nextJob, state, ending, idle,
                   netVars>>

\* fault: reconnect without draining the inbox
DrainSkipped == TRUE

Drained == inbox = <<>>

\* fault: a dropped socket is shown as the end of the session
DropShownAsEnd == "LoggedOff"

DownState == "Connecting"

\* fail_all_pending("session reconnecting"), publish Connecting, reconnect.
BeginReconnect ==
    /\ phase = "draining"
    /\ Drained
    /\ Deliver([c \in PendingCalls |-> Outcome("reconnecting")])
    /\ pending' = NoneHeld
    /\ state' = DownState
    /\ phase' = "backoff"
    /\ wire' = <<>>
    /\ owed' = {}
    /\ idle' = FALSE
    /\ UNCHANGED <<expired, open, queue, cur, nextJob, inbox, snapshot, ending,
                   events, conn, connNo, steam>>

\* fault: a logoff is acked and forgotten
NeverStops(c) == FALSE

\* answer_while_down: which command ends the reconnect, and what it is told.
StopsWhileDown(c) == c \in Logoffs

\* fault: a notification is acked though nothing was written
AckWhileDown(c) == IF c \in Requests THEN "reconnecting" ELSE "ok"

AnswerDown(c) == IF c \in Logoffs THEN "ok" ELSE "reconnecting"

\* fault: reconnect does not race the command queue
CommandsIgnored == FALSE

\* Both waits of reconnect race the command queue.
AnswerWhileDown ==
    /\ phase \in Down
    /\ queue # <<>>
    /\ queue' = Tail(queue)
    /\ LET c == Head(queue)
       IN  \/ /\ StopsWhileDown(c)
              /\ Stop("LoggedOff", {c})
           \/ /\ ~StopsWhileDown(c)
              /\ Deliver([d \in {c} |-> Outcome(AnswerDown(c))])
              /\ UNCHANGED <<phase, ending, conn, cur, pending>>
    /\ UNCHANGED <<expired, open, nextJob, inbox, snapshot, state, events, idle,
                   connNo, wire, owed, steam>>

\* fault: the closed channel is not noticed
NoneIgnored == phase \in Down /\ ~open /\ UNCHANGED vars

\* answer_while_down(None).
NoneWhileDown ==
    /\ phase \in Down
    /\ ~open
    /\ queue = <<>>
    /\ Stop("LoggedOff", {})
    /\ UNCHANGED <<expired, open, queue, nextJob, inbox, snapshot, state, events,
                   idle, connNo, wire, owed, steam>>

BackoffElapsed ==
    /\ phase = "backoff"
    /\ phase' = "establishing"
    /\ UNCHANGED <<callerVars, queue, cur, nextJob, pending, inbox, snapshot,
                   state, ending, events, idle, netVars>>


\* A logon on a new socket may leave messages that shared the Multi of the
\* logon response in the connection's inbox: here, a first snapshot or none.
FreshLogon(n) ==
    /\ conn' = "up"
    /\ connNo' = n
    /\ wire' = <<>>
    /\ owed' = {}
    /\ idle' = FALSE
    /\ \/ inbox' = <<>> /\ steam' = "new"
       \/ inbox' = <<Msg("first", 0, None, n)>> /\ steam' = "first" /\ MaxPush > 0

\* fault: the cache survives the logon
KeptSnapshot == snapshot

\* The snapshot cache is cleared before LoggedOn is published.
ClearedSnapshot == NoSnapshot

EstablishOk ==
    /\ phase = "establishing"
    /\ connNo < MaxConns
    /\ FreshLogon(connNo + 1)
    /\ snapshot' = ClearedSnapshot
    /\ state' = "LoggedOn"
    /\ phase' = "connected"
    /\ UNCHANGED <<callerVars, queue, cur, nextJob, pending, ending, events>>

\* Error::AuthRejected: the token will not fix itself.
EstablishRejected ==
    /\ phase = "establishing"
    /\ Stop("Failed", {})
    /\ UNCHANGED <<expired, open, queue, nextJob, inbox, snapshot, state, events,
                   idle, connNo, wire, owed, steam>>

\* Any other error: back off (longer, up to MAX_BACKOFF) and try again.
EstablishFails ==
    /\ phase = "establishing"
    /\ phase' = "backoff"
    /\ UNCHANGED <<callerVars, queue, cur, nextJob, pending, inbox, snapshot,
                   state, ending, events, idle, netVars>>

-----------------------------------------------------------------------------
(* run: teardown *)

\* The Close is done or CLOSE_TIMEOUT is up; the terminal state is published.
PublishEnd ==
    /\ phase = "closing"
    /\ phase' = "closed"
    /\ state' = ending
    /\ UNCHANGED <<callerVars, queue, cur, nextJob, pending, inbox, snapshot,
                   ending, events, idle, netVars>>

\* fault: the receiver outlives the task
DropDriverKeepingQueue ==
    /\ phase = "closed"
    /\ phase' = "stopped"
    /\ UNCHANGED <<callerVars, queue, cur, nextJob, pending, inbox, snapshot,
                   state, ending, events, idle, netVars>>

\* The task returns and drops the receiver with every command still queued:
\* their senders are dropped.  logoff() reads that as success.
DropDriver ==
    /\ phase = "closed"
    /\ phase' = "stopped"
    /\ queue' = <<>>
    /\ Deliver([c \in Queued |->
                  Outcome(IF c \in Logoffs THEN "ok" ELSE "dropped")])
    /\ UNCHANGED <<expired, open, cur, nextJob, pending, inbox, snapshot, state,
                   ending, events, idle, netVars>>

-----------------------------------------------------------------------------
(* Steam and the socket: external *)

\* A message leaves as a frame of its own or joins the last frame as a Multi.
Send(m) ==
    \/ /\ Len(wire) < MaxWire
       /\ wire' = Append(wire, <<m>>)
    \/ /\ wire # <<>>
       /\ Len(wire[Len(wire)]) < MaxMulti
       /\ wire' = [wire EXCEPT ![Len(wire)] = Append(@, m)]

SteamTalks == phase \in Up /\ conn = "up" /\ steam # "off"

SteamReplies ==
    /\ SteamTalks
    /\ \E w \in owed : /\ Send(Msg("reply", w.job, w.call, connNo))
                       /\ owed' = owed \ {w}
    /\ UNCHANGED <<callerVars, driverVars, conn, connNo, steam>>

\* Full lists and deltas share an emsg and the driver does not tell them apart:
\* a message is the first of its logon on that emsg, or a later one.
SteamPushes ==
    /\ SteamTalks
    /\ \/ steam = "new" /\ steam' = "first" /\ MaxPush > 0
       \/ steam = "first" /\ steam' = "later" /\ MaxPush > 1
       \/ steam = "later" /\ steam' = "later" /\ MaxPush > 2
    /\ Send(Msg(steam', 0, None, connNo))
    /\ UNCHANGED <<callerVars, driverVars, conn, connNo, owed>>

\* A transient logoff leads to a new connection, so the last one sees none.
SteamLogsOff ==
    /\ SteamTalks
    /\ \E type \in {"transient", "terminal"} :
          /\ type = "transient" => connNo < MaxConns
          /\ Send(Msg(type, 0, None, connNo))
    /\ steam' = "off"
    /\ UNCHANGED <<callerVars, driverVars, conn, connNo, owed>>

SocketBreaks ==
    /\ phase \in Up
    /\ conn \in {"up", "stalled"}
    /\ connNo < MaxConns
    /\ conn' = "broken"
    /\ UNCHANGED <<callerVars, driverVars, connNo, wire, owed, steam>>

SocketStalls ==
    /\ phase \in Up
    /\ conn = "up"
    /\ connNo < MaxConns
    /\ conn' = "stalled"
    /\ UNCHANGED <<callerVars, driverVars, connNo, wire, owed, steam>>

\* idle_timeout passes with no frame read: nothing arrives, or the driver sat
\* in a slow write and read nothing.
SilencePasses ==
    /\ ~idle
    /\ phase \in Up
    /\ connNo < MaxConns
    /\ \/ conn = "stalled" /\ wire = <<>>
       \/ phase = "writing"
    /\ idle' = TRUE
    /\ UNCHANGED <<callerVars, queue, phase, cur, nextJob, pending, inbox,
                   snapshot, state, ending, events, netVars>>

-----------------------------------------------------------------------------
(* Specification *)

\* spawn_session returned: logged on, driver task started.
Init ==
    /\ call = [c \in Calls |-> "idle"]
    /\ result = [c \in Calls |-> Outcome("none")]
    /\ expired = {}
    /\ open = TRUE
    /\ queue = <<>>
    /\ phase = "connected"
    /\ cur = NoWrite
    /\ nextJob = 1
    /\ pending = NoneHeld
    /\ snapshot = NoSnapshot
    /\ state = "LoggedOn"
    /\ ending = "LoggedOn"
    /\ events = {}
    /\ idle = FALSE
    /\ conn = "up"
    /\ connNo = 1
    /\ wire = <<>>
    /\ owed = {}
    /\ \/ inbox = <<>> /\ steam = "new"
       \/ inbox = <<Msg("first", 0, None, 1)>> /\ steam = "first" /\ MaxPush > 0

Caller ==
    \/ \E c \in Calls : Issue(c) \/ Enqueue(c) \/ EnqueueClosed(c) \/ Cancel(c)
    \/ \E c \in Requests : DeadlinePasses(c) \/ CallerTimeout(c)
    \/ DropHandles

Connected ==
    \/ RecvCommand \/ RecvNone \/ HeartbeatDue \/ WriteOk \/ WriteErr
    \/ ReadMessage \/ ReadLogoff \/ ReadControl \/ ReadErr
    \/ SweepIdle \/ SweepPending

Reconnecting ==
    \/ Drain \/ BeginReconnect \/ AnswerWhileDown \/ NoneWhileDown
    \/ BackoffElapsed \/ EstablishOk \/ EstablishRejected \/ EstablishFails

Teardown == PublishEnd \/ DropDriver

Environment ==
    \/ SteamReplies \/ SteamPushes \/ SteamLogsOff
    \/ SocketBreaks \/ SocketStalls \/ SilencePasses

\* The task is gone and so is every handle: nothing is left to happen.
Over == phase = "stopped" /\ ~open /\ UNCHANGED vars

Next == Caller \/ Connected \/ Reconnecting \/ Teardown \/ Environment \/ Over

Spec == Init /\ [][Next]_vars


\* Fairness of the driver task.  select! polls its ready arms in random order,
\* so an arm that keeps becoming ready is taken: strong fairness.  Timers fire
\* and awaits that are bounded by a timeout end: weak fairness.
DriverFairness ==
    /\ SF_vars(RecvCommand \/ RecvNone)
    /\ SF_vars(ReadMessage \/ ReadLogoff \/ ReadErr)
    /\ SF_vars(SweepIdle \/ SweepPending)
    /\ SF_vars(AnswerWhileDown \/ NoneWhileDown)
    /\ WF_vars(Drain \/ BeginReconnect \/ Teardown)

\* A future that can proceed is polled; clocks advance.  The mpsc semaphore
\* hands permits out in order, so a blocked send is not overtaken for ever.
CallerFairness ==
    /\ \A c \in Calls : SF_vars(Enqueue(c)) /\ WF_vars(EnqueueClosed(c))
    /\ \A c \in Requests : WF_vars(DeadlinePasses(c)) /\ WF_vars(CallerTimeout(c))
    /\ WF_vars(SilencePasses)

\* Socket writes end: the kernel takes the frame or reports the failure.
FairSpec == /\ Spec
            /\ DriverFairness
            /\ CallerFairness
            /\ WF_vars(WriteOk \/ WriteErr)

\* Writes on a dead-but-open socket may never end: "a half-open proxy exit can
\* leave the flush pending forever" (the comment on CLOSE_TIMEOUT).
HungWriteSpec == /\ Spec
                 /\ DriverFairness
                 /\ CallerFairness
                 /\ WF_vars((WriteOk \/ WriteErr) /\ conn # "stalled")

-----------------------------------------------------------------------------
(* Properties *)

\* Type correctness of every variable.
TypeOK ==
    /\ call \in [Calls -> CallStates]
    /\ result \in [Calls -> Results]
    /\ expired \subseteq Requests
    /\ open \in BOOLEAN
    /\ queue \in Seq(Calls)
    /\ phase \in Phases
    /\ cur \in Writes
    /\ nextJob \in JobIds
    /\ DOMAIN pending \subseteq JobIds
    /\ pending \in [DOMAIN pending -> Requests]
    /\ inbox \in Seq(Messages)
    /\ snapshot \in Snapshots
    /\ state \in States
    /\ ending \in States
    /\ events \subseteq Messages
    /\ idle \in BOOLEAN
    /\ conn \in {"up", "stalled", "broken", "gone"}
    /\ connNo \in Conns
    /\ wire \in Seq(Seq(Messages) \ {<<>>})
    /\ owed \subseteq JobWrites
    /\ steam \in {"new", "first", "later", "off"}

\* A caller that is waiting can still be answered: its oneshot sender is held
\* by the command queue, by the write in progress or by the pending table.
\* Whatever the driver drops or fails on its many ways out, no caller is
\* forgotten; once the task is gone, none is waiting.
NoCallerStranded ==
    \A c \in Calls : call[c] = "waiting" =>
        /\ phase # "stopped"
        /\ \/ c \in Queued
           \/ phase = "writing" /\ cur.call = c
           \/ c \in PendingCalls

\* The pending table belongs to one connection: past the Disconnected arm, and
\* on the way out, no job is held open.  A new logon starts with none.
NoJobOutlivesItsSocket ==
    phase \in Down \cup Exiting => PendingCalls = {}

\* A reply that reaches a caller is Steam's reply to that caller's request,
\* never the late reply to an earlier, timed out or abandoned job.
ReplyMatchesRequest ==
    \A c \in Requests : result[c].tag = "reply" => result[c].of = c

\* A reply already unpacked from a Multi reaches its caller even if the socket
\* fails before the driver gets to it: that request is not failed with
\* "session reconnecting".
UnpackedReplyIsDelivered ==
    [][\A i \in DOMAIN inbox :
          LET c == inbox[i].of
          IN  IsReply(inbox[i]) /\ call[c] = "waiting" /\ call'[c] = "done"
                => result'[c].tag # "reconnecting"]_vars

\* While the session is logged on the cache holds nothing but the first snapshot
\* message Steam sent on this very logon, full list or delta: none of an earlier
\* logon, and none that came later.  If it is empty then no snapshot of this logon
\* has been broadcast, so that subscribing and then reading misses nothing.
SnapshotIsCurrent ==
    state = "LoggedOn" =>
        /\ snapshot # NoSnapshot => snapshot = [type |-> "first", conn |-> connNo]
        /\ snapshot = NoSnapshot => \A m \in events : IsSnapshot(m) => m.conn < connNo

\* Once logoff() has been answered the session never comes back: the driver is
\* past its loop, and what it will publish or has published is terminal.
LogoffIsFinal ==
    (\E c \in Logoffs : result[c].tag = "ok") =>
        phase \in Exiting /\ ending \in {"LoggedOff", "Failed"}

\* What a state watcher is shown: after LoggedOn a drop shows Connecting and only
\* a new logon shows LoggedOn again; a terminal state is the last one; and at
\* each change no request sent on the connection before it is still held.
StatesInOrder ==
    [][state' # state =>
          /\ state \in {"LoggedOn", "Connecting"}
          /\ state' = "Connecting" => state = "LoggedOn" /\ connNo' = connNo
          /\ state' = "LoggedOn" => state = "Connecting" /\ connNo' = connNo + 1
          /\ state' \notin {"LoggedOn", "Connecting"} => phase' \in Exiting
          /\ PendingCalls' = {}]_vars

\* A terminal CMsgClientLoggedOff that has been unpacked into the inbox ends the
\* session: it does not leave the inbox without the driver leaving its loop.
TerminalLogoffEnds ==
    [][(\E i \in DOMAIN inbox : inbox[i].type = "terminal")
       => \/ \E i \in DOMAIN inbox' : inbox'[i].type = "terminal"
          \/ phase' = "closing"]_vars

\* Every call accepted by the driver is answered, whatever happens to the
\* socket, unless its caller gave up on it.
CallsComplete ==
    \A c \in Calls : call[c] = "waiting" ~> call[c] \in {"done", "gone"}

\* A request abandoned by its caller or past its deadline gives its slot back.
SlotsReleased ==
    \A c \in Requests : (c \in PendingCalls /\ (call[c] # "waiting" \/ c \in expired))
                            ~> c \notin PendingCalls

\* A logoff the driver has accepted ends the session, whether or not its
\* caller is still waiting for the answer.
LogoffStops ==
    \A c \in Logoffs : call[c] = "waiting" ~> phase = "stopped"

\* When the last handle is dropped the driver stops, mid-reconnect or not.
DroppedHandlesStop == ~open ~> phase = "stopped"

\* The watchdog: a dead-but-open socket is left behind.
StalledSocketIsLeft == conn = "stalled" ~> conn # "stalled"

\* A request gives up at its timeout, from the moment it is made.
RequestGivesUp ==
    \A c \in Requests : call[c] = "sending" ~> call[c] \in {"done", "gone"}

-----------------------------------------------------------------------------
(* The contract *)

\* What the driver is doing, as SessionContract sees it.
Condition ==
    IF phase \in Exiting THEN "ended"
    ELSE IF state = "Connecting" THEN "recovering" ELSE "serving"

Contract == INSTANCE SessionContract WITH session <- Condition

\* The driver keeps the contract: every call is answered at most once, with an
\* answer its kind may get from a session in that condition; no reply comes
\* out of a reconnect and no call is turned away before the driver has ended.
ImplementsContract == Contract!Spec

=============================================================================
