-------------------------------- MODULE GcPump --------------------------------
(***************************************************************************)
(* A Game Coordinator riding on a session (gc/coordinator.rs, cs2.rs):     *)
(* attach() and its eager launch, the pump task's select! loop, and the    *)
(* requests that share its events.  The session is what SessionHandle      *)
(* shows of it: a state watch, a broadcast of messages, and notify(),      *)
(* which fails mid-reconnect.  Steam and the GC are the environment.       *)
(***************************************************************************)
EXTENDS Integers, Sequences, FiniteSets

CONSTANTS Requests,   \* requests for a profile, each of an account of its own
          Plain,      \* those made with request(), which takes any reply
          MaxHello,   \* MAX_HELLO_ATTEMPTS
          Depth,      \* a subscriber's buffer (EVENT_CAPACITY, GC_EVENT_CAPACITY)
          MaxEpoch,   \* bound: logons of the session
          MaxIgnored, \* bound: hellos the GC leaves unanswered
          MaxLosses,  \* bound: times the GC drops our session
          MaxNoise,   \* bound: other messages Steam broadcasts
          MaxProfiles \* bound: profiles in one message

ASSUME DepthAssumption == Depth \in Nat \ {0}

\* A request is none of the other things a message may name or a caller be told.
ASSUME RequestsAssumption ==
    Requests \cap {"none", "WebSocket", "Timeout", "Codec", "Network", "reply"} = {}

VARIABLES epoch, up, alive, version,         \* the session and its state watch
          announced, hello, gcOn,            \* Steam and the GC
          asked, ignored, losses, noise,
          attach, pump, seen, ready, helloAttempts, events,
          req, result, queue,
          forwarded, lagged                  \* history, per request
session == <<epoch, up, alive, version>>
gc == <<announced, hello, gcOn, asked, ignored, losses, noise>>
pumpVars == <<pump, seen, ready, helloAttempts>>
reqVars == <<req, result, queue, forwarded, lagged>>
vars == <<session, gc, attach, pumpVars, events, reqVars>>

\* attach() runs on a session that is up or reconnecting; the watch it clones
\* has seen only the session's first state, so a session that reconnected
\* before has a change pending.
Init == /\ epoch = 1 /\ up \in BOOLEAN /\ alive = TRUE /\ version = 1
        /\ announced = 0 /\ hello = 0 /\ gcOn = FALSE
        /\ asked = {} /\ ignored = 0 /\ losses = 0 /\ noise = 0
        /\ attach = "announce"
        /\ pump = "select" /\ seen \in (IF up THEN {0, 1} ELSE {0})
        /\ ready = FALSE /\ helloAttempts = 0
        /\ events = <<>>
        /\ req = [r \in Requests |-> "idle"]
        /\ result = [r \in Requests |-> "none"]
        /\ queue = [r \in Requests |-> <<>>]
        /\ forwarded = {} /\ lagged = {}

\* broadcast::send: a full buffer loses its oldest message (Lagged).
Push(q, m) == Append(IF Len(q) < Depth THEN q ELSE Tail(q), m)

\* A message of the GC; a PlayersProfile holds profiles, here their accounts.
Msg(kind, profiles) == [kind |-> kind, profiles |-> profiles]
Holds(m, r) == \E i \in DOMAIN m.profiles : m.profiles[i] = r

\* Steam's message reaches the pump's subscription while the pump runs.
Broadcast(m) == events' = IF pump = "stopped" THEN events ELSE Push(events, m)

-----------------------------------------------------------------------------
\* The session, as its handle shows it.
Drop == /\ alive /\ up /\ epoch < MaxEpoch
        /\ up' = FALSE /\ version' = version + 1
        /\ hello' = 0 /\ gcOn' = FALSE /\ asked' = {}
        /\ UNCHANGED <<epoch, alive, announced, ignored, losses, noise,
                       attach, pumpVars, events, reqVars>>
Relogon == /\ alive /\ ~up
           /\ up' = TRUE /\ epoch' = epoch + 1 /\ version' = version + 1
           /\ UNCHANGED <<alive, gc, attach, pumpVars, events, reqVars>>
End == /\ alive
       /\ alive' = FALSE /\ up' = FALSE /\ version' = version + 1
       /\ hello' = 0 /\ gcOn' = FALSE /\ asked' = {}
       /\ UNCHANGED <<epoch, announced, ignored, losses, noise, attach,
                      pumpVars, events, reqVars>>

\* The GC answers a hello once Steam routes the app's traffic, or ignores it.
Welcome == /\ up /\ hello > 0 /\ announced = epoch
           /\ hello' = hello - 1 /\ gcOn' = TRUE
           /\ Broadcast(Msg("welcome", <<>>))
           /\ UNCHANGED <<session, announced, asked, ignored, losses, noise, attach,
                          pumpVars, reqVars>>
IgnoreHello == /\ hello > 0
               /\ \/ announced # epoch /\ UNCHANGED ignored
                  \/ ignored < MaxIgnored /\ ignored' = ignored + 1
               /\ hello' = hello - 1
               /\ UNCHANGED <<session, announced, gcOn, asked, losses, noise,
                              attach, pumpVars, events, reqVars>>
LoseSession == /\ gcOn /\ losses < MaxLosses
               /\ gcOn' = FALSE /\ losses' = losses + 1
               /\ Broadcast(Msg("noSession", <<>>))
               /\ UNCHANGED <<session, announced, hello, asked, ignored, noise,
                              attach, pumpVars, reqVars>>
\* The GC answers with the account's profile, with none for an unknown account or
\* with others beside it or in its place, or with a body that does not decode.
Reply(r) == /\ r \in asked /\ gcOn
            /\ asked' = asked \ {r}
            /\ \/ \E n \in 0 .. MaxProfiles : \E ps \in [1 .. n -> Requests] :
                    Broadcast(Msg("reply", ps))
               \/ Broadcast(Msg("garbled", <<>>))
            /\ UNCHANGED <<session, announced, hello, gcOn, ignored, losses,
                           noise, attach, pumpVars, reqVars>>
Noise == /\ up /\ noise < MaxNoise
         /\ noise' = noise + 1
         /\ Broadcast(Msg("other", <<>>))
         /\ UNCHANGED <<session, announced, hello, gcOn, asked, ignored,
                        losses, attach, pumpVars, reqVars>>

-----------------------------------------------------------------------------
\* launch(): games_played, then the hello; the first failing notify ends it.
Notified(what) ==
    IF what = "announce" THEN announced' = epoch /\ UNCHANGED hello
                         ELSE hello' = hello + 1 /\ UNCHANGED announced

AttachLaunch ==
    /\ attach \in {"announce", "greet"}
    /\ IF up
       THEN /\ Notified(attach)
            /\ attach' = IF attach = "announce" THEN "greet" ELSE "ok"
       ELSE attach' = "failed" /\ UNCHANGED <<announced, hello>>
    /\ UNCHANGED <<session, gcOn, asked, ignored, losses, noise, pumpVars,
                   events, reqVars>>

Attached == attach \in {"announce", "greet", "ok"}

\* The last clone goes, or the attach() future is dropped.
DropCoordinator ==
    /\ Attached /\ \A r \in Requests : req[r] \in {"idle", "done"}
    /\ attach' = "dropped"
    /\ UNCHANGED <<session, gc, pumpVars, events, reqVars>>

\* fault: a launch that fails is taken for one that happened
LaunchOnce ==
    /\ pump = "announce"
    /\ pump' = "select"
    /\ IF up /\ announced = 0 THEN Notified("announce") ELSE UNCHANGED <<announced, hello>>
    /\ UNCHANGED <<session, gcOn, asked, ignored, losses, noise, attach, seen,
                   ready, helloAttempts, events, reqVars>>
PumpAnnounce ==
    /\ pump = "announce"
    /\ IF up THEN Notified("announce") /\ pump' = "greet"
             ELSE pump' = "select" /\ UNCHANGED <<announced, hello>>
    /\ UNCHANGED <<session, gcOn, asked, ignored, losses, noise, attach, seen,
                   ready, helloAttempts, events, reqVars>>
\* The hello of a launch or of a tick.  The driver's command queue is first in,
\* first out: attach() put its announce in when it spawned the pump, so a tick's
\* hello, an interval later, is written behind it.
PumpGreet ==
    /\ pump = "greet" \/ (pump = "retry" /\ attach # "announce")
    /\ IF up THEN Notified("greet") ELSE UNCHANGED <<announced, hello>>
    /\ pump' = "select"
    /\ UNCHANGED <<session, gcOn, asked, ignored, losses, noise, attach, seen,
                   ready, helloAttempts, events, reqVars>>

-----------------------------------------------------------------------------
\* The pump's select! arms.
\* fault: the pump only ends with the session
ReadyClosedLate == /\ pump = "select" /\ ~Attached /\ ~alive
                   /\ pump' = "stopped"
                   /\ UNCHANGED <<session, gc, attach, seen, ready, helloAttempts,
                                  events, reqVars>>
ReadyClosed == /\ pump = "select" /\ ~Attached
               /\ pump' = "stopped"
               /\ UNCHANGED <<session, gc, attach, seen, ready, helloAttempts, events,
                              reqVars>>

\* changed() marks the version it woke for; borrow() reads the latest state,
\* which may be newer: then the arm runs again.
StateChanged ==
    /\ pump = "select" /\ seen < version
    /\ \E v \in (seen + 1)..version : seen' = v
    /\ ready' = FALSE /\ helloAttempts' = 0
    /\ pump' = IF up THEN "announce" ELSE "select"
    /\ UNCHANGED <<session, gc, attach, events, reqVars>>

SessionGone == /\ pump = "select" /\ ~alive /\ seen = version
               /\ pump' = "stopped"
               /\ UNCHANGED <<session, gc, attach, seen, ready, helloAttempts, events,
                              reqVars>>

\* The first tick fires one interval after the spawn, even if attach() still
\* awaits its launch.
HelloTick ==
    /\ pump = "select" /\ ~ready /\ helloAttempts < MaxHello
    /\ helloAttempts' = helloAttempts + 1 /\ pump' = "retry"
    /\ UNCHANGED <<session, gc, attach, seen, ready, events, reqVars>>

\* fault: losing the GC session leaves the hello budget as it was
OnMessageNoRearm(m) ==
    CASE m.kind = "welcome" -> ready' = TRUE /\ UNCHANGED helloAttempts
      [] m.kind = "noSession" -> ready' = FALSE /\ UNCHANGED helloAttempts
      [] OTHER -> UNCHANGED <<ready, helloAttempts>>
\* What a message of the GC does to readiness (has_gc_session included).
OnMessage(m) ==
    CASE m.kind = "welcome" -> ready' = TRUE /\ UNCHANGED helloAttempts
      [] m.kind = "noSession" -> ready' = FALSE /\ helloAttempts' = 0
      [] OTHER -> UNCHANGED <<ready, helloAttempts>>

\* History: the requests on their way, written or answered already.
Out == {r \in Requests : req[r] \in {"ack", "wait"}}
Subscribed == {r \in Requests : req[r] \in {"send", "ack", "wait"}}

\* events_out.send: every subscribed request gets the message; other traffic of
\* the session is not forwarded.
Forward(m) ==
    IF m.kind = "other" THEN UNCHANGED <<queue, forwarded, lagged>>
    ELSE /\ queue' = [r \in Requests |->
                        IF r \in Subscribed THEN Push(queue[r], m) ELSE queue[r]]
         /\ forwarded' = forwarded \union {r \in Out : Holds(m, r)}
         /\ lagged' = lagged \union {r \in Subscribed : Len(queue[r]) = Depth}

Recv == /\ pump = "select" /\ events # <<>>
        /\ events' = Tail(events)
        /\ OnMessage(Head(events)) /\ Forward(Head(events))
        /\ UNCHANGED <<session, gc, attach, pump, seen, req, result>>

-----------------------------------------------------------------------------
\* request_matching(), as cs2::request_player_profile uses it.
Begin(r) == /\ req[r] = "idle" /\ attach = "ok"
            /\ req' = [req EXCEPT ![r] = "ready"]
            /\ UNCHANGED <<session, gc, attach, pumpVars, events, result, queue,
                           forwarded, lagged>>

Finish(r, res) == req' = [req EXCEPT ![r] = "done"] /\ result' = [result EXCEPT ![r] = res]

\* wait_ready() resolves on a ready watch, fails when the pump is gone, and
\* times out only if neither can be seen (the inner future is polled first);
\* then the request subscribes.
WaitReady(r) ==
    /\ req[r] = "ready"
    /\ \/ ready /\ req' = [req EXCEPT ![r] = "send"] /\ UNCHANGED result
       \/ ~ready /\ Finish(r, IF pump = "stopped" THEN "WebSocket" ELSE "Timeout")
    /\ UNCHANGED <<session, gc, attach, pumpVars, events, queue, forwarded, lagged>>

\* send(): the frame is written, or the session is not up.
Send(r) ==
    /\ req[r] = "send"
    /\ IF up THEN req' = [req EXCEPT ![r] = "ack"] /\ UNCHANGED result
             ELSE Finish(r, "WebSocket")
    /\ asked' = IF up THEN asked \union {r} ELSE asked
    /\ UNCHANGED <<session, announced, hello, gcOn, ignored, losses, noise,
                   attach, pumpVars, events, queue, forwarded, lagged>>

\* fault: the subscription is made when the request has been sent
SentThenSubscribe(r) ==
    /\ req[r] = "ack"
    /\ req' = [req EXCEPT ![r] = "wait"]
    /\ queue' = [queue EXCEPT ![r] = <<>>]
    /\ UNCHANGED <<session, gc, attach, pumpVars, events, result, forwarded, lagged>>

\* notify() returns; the GC's answer may have come before.
Sent(r) ==
    /\ req[r] = "ack"
    /\ req' = [req EXCEPT ![r] = "wait"]
    /\ UNCHANGED <<session, gc, attach, pumpVars, events, result, queue, forwarded,
                   lagged>>

\* The filter: request() takes every reply, request_player_profile one in which
\* any profile is of its account.
Accept(r, m) == m.kind = "reply" /\ (r \in Plain \/ Holds(m, r))

\* fault: the first profile of the accepted message, whoever it is of
First(r, m) == m.profiles[1]
\* The profile request_player_profile then looks up in the accepted message.
Find(r, m) ==
    LET mine == {i \in DOMAIN m.profiles : m.profiles[i] = r}
    IN  IF mine = {} THEN "Network"
        ELSE m.profiles[CHOOSE i \in mine : \A k \in mine : i <= k]

\* The next message of the response type: it ends the request if it does not
\* decode or is accepted.
RecvReply(r) ==
    /\ req[r] = "wait" /\ queue[r] # <<>>
    /\ LET m == Head(queue[r]) IN
        /\ queue' = [queue EXCEPT ![r] = Tail(@)]
        /\ CASE m.kind = "garbled" -> Finish(r, "Codec")
             [] Accept(r, m) -> Finish(r, IF r \in Plain THEN "reply" ELSE Find(r, m))
             [] OTHER -> UNCHANGED <<req, result>>
    /\ UNCHANGED <<session, gc, attach, pumpVars, events, forwarded, lagged>>

\* The budget runs out with nothing to read.  The coordinator's own sender keeps
\* the channel open, so the end of the pump is not seen here.
ReplyTimeout(r) ==
    /\ req[r] = "wait" /\ queue[r] = <<>>
    /\ Finish(r, "Timeout")
    /\ UNCHANGED <<session, gc, attach, pumpVars, events, queue, forwarded, lagged>>

Idle == pump = "stopped" /\ UNCHANGED vars

Env == Drop \/ Relogon \/ End \/ Welcome \/ IgnoreHello \/ LoseSession \/ Noise
Pump == \/ PumpAnnounce \/ PumpGreet \/ ReadyClosed \/ StateChanged \/ SessionGone
        \/ HelloTick \/ Recv
Request(r) == \/ Begin(r) \/ WaitReady(r) \/ Send(r) \/ Sent(r)
              \/ RecvReply(r) \/ ReplyTimeout(r)

Next == \/ Env \/ AttachLaunch \/ DropCoordinator \/ Pump
        \/ \E r \in Requests : Reply(r) \/ Request(r)
        \/ Idle

\* Every select! arm that stays ready is eventually chosen, also when other
\* arms are ready again and again; notify() is answered; the GC answers a hello
\* it has not ignored.
Fairness == /\ WF_vars(PumpAnnounce) /\ WF_vars(PumpGreet)
            /\ SF_vars(ReadyClosed) /\ SF_vars(StateChanged \/ SessionGone)
            /\ SF_vars(HelloTick) /\ SF_vars(Recv)
            /\ WF_vars(AttachLaunch) /\ WF_vars(Welcome)
            /\ WF_vars(Relogon)
Spec == Init /\ [][Next]_vars
FairSpec == Spec /\ Fairness

-----------------------------------------------------------------------------
\* A profile that reaches a caller of request_player_profile is of the account it
\* asked for, whatever replies of concurrent or earlier requests pass through the
\* shared events and however many profiles one holds; and an accepted reply is
\* never found to be without it.
ReplyIsMine ==
    \A r \in Requests \ Plain :
        /\ result[r] \in Requests => result[r] = r
        /\ result[r] # "Network"

\* A reply the pump forwards while its request is on its way is there to be read,
\* even if it overtakes the return of send(), and the request does not time out:
\* unless the request's buffer overflowed.
FastReplyIsSeen ==
    \A r \in forwarded \ lagged :
        /\ req[r] \in {"ack", "wait"} => \E i \in DOMAIN queue[r] : Holds(queue[r][i], r)
        /\ result[r] # "Timeout"

\* The coordinator is announced on every logon that lasts: Steam forgets it on
\* each reconnect, and the pump's launch may fail or be coalesced away.
Reannounced == <>[](up /\ Attached) => <>[](announced = epoch)

\* Readiness comes back after reconnects, ignored hellos and lost GC sessions.
ReadyAgain == <>[](up /\ Attached) => <>[]ready

\* The pump, and the session handle it holds, go when the last coordinator or
\* the session does, a failed attach() included.
PumpStops == (~Attached \/ ~alive) ~> (pump = "stopped")
=============================================================================
