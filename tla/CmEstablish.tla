----------------------------- MODULE CmEstablish -----------------------------
(***************************************************************************)
(* Bringing a session up: directory lookup (discovery.rs), the loop over   *)
(* the listed servers and the logon exchange (connection.rs), and the      *)
(* rounds with backoff around it (establish_resilient in driver.rs).       *)
(* Each layer returns to the next one through ret.  A timer may fire at    *)
(* any moment relative to the peer, so it is an action without a clock.    *)
(***************************************************************************)
EXTENDS Integers, Sequences, EResult

CONSTANTS InitialAttempts,    \* INITIAL_CONNECT_ATTEMPTS
          MaxConnectAttempts, \* MAX_CONNECT_ATTEMPTS
          MaxBackoff,         \* MAX_BACKOFF, in seconds
          Listings,           \* server lists the directory may publish
          Frames              \* what one WebSocket frame may unpack to

ASSUME EstablishAssumption ==
    /\ InitialAttempts \in Nat \ {0} /\ MaxConnectAttempts \in Nat \ {0}
    /\ MaxBackoff \in Nat \ {0}
    /\ Frames \subseteq Seq([emsg : STRING, eresult : Nat, heartbeat : Seq(Int)])

DefaultHeartbeat == 9
NoErr == "none"

VARIABLES pc,        \* where the call is
          attempt,   \* round of establish_resilient
          backoff,   \* the next pause, in seconds
          servers,   \* the websocket servers of this round
          tried,     \* how many of them were tried
          inbox,     \* unpacked messages not yet looked at
          ret,       \* what the inner call returned
          lastErr,   \* establish()'s last_err
          heartbeat, \* LoggedOn.heartbeat_interval
          said,      \* history: Steam's verdicts
          frame,     \* history: the frame inbox was unpacked from
          latest     \* history: why the latest attempt or lookup failed
history == <<said, frame, latest>>
vars == <<pc, attempt, backoff, servers, tried, inbox, ret, lastErr, heartbeat,
          history>>

Init == /\ pc = "discover" /\ attempt = 1 /\ backoff = 1
        /\ servers = <<>> /\ tried = 0 /\ inbox = <<>>
        /\ ret = NoErr /\ lastErr = NoErr /\ heartbeat = 0
        /\ said = {} /\ frame = <<>> /\ latest = NoErr

-----------------------------------------------------------------------------
\* A directory entry is only its type here; the field may be missing.
IsWebSocket(kind) == kind \in {"missing", "websockets"}
parse_servers(list) == SelectSeq(list, IsWebSocket)

ASSUME ListingsAssumption == \A list \in Listings : parse_servers(list) \in Seq(STRING)

\* The lookup fails (client, transport, status, body) or lists nothing usable.
DiscoverFails ==
    /\ pc = "discover"
    /\ pc' = "returned" /\ ret' = "Network" /\ latest' = "Network"
    /\ UNCHANGED <<attempt, backoff, servers, tried, inbox, lastErr, heartbeat,
                   said, frame>>

discover_cm_servers ==
    /\ pc = "discover"
    /\ \E list \in Listings :
        /\ parse_servers(list) # <<>>
        /\ servers' = parse_servers(list)
    /\ pc' = "next" /\ tried' = 0 /\ lastErr' = NoErr
    /\ UNCHANGED <<attempt, backoff, inbox, ret, heartbeat, history>>

-----------------------------------------------------------------------------
\* establish(): one attempt per server, at most MAX_CONNECT_ATTEMPTS of them.
Exhausted == tried >= Len(servers) \/ tried >= MaxConnectAttempts

StartAttempt ==
    /\ pc = "next" /\ ~Exhausted
    /\ pc' = "opening" /\ tried' = tried + 1
    /\ UNCHANGED <<attempt, backoff, servers, inbox, ret, lastErr, heartbeat,
                   history>>

GiveUpRound ==
    /\ pc = "next" /\ Exhausted
    /\ pc' = "returned"
    /\ ret' = IF lastErr = NoErr THEN "Network" ELSE lastErr
    /\ UNCHANGED <<attempt, backoff, servers, tried, inbox, lastErr, heartbeat,
                   history>>

\* The attempt's future resolves, or its timeout drops it.
AttemptEnds(e) == /\ pc' = "attempted" /\ ret' = e /\ latest' = e

\* connect() has a socket and the logon request is written.
Connected ==
    /\ pc = "opening"
    /\ pc' = "logon" /\ inbox' = <<>> /\ frame' = <<>>
    /\ UNCHANGED <<attempt, backoff, servers, tried, ret, lastErr, heartbeat, said,
                   latest>>

\* Connecting, writing or reading fails, or a batch does not decode.
TransportFails ==
    /\ pc = "opening" \/ (pc = "logon" /\ inbox = <<>>)
    /\ \E e \in {"WebSocket", "Codec"} : AttemptEnds(e)
    /\ UNCHANGED <<attempt, backoff, servers, tried, inbox, lastErr, heartbeat,
                   said, frame>>

AttemptTimeout ==
    /\ pc \in {"opening", "logon"}
    /\ AttemptEnds("Timeout")
    /\ UNCHANGED <<attempt, backoff, servers, tried, inbox, lastErr, heartbeat,
                   said, frame>>

\* recv() with an empty inbox: one frame, unpacked into the inbox.
ReadFrame ==
    /\ pc = "logon" /\ inbox = <<>>
    /\ \E f \in Frames : inbox' = f /\ frame' = f
    /\ UNCHANGED <<pc, attempt, backoff, servers, tried, ret, lastErr, heartbeat,
                   said, latest>>

-----------------------------------------------------------------------------
\* logon(): what the head of the inbox means.
Verdict(m) ==
    CASE m.emsg = "response" /\ m.eresult = OK -> "accepted"
      [] m.emsg \in {"response", "loggedOff"} ->
            IF logon_eresult_retryable(OrFail(m.eresult))
            THEN "transient" ELSE "rejected"
      [] m.emsg = "garbledResponse" -> "garbled"
      [] OTHER -> "ignored"

logon_rejection(verdict) ==
    IF verdict = "transient" THEN "LogonRetryable" ELSE "AuthRejected"

HeartbeatOf(m) ==
    CASE m.heartbeat = <<>> -> DefaultHeartbeat
      [] OTHER -> IF m.heartbeat[1] < 1 THEN 1 ELSE m.heartbeat[1]

Ignore ==
    /\ pc = "logon" /\ inbox # <<>>
    /\ Verdict(Head(inbox)) = "ignored"
    /\ inbox' = Tail(inbox)
    /\ UNCHANGED <<pc, attempt, backoff, servers, tried, ret, lastErr, heartbeat,
                   history>>

\* A response that does not decode is a codec error, not a verdict.
LogonGarbled ==
    /\ pc = "logon" /\ inbox # <<>>
    /\ Verdict(Head(inbox)) = "garbled"
    /\ AttemptEnds("Codec")
    /\ inbox' = Tail(inbox)
    /\ UNCHANGED <<attempt, backoff, servers, tried, lastErr, heartbeat, said, frame>>

LogonRefused ==
    /\ pc = "logon" /\ inbox # <<>>
    /\ Verdict(Head(inbox)) \in {"transient", "rejected"}
    /\ said' = said \union {Verdict(Head(inbox))}
    /\ AttemptEnds(logon_rejection(Verdict(Head(inbox))))
    /\ inbox' = Tail(inbox)
    /\ UNCHANGED <<attempt, backoff, servers, tried, lastErr, heartbeat, frame>>

\* fault: the connection is taken apart without its buffered messages
AcceptedBare ==
    /\ pc = "logon" /\ inbox # <<>>
    /\ Verdict(Head(inbox)) = "accepted"
    /\ said' = said \union {"accepted"}
    /\ heartbeat' = HeartbeatOf(Head(inbox))
    /\ pc' = "attempted" /\ ret' = "session"
    /\ inbox' = <<>>
    /\ UNCHANGED <<attempt, backoff, servers, tried, lastErr, frame, latest>>

\* What follows the response in its batch stays in the inbox and goes to the
\* driver with the socket (into_parts).
LogonAccepted ==
    /\ pc = "logon" /\ inbox # <<>>
    /\ Verdict(Head(inbox)) = "accepted"
    /\ said' = said \union {"accepted"}
    /\ heartbeat' = HeartbeatOf(Head(inbox))
    /\ pc' = "attempted" /\ ret' = "session"
    /\ inbox' = Tail(inbox)
    /\ UNCHANGED <<attempt, backoff, servers, tried, lastErr, frame, latest>>

logon == Ignore \/ LogonGarbled \/ LogonRefused \/ LogonAccepted

-----------------------------------------------------------------------------
\* fault: establish() goes on to the next server whatever the error was
MatchAttemptAll ==
    /\ pc = "attempted"
    /\ IF ret = "session"
       THEN pc' = "returned" /\ UNCHANGED lastErr
       ELSE pc' = "next" /\ lastErr' = ret
    /\ UNCHANGED <<attempt, backoff, servers, tried, inbox, ret, heartbeat, history>>

\* fault: the first error of a round is the one that is kept
MatchAttemptFirst ==
    /\ pc = "attempted"
    /\ IF ret \in {"session", "AuthRejected"}
       THEN pc' = "returned" /\ UNCHANGED lastErr
       ELSE pc' = "next" /\ lastErr' = IF lastErr = NoErr THEN ret ELSE lastErr
    /\ UNCHANGED <<attempt, backoff, servers, tried, inbox, ret, heartbeat, history>>

\* The match on an attempt's result in establish().
MatchAttempt ==
    /\ pc = "attempted"
    /\ IF ret \in {"session", "AuthRejected"}
       THEN pc' = "returned" /\ UNCHANGED lastErr
       ELSE pc' = "next" /\ lastErr' = ret
    /\ UNCHANGED <<attempt, backoff, servers, tried, inbox, ret, heartbeat, history>>

Final(r) == r \in {"session", "AuthRejected"} \/ attempt >= InitialAttempts

\* establish_resilient(): return, or pause and start over with a fresh lookup.
MatchEstablish ==
    /\ pc = "returned"
    /\ pc' = IF Final(ret) THEN "done" ELSE "backoff"
    /\ UNCHANGED <<attempt, backoff, servers, tried, inbox, ret, lastErr, heartbeat,
                   history>>

BackoffElapsed ==
    /\ pc = "backoff"
    /\ pc' = "discover" /\ attempt' = attempt + 1
    /\ backoff' = IF 2 * backoff < MaxBackoff THEN 2 * backoff ELSE MaxBackoff
    /\ UNCHANGED <<servers, tried, inbox, ret, lastErr, heartbeat, history>>

Returned == pc = "done" /\ UNCHANGED vars

Establish == \/ DiscoverFails \/ discover_cm_servers
             \/ StartAttempt \/ GiveUpRound \/ Connected \/ TransportFails
             \/ AttemptTimeout \/ ReadFrame \/ logon
             \/ MatchAttempt \/ MatchEstablish \/ BackoffElapsed

Next == Establish \/ Returned

\* The lookup has the HTTP client's total timeout, an attempt its own, and
\* everything else is the task's own next step.
Fairness == /\ WF_vars(DiscoverFails)
            /\ WF_vars(AttemptTimeout)
            /\ WF_vars(StartAttempt \/ GiveUpRound)
            /\ WF_vars(MatchAttempt) /\ WF_vars(MatchEstablish)
            /\ WF_vars(BackoffElapsed)

SafeSpec == Init /\ [][Next]_vars
Spec == SafeSpec /\ Fairness

-----------------------------------------------------------------------------
Errors == {NoErr, "Network", "WebSocket", "Codec", "Timeout", "LogonRetryable",
           "AuthRejected", "session"}

\* Rounds, servers and the pause stay inside their bounds.
TypeOK == /\ pc \in {"discover", "next", "opening", "logon", "attempted",
                     "returned", "backoff", "done"}
          /\ attempt \in 1..InitialAttempts
          /\ backoff \in 1..MaxBackoff
          /\ tried \in 0..MaxConnectAttempts
          /\ ret \in Errors /\ lastErr \in Errors /\ latest \in Errors
          /\ heartbeat \in Int
          /\ said \subseteq {"accepted", "rejected", "transient"}

Outcome == IF pc # "done" THEN "pending"
           ELSE IF ret \in {"session", "AuthRejected"} THEN ret ELSE "failed"

Contract == INSTANCE EstablishContract WITH outcome <- Outcome

\* Through all layers, timeouts and retries, the call keeps its contract.
ImplementsEstablish == Contract!Spec

\* No message that Steam batched behind the logon response is lost on the way
\* to the driver: the post-login lists come exactly there.
HandoverComplete ==
    pc = "done" /\ ret = "session" =>
        \E i \in DOMAIN frame :
            /\ Verdict(frame[i]) = "accepted"
            /\ \A j \in 1..(i - 1) : Verdict(frame[j]) = "ignored"
            /\ inbox = SubSeq(frame, i + 1, Len(frame))

\* A session never starts with a heartbeat interval the timer refuses (zero).
HeartbeatSane == pc = "done" /\ ret = "session" => heartbeat >= 1

\* The caller is told why the last attempt of the last round failed, not the
\* reason of an earlier server or round.
FailsWithLatest == pc = "done" /\ ret # "session" => ret = latest

\* Every pause is longer than the one before until the cap, and a new round
\* only starts after one.
RoundsAreSpaced ==
    [][attempt' # attempt =>
           /\ pc = "backoff" /\ attempt' = attempt + 1
           /\ backoff' > backoff \/ backoff = MaxBackoff]_vars
=============================================================================
