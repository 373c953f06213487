--------------------------- MODULE SessionContract ---------------------------
(***************************************************************************)
(* What a SessionHandle promises its callers, with no queue, socket, job   *)
(* id or task in sight: the error lists and doc comments of request,       *)
(* notify and logoff as code keeps them.  A session serves, recovers from  *)
(* a lost connection, or has ended for good.  A call is made, accepted and *)
(* answered at most once, and which answers it can get depends on what the *)
(* session is doing at that moment.  SessionDriver implements this module. *)
(***************************************************************************)
CONSTANTS Requests, Notifies, Logoffs, None

Calls == Requests \cup Notifies \cup Logoffs

VARIABLES
    call,     \* per call: idle, sending, waiting, done or gone
    result,   \* per call: its answer
    session   \* serving, recovering or ended

vars == <<call, result, session>>

Outcome(tag) == [tag |-> tag, of |-> None]

\* The answers a call may get from a session that is, or has just become, s.
Answers(c, s) ==
    CASE c \in Logoffs -> IF s = "ended" THEN {Outcome("ok")} ELSE {}
      [] c \in Notifies ->
            (CASE s = "serving"    -> {Outcome("ok"), Outcome("reconnecting")}
               [] s = "recovering" -> {Outcome("reconnecting")}
               [] s = "ended"      -> {Outcome("dropped")})
      [] c \in Requests ->
            {Outcome("timeout")} \cup
            (CASE s = "serving"    -> {Outcome("reconnecting"), [tag |-> "reply", of |-> c]}
               [] s = "recovering" -> {Outcome("reconnecting")}
               [] s = "ended"      -> {Outcome("stopped"), Outcome("dropped")})

Init ==
    /\ call = [c \in Calls |-> "idle"]
    /\ result = [c \in Calls |-> Outcome("none")]
    /\ session = "serving"

Issue(c) ==
    /\ call[c] = "idle"
    /\ call' = [call EXCEPT ![c] = "sending"]
    /\ UNCHANGED <<result, session>>

Accept(c) ==
    /\ call[c] = "sending"
    /\ call' = [call EXCEPT ![c] = "waiting"]
    /\ UNCHANGED <<result, session>>

\* Only a session that has ended turns a call away unheard.
Refuse(c) ==
    /\ call[c] = "sending"
    /\ session = "ended"
    /\ call' = [call EXCEPT ![c] = "done"]
    /\ result' = [result EXCEPT ![c] = Outcome("stopped")]
    /\ UNCHANGED session

Abandon(c) ==
    /\ call[c] \in {"sending", "waiting"}
    /\ call' = [call EXCEPT ![c] = "gone"]
    /\ UNCHANGED <<result, session>>

\* Some waiting calls are answered, all in the light of the session's new
\* condition.  An ended session stays ended.
Answer ==
    \E S \in SUBSET {c \in Calls : call[c] = "waiting"},
       s \in {"serving", "recovering", "ended"} :
        /\ session = "ended" => s = "ended"
        /\ DOMAIN result' = Calls
        /\ \A c \in Calls : result'[c] \in IF c \in S THEN Answers(c, s) ELSE {result[c]}
        /\ call' = [c \in Calls |-> IF c \in S THEN "done" ELSE call[c]]
        /\ session' = s

Next ==
    \/ \E c \in Calls : Issue(c) \/ Accept(c) \/ Refuse(c) \/ Abandon(c)
    \/ Answer

Spec == Init /\ [][Next]_vars
=============================================================================
