----------------------------- MODULE LogonProofs -----------------------------
(***************************************************************************)
(* From credentials to a session.  The initial connect keeps its contract  *)
(* for any number of rounds, servers and messages.  Signing in does not    *)
(* fail for a bad store entry and polls as it should, for any number of    *)
(* flows with any builders, whatever confirmations Steam asks for and      *)
(* however long its timeouts are.                                          *)
(***************************************************************************)
EXTENDS CmEstablish, SignIn, TLAPS

Message == [emsg : STRING, eresult : Nat, heartbeat : Seq(Int)]
Verdicts == {"session", "AuthRejected"}

\* The sequences the call works on, and bounds TypeOK leaves implicit.
Shape == /\ TypeOK
         /\ servers \in Seq(STRING)
         /\ inbox \in Seq(Message) /\ frame \in Seq(Message)
         /\ pc = "backoff" => attempt < InitialAttempts
         /\ pc = "attempted" => ret # NoErr
         /\ pc = "next" /\ lastErr = NoErr => tried = 0 /\ servers # <<>>

LEMMA ShapeInitially == Init => Shape
BY EstablishAssumption DEF Init, Shape, TypeOK, Errors, NoErr

\* A message taken off the inbox is one, and the rest is an inbox.
LEMMA InboxParts ==
    ASSUME Shape, inbox # <<>>
    PROVE  Head(inbox) \in Message /\ Tail(inbox) \in Seq(Message)
BY DEF Shape

\* A heartbeat interval is at least one second whatever Steam sent.
LEMMA HeartbeatPositive ==
    ASSUME NEW m \in Message
    PROVE  HeartbeatOf(m) \in Int /\ HeartbeatOf(m) >= 1
<1>1. m.heartbeat \in Seq(Int)
  BY DEF Message
<1>2. CASE m.heartbeat = <<>>
  BY <1>2 DEF HeartbeatOf, DefaultHeartbeat
<1>3. CASE m.heartbeat # <<>>
  <2>1. m.heartbeat[1] \in Int
    BY <1>1, <1>3
  <2>. QED
    BY <1>3, <2>1 DEF HeartbeatOf
<1>. QED
  BY <1>2, <1>3

LEMMA ShapeStep == Shape /\ [Next]_vars => Shape'
<1>. SUFFICES ASSUME Shape, [Next]_vars PROVE Shape'
  OBVIOUS
<1>. USE EstablishAssumption DEF Shape, TypeOK, NoErr, Errors
<1>1. CASE DiscoverFails
  BY <1>1 DEF DiscoverFails
<1>2. CASE discover_cm_servers
  <2>1. PICK list \in Listings : parse_servers(list) # <<>> /\ servers' = parse_servers(list)
    BY <1>2 DEF discover_cm_servers
  <2>2. servers' \in Seq(STRING) /\ servers' # <<>>
    BY <2>1, ListingsAssumption
  <2>. QED
    BY <1>2, <2>2 DEF discover_cm_servers, history
<1>3. CASE StartAttempt
  BY <1>3 DEF StartAttempt, Exhausted, history
<1>4. CASE GiveUpRound
  BY <1>4 DEF GiveUpRound, history
<1>5. CASE Connected
  BY <1>5 DEF Connected
<1>6. CASE TransportFails
  BY <1>6 DEF TransportFails, AttemptEnds
<1>7. CASE AttemptTimeout
  BY <1>7 DEF AttemptTimeout, AttemptEnds
<1>8. CASE ReadFrame
  BY <1>8 DEF ReadFrame, Message
<1>9. CASE Ignore
  BY <1>9, InboxParts DEF Ignore, history
<1>10. CASE LogonGarbled
  BY <1>10, InboxParts DEF LogonGarbled, AttemptEnds
<1>11. CASE LogonRefused
  BY <1>11, InboxParts, Zenon DEF LogonRefused, AttemptEnds, logon_rejection
<1>12. CASE LogonAccepted
  <2>1. Head(inbox) \in Message /\ Tail(inbox) \in Seq(Message)
    BY <1>12, InboxParts DEF LogonAccepted
  <2>2. heartbeat' \in Int
    BY <1>12, <2>1, HeartbeatPositive DEF LogonAccepted
  <2>. QED
    BY <1>12, <2>1, <2>2 DEF LogonAccepted
<1>13. CASE MatchAttempt
  BY <1>13 DEF MatchAttempt, history
<1>14. CASE MatchEstablish
  BY <1>14 DEF MatchEstablish, Final, history
<1>15. CASE BackoffElapsed
  BY <1>15 DEF BackoffElapsed, history
<1>16. CASE UNCHANGED vars
  BY <1>16 DEF vars, history
<1>. QED
  BY Zenon, <1>1, <1>2, <1>3, <1>4, <1>5, <1>6, <1>7, <1>8, <1>9, <1>10, <1>11, <1>12, <1>13,
     <1>14, <1>15, <1>16 DEF Next, Establish, Returned, logon

\* TypeOK holds: rounds, servers and the pause stay inside their bounds.
THEOREM TypeCorrect == SafeSpec => []TypeOK
<1>1. Shape => TypeOK
  BY DEF Shape
<1>. QED
  BY <1>1, ShapeInitially, ShapeStep, PTL DEF SafeSpec

-----------------------------------------------------------------------------
\* What Steam said and what the call holds agree: a verdict is on its way out, and
\* no error kept for later is one.
Agreement == /\ "accepted" \in said <=> ret = "session"
             /\ "rejected" \in said <=> ret = "AuthRejected"
             /\ ret \in Verdicts => pc \in {"attempted", "returned", "done"}
             /\ pc = "done" => Final(ret)
             /\ lastErr \notin Verdicts

LEMMA AgreementStep == Shape /\ Agreement /\ [Next]_vars => Agreement'
<1>. SUFFICES ASSUME Shape, Agreement, [Next]_vars PROVE Agreement'
  OBVIOUS
<1>. USE DEF Agreement, Verdicts, NoErr, Final
<1>1. CASE DiscoverFails \/ TransportFails \/ AttemptTimeout \/ LogonGarbled
  BY <1>1 DEF DiscoverFails, TransportFails, AttemptTimeout, LogonGarbled, AttemptEnds
<1>2. CASE discover_cm_servers \/ StartAttempt \/ Connected \/ ReadFrame \/ Ignore
  BY <1>2 DEF discover_cm_servers, StartAttempt, Connected, ReadFrame, Ignore, history
<1>3. CASE GiveUpRound
  BY <1>3 DEF GiveUpRound, history
<1>4. CASE LogonRefused
  BY <1>4 DEF LogonRefused, AttemptEnds, logon_rejection
<1>5. CASE LogonAccepted
  BY <1>5 DEF LogonAccepted
<1>6. CASE MatchAttempt
  BY <1>6 DEF MatchAttempt, history
<1>7. CASE MatchEstablish
  BY <1>7 DEF MatchEstablish, history
<1>8. CASE BackoffElapsed
  BY <1>8 DEF BackoffElapsed, history
<1>9. CASE UNCHANGED vars
  BY <1>9 DEF vars, history
<1>. QED
  BY <1>1, <1>2, <1>3, <1>4, <1>5, <1>6, <1>7, <1>8, <1>9 DEF Next, Establish, Returned, logon

LEMMA AgreementInvariant == SafeSpec => [](Shape /\ Agreement)
<1>1. Init => Agreement
  BY DEF Init, Agreement, Verdicts, NoErr
<1>. QED
  BY <1>1, ShapeInitially, ShapeStep, AgreementStep, PTL DEF SafeSpec

\* The call implements its contract's safety part: Steam's verdicts are heard only
\* while the call runs and none was final, and the call returns what they say.
THEOREM SafelyEstablished == SafeSpec => Contract!Safe
<1>. USE DEF Contract!Hear, Contract!Return, Contract!Final, Outcome
<1>1. Init => Contract!Init
  BY DEF Init, Contract!Init
<1>2. Shape /\ Agreement /\ [Next]_vars =>
          [Contract!Hear \/ Contract!Return]_<<said, Outcome>>
  <2>. SUFFICES ASSUME Shape, Agreement, [Next]_vars
                PROVE  Contract!Hear \/ Contract!Return \/ UNCHANGED <<said, Outcome>>
    OBVIOUS
  <2>1. CASE LogonRefused \/ LogonAccepted
    <3>1. pc = "logon" /\ pc' = "attempted"
      BY <2>1 DEF LogonRefused, LogonAccepted, AttemptEnds
    <3>2. ~Contract!Final
      BY <3>1 DEF Agreement, Verdicts
    <3>3. \E v \in {"accepted", "rejected", "transient"} : said' = said \union {v}
      BY <2>1 DEF LogonRefused, LogonAccepted
    <3>. QED
      BY <3>1, <3>2, <3>3
  <2>2. CASE MatchEstablish
    <3>1. pc = "returned" /\ said' = said /\ ret' = ret
      BY <2>2 DEF MatchEstablish, history
    <3>2. CASE Final(ret)
      <4>1. pc' = "done"
        BY <2>2, <3>2 DEF MatchEstablish
      <4>2. CASE ret = "session"
        BY <3>1, <4>1, <4>2 DEF Agreement
      <4>3. CASE ret = "AuthRejected"
        BY <3>1, <4>1, <4>3 DEF Agreement
      <4>4. CASE ret \notin Verdicts
        BY <3>1, <4>1, <4>4 DEF Agreement, Verdicts
      <4>. QED
        BY <4>2, <4>3, <4>4 DEF Verdicts
    <3>3. CASE ~Final(ret)
      BY <2>2, <3>1, <3>3 DEF MatchEstablish
    <3>. QED
      BY <3>2, <3>3
  <2>3. CASE \/ DiscoverFails \/ discover_cm_servers \/ StartAttempt \/ GiveUpRound
             \/ Connected \/ TransportFails
    BY <2>3 DEF DiscoverFails, discover_cm_servers, StartAttempt, GiveUpRound, Connected,
                TransportFails, AttemptEnds, history
  <2>4. CASE \/ AttemptTimeout \/ ReadFrame \/ Ignore \/ LogonGarbled
             \/ MatchAttempt \/ BackoffElapsed
    BY <2>4 DEF AttemptTimeout, ReadFrame, Ignore, LogonGarbled, AttemptEnds, MatchAttempt,
                BackoffElapsed, history
  <2>5. CASE UNCHANGED vars
    BY <2>5 DEF vars, history
  <2>. QED
    BY Zenon, <2>1, <2>2, <2>3, <2>4, <2>5 DEF Next, Establish, Returned, logon
<1>. QED
  BY <1>1, <1>2, AgreementInvariant, PTL DEF SafeSpec, Contract!Safe

-----------------------------------------------------------------------------
\* Wherever an error is kept, it is the one of the latest attempt or lookup.
KeepsLatest == /\ pc \in {"attempted", "returned", "backoff", "done"} /\ ret # "session" => ret = latest
               /\ pc = "next" /\ lastErr # NoErr => lastErr = latest
               /\ ret = "session" => heartbeat >= 1

LEMMA KeepsLatestStep == Shape /\ Agreement /\ KeepsLatest /\ [Next]_vars => KeepsLatest'
<1>. SUFFICES ASSUME Shape, Agreement, KeepsLatest, [Next]_vars PROVE KeepsLatest'
  OBVIOUS
<1>. USE DEF KeepsLatest, NoErr
<1>1. CASE DiscoverFails \/ TransportFails \/ AttemptTimeout \/ LogonGarbled
  BY <1>1 DEF DiscoverFails, TransportFails, AttemptTimeout, LogonGarbled, AttemptEnds
<1>2. CASE discover_cm_servers \/ StartAttempt \/ Connected \/ ReadFrame \/ Ignore
  BY Zenon, <1>2 DEF discover_cm_servers, StartAttempt, Connected, ReadFrame, Ignore, history
<1>3. CASE GiveUpRound
  \* A round over a list that is not empty tried at least one server.
  <2>1. lastErr # NoErr
    BY <1>3, EstablishAssumption DEF GiveUpRound, Exhausted, Shape
  <2>2. pc' = "returned" /\ ret' = lastErr /\ latest' = latest /\ lastErr = latest
    BY <1>3, <2>1 DEF GiveUpRound, history
  <2>3. ret' # "session"
    BY <2>2 DEF Agreement, Verdicts
  <2>. QED
    BY <2>2, <2>3
<1>4. CASE LogonRefused
  BY <1>4 DEF LogonRefused, AttemptEnds, logon_rejection
<1>5. CASE LogonAccepted
  <2>1. heartbeat' >= 1
    BY <1>5, InboxParts, HeartbeatPositive DEF LogonAccepted
  <2>. QED
    BY <1>5, <2>1 DEF LogonAccepted
<1>6. CASE MatchAttempt
  BY <1>6 DEF MatchAttempt, history
<1>7. CASE MatchEstablish
  BY <1>7 DEF MatchEstablish, history
<1>8. CASE BackoffElapsed
  BY <1>8 DEF BackoffElapsed, history
<1>9. CASE UNCHANGED vars
  BY <1>9 DEF vars, history
<1>. QED
  BY Zenon, <1>1, <1>2, <1>3, <1>4, <1>5, <1>6, <1>7, <1>8, <1>9 DEF Next, Establish, Returned, logon

LEMMA KeepsLatestInvariant == SafeSpec => []KeepsLatest
<1>1. Init => KeepsLatest
  BY DEF Init, KeepsLatest, NoErr
<1>. QED
  BY <1>1, KeepsLatestStep, AgreementInvariant, PTL DEF SafeSpec

\* FailsWithLatest holds: the caller is told why the last attempt failed.
THEOREM LatestReported == SafeSpec => []FailsWithLatest
<1>1. KeepsLatest => FailsWithLatest
  BY DEF KeepsLatest, FailsWithLatest
<1>. QED
  BY <1>1, KeepsLatestInvariant, PTL

\* HeartbeatSane holds: the driver's timer never gets a zero interval.
THEOREM HeartbeatHolds == SafeSpec => []HeartbeatSane
<1>1. KeepsLatest => HeartbeatSane
  BY DEF KeepsLatest, HeartbeatSane
<1>. QED
  BY <1>1, KeepsLatestInvariant, PTL

\* RoundsAreSpaced holds: a new round follows a pause, and the next pause is longer
\* until the cap.
THEOREM RoundsSpaced == SafeSpec => RoundsAreSpaced
<1>1. Shape /\ [Next]_vars =>
          [attempt' # attempt => /\ pc = "backoff" /\ attempt' = attempt + 1
                                 /\ backoff' > backoff \/ backoff = MaxBackoff]_vars
  <2>. SUFFICES ASSUME Shape, Next, attempt' # attempt
                PROVE  /\ pc = "backoff" /\ attempt' = attempt + 1
                       /\ backoff' > backoff \/ backoff = MaxBackoff
    BY DEF vars
  <2>1. BackoffElapsed
    BY Zenon DEF Next, Establish, Returned, logon, DiscoverFails, discover_cm_servers,
                    StartAttempt,
           GiveUpRound, Connected, TransportFails, AttemptTimeout, ReadFrame, Ignore,
           LogonGarbled, LogonRefused, LogonAccepted, MatchAttempt, MatchEstablish, vars
  <2>. QED
    BY <2>1, EstablishAssumption DEF BackoffElapsed, Shape, TypeOK
<1>. QED
  BY <1>1, AgreementInvariant, PTL DEF SafeSpec, RoundsAreSpaced

-----------------------------------------------------------------------------
\* The inbox is the frame without its first k messages.
Rest(k) == k \in 0..Len(frame) /\ inbox = SubSeq(frame, k + 1, Len(frame))

\* During the logon all that was taken off was ignored; at an accepted one the
\* message before the rest is the response.
Handover ==
    /\ pc = "logon" => \E k \in 0..Len(frame) :
           Rest(k) /\ \A j \in 1..k : Verdict(frame[j]) = "ignored"
    /\ ret = "session" => \E i \in DOMAIN frame :
           /\ Verdict(frame[i]) = "accepted"
           /\ \A j \in 1..(i - 1) : Verdict(frame[j]) = "ignored"
           /\ inbox = SubSeq(frame, i + 1, Len(frame))

\* Taking a message off a suffix of a sequence leaves the next suffix.
LEMMA SuffixStep ==
    ASSUME NEW S, NEW s \in Seq(S), NEW k \in 0..Len(s), SubSeq(s, k + 1, Len(s)) # <<>>
    PROVE  /\ k + 1 \in 1..Len(s)
           /\ Head(SubSeq(s, k + 1, Len(s))) = s[k + 1]
           /\ Tail(SubSeq(s, k + 1, Len(s))) = SubSeq(s, k + 2, Len(s))
<1>. DEFINE t == SubSeq(s, k + 1, Len(s))
<1>1. k < Len(s)
  OBVIOUS
<1>2. t \in Seq(S) /\ Len(t) = Len(s) - k /\ \A i \in 1..Len(t) : t[i] = s[k + i]
  BY <1>1
<1>3. Tail(t) \in Seq(S) /\ Len(Tail(t)) = Len(s) - k - 1
      /\ \A i \in 1..Len(Tail(t)) : Tail(t)[i] = s[k + 1 + i]
  BY <1>1, <1>2
<1>. QED
  BY <1>1, <1>2, <1>3

LEMMA HandoverStep == Shape /\ Agreement /\ Handover /\ [Next]_vars => Handover'
<1>. SUFFICES ASSUME Shape, Agreement, Handover, [Next]_vars PROVE Handover'
  OBVIOUS
<1>1. CASE DiscoverFails \/ TransportFails \/ AttemptTimeout \/ LogonGarbled \/ LogonRefused
  BY Zenon, <1>1 DEF DiscoverFails, TransportFails, AttemptTimeout, LogonGarbled, LogonRefused,
              AttemptEnds, logon_rejection, Handover
<1>2. CASE discover_cm_servers \/ StartAttempt \/ GiveUpRound
  BY Zenon, <1>2 DEF discover_cm_servers, StartAttempt, GiveUpRound, history, Handover, Agreement, Verdicts
<1>3. CASE MatchAttempt \/ MatchEstablish \/ BackoffElapsed
  BY Zenon, <1>3 DEF MatchAttempt, MatchEstablish, BackoffElapsed, history, Handover
<1>4. CASE Connected \/ ReadFrame
  <2>1. inbox' = frame' /\ ret' = ret /\ ret # "session"
    BY <1>4 DEF Connected, ReadFrame, Agreement, Verdicts
  <2>2. frame' \in Seq(Message)
    <3>1. CASE Connected
      BY <3>1 DEF Connected
    <3>2. CASE ReadFrame
      BY <3>2, EstablishAssumption DEF ReadFrame, Message
    <3>. QED
      BY <1>4, <3>1, <3>2
  <2>3. frame' = SubSeq(frame', 0 + 1, Len(frame')) /\ 0 \in 0..Len(frame')
    BY <2>2
  <2>4. Rest(0)' /\ \A j \in 1..0 : Verdict(frame'[j]) = "ignored"
    BY <2>1, <2>3 DEF Rest
  <2>. QED
    BY Zenon, <2>1, <2>3, <2>4 DEF Handover
<1>5. CASE Ignore \/ LogonAccepted
  <2>1. pc = "logon" /\ inbox # <<>> /\ inbox' = Tail(inbox) /\ frame' = frame
    BY <1>5 DEF Ignore, LogonAccepted, history
  <2>2. PICK k \in 0..Len(frame) : Rest(k) /\ \A j \in 1..k : Verdict(frame[j]) = "ignored"
    BY <2>1 DEF Handover
  <2>3. /\ k + 1 \in 1..Len(frame) /\ Head(inbox) = frame[k + 1]
        /\ inbox' = SubSeq(frame, k + 2, Len(frame))
    BY Zenon, <2>1, <2>2, SuffixStep DEF Rest, Shape
  <2>4. CASE Ignore
    <3>1. Verdict(frame[k + 1]) = "ignored" /\ pc' = "logon" /\ ret' = ret /\ ret # "session"
      BY <2>1, <2>3, <2>4 DEF Ignore, Agreement, Verdicts
    <3>2. k + 1 \in 0..Len(frame) /\ (k + 1) + 1 = k + 2
      BY <2>3 DEF Shape
    <3>3. Rest(k + 1)' /\ k + 1 \in 0..Len(frame)
      BY <2>1, <2>3, <3>2, Zenon DEF Rest
    <3>4. \A j \in 1..(k + 1) : Verdict(frame[j]) = "ignored"
      BY <2>2, <3>1
    <3>. QED
      BY <2>1, <3>1, <3>3, <3>4 DEF Handover
  <2>5. CASE LogonAccepted
    <3>1. Verdict(frame[k + 1]) = "accepted" /\ pc' # "logon"
      BY <2>3, <2>5 DEF LogonAccepted
    <3>2. k + 1 \in DOMAIN frame /\ (k + 1) - 1 = k /\ (k + 1) + 1 = k + 2
      BY <2>3 DEF Shape
    <3>. QED
      BY <2>1, <2>2, <2>3, <3>1, <3>2, Zenon DEF Handover
  <2>. QED
    BY <1>5, <2>4, <2>5
<1>6. CASE UNCHANGED vars
  BY <1>6 DEF vars, history, Handover, Rest
<1>. QED
  BY <1>1, <1>2, <1>3, <1>4, <1>5, <1>6 DEF Next, Establish, Returned, logon

\* HandoverComplete holds: what Steam batched behind the logon response reaches the
\* driver whole and in order.
THEOREM HandoverHolds == SafeSpec => []HandoverComplete
<1>1. Init => Handover
  BY DEF Init, Handover, NoErr
<1>2. Handover => HandoverComplete
  BY DEF Handover, HandoverComplete
<1>. QED
  BY <1>1, <1>2, HandoverStep, AgreementInvariant, PTL DEF SafeSpec

-----------------------------------------------------------------------------
(***************************************************************************)
(* Signing in.  None of the three invariants is inductive: each looks at   *)
(* the moment of a poll or at an outcome, so SignInInv says when, on the   *)
(* way there, a flow has asked Steam, holds the announced session or has   *)
(* proved itself.                                                          *)
(***************************************************************************)

FlowSteps == {"absent", "load", "check", "save", "rsa", "begin", "guard", "code", "poll",
              "sleep", "done"}

Refusals == {"InvalidCredentials", "NeedsEmailGuardCode", "NeedsMobileGuardCode",
             "GuardCodeRejected", "RateLimited", "AuthRejected"}
Outcomes == Refusals \union {"none", "Success", "TokenStore", "TokenRejected", "Network",
                             "InvalidSecret", "InvalidConfig", "Timeout"}

FlowsTyped == /\ flowPc \in [Flows -> FlowSteps]
              /\ outcome \in [Flows -> Outcomes]
              /\ DOMAIN sess = Flows
              /\ reqId \in [Flows -> Nat] /\ steamId \in [Flows -> Nat]

\* A flow that is past the RSA key has asked Steam.
AskedSteam == \A f \in Flows :
    flowPc[f] \in {"begin", "guard", "code", "poll", "sleep"} => f \in asked

\* From the auth session on, asleep or awake, a flow knows the client id Steam
\* last announced.
KnowsSession == \A f \in Flows :
    flowPc[f] \in {"guard", "code", "poll", "sleep"} => reqId[f] = steamId[f]

\* A flow in the poll loop, asleep or awake, owes Steam no confirmation.
OwesNothing == \A f \in Flows : flowPc[f] \in {"poll", "sleep"} =>
    \/ sess[f].guards = {} \/ "none" \in sess[f].guards
    \/ f \in proved

SignInInv == FlowsTyped /\ AskedSteam /\ KnowsSession /\ OwesNothing /\ BadEntryIsNotFatal

-----------------------------------------------------------------------------
\* No result code of Steam's is reported as a rejected token.
LEMMA SteamNeverRejectsToken ==
    ASSUME NEW er
    PROVE  map_non_ok_eresult(er) \in Refusals
BY Zenon DEF map_non_ok_eresult, Refusals

\* Every flow starts before its first request, with no outcome.
LEMMA SignInInvInitially == SignInInit => SignInInv
<1> SUFFICES ASSUME SignInInit PROVE SignInInv
    OBVIOUS
<1>1. flowPc \in [Flows -> {"absent", "load", "check", "rsa"}]
    <2>1. PICK cast \in Casts :
             flowPc = [f \in Flows |-> CASE f \notin cast -> "absent"
                                     [] f \in cast /\ Builder[f] = "store" -> "load"
                                     [] f \in cast /\ Builder[f] = "token" -> "check"
                                     [] OTHER -> "rsa"]
        BY DEF SignInInit
    <2> DEFINE at(f) == CASE f \notin cast -> "absent"
                          [] f \in cast /\ Builder[f] = "store" -> "load"
                          [] f \in cast /\ Builder[f] = "token" -> "check"
                          [] OTHER -> "rsa"
    <2>2. \A f \in Flows : at(f) \in {"absent", "load", "check", "rsa"}
        OBVIOUS
    <2>3. flowPc = [f \in Flows |-> at(f)]
        BY <2>1
    <2> HIDE DEF at
    <2> QED
        BY <2>2, <2>3
<1>2. outcome = [f \in Flows |-> "none"]
    BY DEF SignInInit
<1>3. sess = [f \in Flows |-> NoSession] /\ reqId = [f \in Flows |-> 0]
      /\ steamId = [f \in Flows |-> 0]
    BY DEF SignInInit
<1>4. FlowsTyped
    BY <1>1, <1>2, <1>3 DEF FlowsTyped, FlowSteps, Outcomes
<1> QED
    BY Zenon, <1>1, <1>2, <1>4 DEF SignInInv, AskedSteam, KnowsSession, OwesNothing,
                            BadEntryIsNotFatal

\* Where a step of one flow f leaves the invariant to be shown for f alone: it
\* touches no other flow, and takes nothing from those that asked or proved.
LEMMA OneFlow ==
    ASSUME SignInInv, NEW f \in Flows, NEW step \in FlowSteps, NEW o \in Outcomes,
           flowPc' = [flowPc EXCEPT ![f] = step], outcome' = [outcome EXCEPT ![f] = o],
           DOMAIN sess' = Flows, \A g \in Flows \ {f} : sess'[g] = sess[g],
           reqId' \in [Flows -> Nat], \A g \in Flows \ {f} : reqId'[g] = reqId[g],
           steamId' \in [Flows -> Nat], \A g \in Flows \ {f} : steamId'[g] = steamId[g],
           asked \subseteq asked', proved \subseteq proved',
           step \in {"begin", "guard", "code", "poll", "sleep"} => f \in asked',
           step \in {"guard", "code", "poll", "sleep"} => reqId'[f] = steamId'[f],
           step \in {"poll", "sleep"} =>
              sess'[f].guards = {} \/ "none" \in sess'[f].guards \/ f \in proved',
           Builder[f] = "store" => /\ o # "TokenRejected"
                                   /\ o = "AuthRejected" => f \in asked'
    PROVE  SignInInv'
<1> USE DEF SignInInv, FlowsTyped
<1>1. flowPc' \in [Flows -> FlowSteps] /\ outcome' \in [Flows -> Outcomes]
    BY Zenon
<1>2. flowPc'[f] = step /\ outcome'[f] = o
    BY Zenon
<1>3. \A g \in Flows \ {f} : flowPc'[g] = flowPc[g] /\ outcome'[g] = outcome[g]
    BY Zenon
<1>4. AskedSteam'
    BY Zenon, <1>2, <1>3 DEF AskedSteam
<1>5. KnowsSession'
    BY <1>2, <1>3 DEF KnowsSession
<1>6. OwesNothing'
    BY <1>2, <1>3 DEF OwesNothing
<1>7. BadEntryIsNotFatal'
    BY Zenon, <1>2, <1>3 DEF BadEntryIsNotFatal
<1> QED
    BY Zenon, <1>1, <1>4, <1>5, <1>6, <1>7

-----------------------------------------------------------------------------
\* A step that reports nothing leaves the flow with an outcome it may have.
LEMMA SameOutcome ==
    ASSUME SignInInv, NEW f \in Flows, outcome' = outcome, asked \subseteq asked'
    PROVE  \E o \in Outcomes :
              /\ outcome' = [outcome EXCEPT ![f] = o]
              /\ Builder[f] = "store" => /\ o # "TokenRejected"
                                         /\ o = "AuthRejected" => f \in asked'
<1>1. outcome' = [outcome EXCEPT ![f] = outcome[f]] /\ outcome[f] \in Outcomes
    BY DEF SignInInv, FlowsTyped
<1> QED
    BY <1>1, Zenon DEF SignInInv, BadEntryIsNotFatal

\* Loading, checking and saving a token ends the flow or leads it to a step that
\* assumes nothing, and only a flow without a store is told what is wrong with it.
LEMMA OfflineInv ==
    ASSUME SignInInv, NEW f \in Flows, Load(f) \/ Check(f) \/ Save(f)
    PROVE  SignInInv'
<1> USE DEF SignInInv, FlowsTyped
<1>1. \E step \in {"rsa", "check", "save", "done"} : flowPc' = [flowPc EXCEPT ![f] = step]
    BY DEF Load, Check, Save, TokenUnusable, To, Finish
<1>2. \/ outcome' = outcome
      \/ outcome' = [outcome EXCEPT ![f] = "TokenStore"]
      \/ outcome' = [outcome EXCEPT ![f] = "Success"]
      \/ Builder[f] # "store" /\ outcome' = [outcome EXCEPT ![f] = "AuthRejected"]
      \/ Builder[f] # "store" /\ outcome' = [outcome EXCEPT ![f] = "TokenRejected"]
    BY DEF Load, Check, Save, TokenUnusable, To, Finish
<1>3. UNCHANGED <<polling, asked>>
    BY DEF Load, Check, Save
<1>4. \E o \in Outcomes :
          /\ outcome' = [outcome EXCEPT ![f] = o]
          /\ Builder[f] = "store" => /\ o # "TokenRejected"
                                     /\ o = "AuthRejected" => f \in asked'
    <2>1. CASE outcome' = outcome
        BY Zenon, <2>1, <1>3, SameOutcome
    <2> QED
        BY Zenon, <1>2, <2>1 DEF Outcomes, Refusals
<1> QED
    BY <1>1, <1>3, <1>4, OneFlow, Zenon DEF FlowSteps, polling

\* A call that fails ends the flow, with Steam asked.
LEMMA CallFailsInv ==
    ASSUME SignInInv, NEW f \in Flows, CallFails(f)
    PROVE  SignInInv'
<1> USE DEF SignInInv, FlowsTyped
<1>1. PICK o \in Refusals \union {"Network"} : Finish(f, o)
    BY SteamNeverRejectsToken DEF CallFails, Refusals
<1>2. /\ flowPc' = [flowPc EXCEPT ![f] = "done"] /\ outcome' = [outcome EXCEPT ![f] = o]
      /\ asked' = asked \union {f} /\ UNCHANGED polling
    BY <1>1 DEF CallFails, Finish, To
<1>3. o \in Outcomes /\ o # "TokenRejected"
    BY DEF Outcomes, Refusals
<1> QED
    BY <1>2, <1>3, OneFlow, Zenon DEF FlowSteps, polling

\* The key and the auth session: Steam has been asked from the first on, and the
\* second makes its client id the one to poll with.
LEMMA SessionInv ==
    ASSUME SignInInv, NEW f \in Flows, FetchRsaKey(f) \/ BeginSession(f)
    PROVE  SignInInv'
<1> USE DEF SignInInv, FlowsTyped
<1>1. PICK o \in Outcomes :
          /\ outcome' = [outcome EXCEPT ![f] = o]
          /\ Builder[f] = "store" => /\ o # "TokenRejected"
                                     /\ o = "AuthRejected" => f \in asked'
    <2>1. asked \subseteq asked' /\ (outcome' = outcome \/ Finish(f, "InvalidConfig"))
        BY DEF FetchRsaKey, BeginSession
    <2>2. CASE outcome' = outcome
        BY Zenon, <2>1, <2>2, SameOutcome
    <2>3. CASE Finish(f, "InvalidConfig")
        <3>1. /\ outcome' = [outcome EXCEPT ![f] = "InvalidConfig"] /\ "InvalidConfig" \in Outcomes
              /\ "InvalidConfig" \notin {"TokenRejected", "AuthRejected"}
            BY <2>3 DEF Finish, Outcomes
        <3> QED
            BY Zenon, <3>1
    <2> QED
        BY Zenon, <2>1, <2>2, <2>3
<1>2. CASE FetchRsaKey(f)
    <2>1. /\ asked \subseteq asked' /\ UNCHANGED polling
          /\ \/ flowPc' = [flowPc EXCEPT ![f] = "done"]
             \/ flowPc' = [flowPc EXCEPT ![f] = "begin"] /\ f \in asked'
        BY Zenon, <1>2 DEF FetchRsaKey, Finish, To
    <2> QED
        BY <1>1, <2>1, OneFlow, Zenon DEF FlowSteps, polling
<1>3. CASE BeginSession(f)
    <2>1. /\ DOMAIN sess' = Flows /\ \A g \in Flows \ {f} : sess'[g] = sess[g]
          /\ reqId' = [reqId EXCEPT ![f] = 1] /\ steamId' = [steamId EXCEPT ![f] = 1]
          /\ flowPc' = [flowPc EXCEPT ![f] = "guard"] /\ flowPc[f] = "begin"
          /\ UNCHANGED <<asked, proved>>
        BY Zenon, <1>3 DEF BeginSession, To
    <2>2. f \in asked'
        BY Zenon, <2>1 DEF AskedSteam
    <2> QED
        BY <2>1, <2>2, <1>1, OneFlow, Zenon DEF FlowSteps
<1> QED
    BY Zenon, <1>2, <1>3

\* The guard: only a flow that owes nothing, or whose code was taken, polls.
LEMMA GuardInv ==
    ASSUME SignInInv, NEW f \in Flows, ResolveGuard(f) \/ SubmitCode(f)
    PROVE  SignInInv'
<1> USE DEF SignInInv, FlowsTyped
<1>1. /\ UNCHANGED <<sess, reqId, steamId, asked>> /\ proved \subseteq proved'
      /\ f \in asked /\ reqId[f] = steamId[f]
    BY DEF ResolveGuard, SubmitCode, AskedSteam, KnowsSession
<1>2. PICK o \in Outcomes :
          /\ outcome' = [outcome EXCEPT ![f] = o]
          /\ Builder[f] = "store" => o # "TokenRejected"
    <2>1. CASE outcome' = outcome
        BY Zenon, <2>1, <1>1, SameOutcome
    <2>2. CASE outcome' # outcome
        BY <2>2 DEF ResolveGuard, SubmitCode, StartPolling, Finish, Outcomes,
                    Refusals
    <2> QED
        BY Zenon, <2>1, <2>2
<1>3. \E step \in {"done", "code"} : flowPc' = [flowPc EXCEPT ![f] = step]
      \/ /\ flowPc' = [flowPc EXCEPT ![f] = "poll"]
         /\ sess[f].guards = {} \/ "none" \in sess[f].guards \/ f \in proved'
    BY DEF ResolveGuard, SubmitCode, StartPolling, Finish, To,
           Unsupported
<1>4. PICK step \in {"done", "code", "poll"} :
          /\ flowPc' = [flowPc EXCEPT ![f] = step]
          /\ step = "poll" =>
                sess[f].guards = {} \/ "none" \in sess[f].guards \/ f \in proved'
    BY Zenon, <1>3
<1> QED
    BY <1>1, <1>2, <1>4, OneFlow, Zenon DEF FlowSteps

\* Polling: the next poll names the session of the last answer.
LEMMA PollInv ==
    ASSUME SignInInv, NEW f \in Flows, Poll(f) \/ Wake(f)
    PROVE  SignInInv'
<1> USE DEF SignInInv, FlowsTyped
<1>1. /\ UNCHANGED <<sess, asked, proved>> /\ f \in asked /\ reqId[f] = steamId[f]
      /\ sess[f].guards = {} \/ "none" \in sess[f].guards \/ f \in proved
    BY Zenon DEF Poll, Wake, polling, AskedSteam, KnowsSession, OwesNothing
<1>2. PICK o \in Outcomes :
          /\ outcome' = [outcome EXCEPT ![f] = o]
          /\ Builder[f] = "store" => o # "TokenRejected"
    <2>1. CASE outcome' = outcome
        BY Zenon, <2>1, <1>1, SameOutcome
    <2>2. CASE outcome' # outcome
        BY Zenon, <2>2 DEF Poll, Wake, Finish, Outcomes, Refusals
    <2> QED
        BY <2>1, <2>2
<1>3. PICK step \in {"done", "save", "sleep", "poll"} : flowPc' = [flowPc EXCEPT ![f] = step]
    BY Zenon DEF Poll, Wake, Finish, To
<1>4. /\ reqId' \in [Flows -> Nat] /\ \A g \in Flows \ {f} : reqId'[g] = reqId[g]
      /\ steamId' \in [Flows -> Nat] /\ \A g \in Flows \ {f} : steamId'[g] = steamId[g]
      /\ reqId'[f] = steamId'[f]
    <2>1. CASE Poll(f)
        <3>1. PICK hint \in {None, <<0>>, <<steamId[f] + 1>>} :
                  /\ \/ hint \in {None, <<0>>} /\ UNCHANGED steamId
                     \/ /\ hint = <<steamId[f] + 1>>
                        /\ steamId' = [steamId EXCEPT ![f] = @ + 1]
                  /\ reqId' = [reqId EXCEPT ![f] = rotate_client_id(@, hint)]
            BY <2>1, Zenon DEF Poll
        <3>2. steamId[f] \in Nat
            OBVIOUS
        <3>3. CASE hint \in {None, <<0>>} /\ UNCHANGED steamId
            <4>1. reqId' = [reqId EXCEPT ![f] = reqId[f]]
                BY Zenon, <3>1, <3>3 DEF rotate_client_id
            <4> QED
                BY Zenon, <1>1, <3>3, <4>1
        <3>4. CASE hint = <<steamId[f] + 1>> /\ steamId' = [steamId EXCEPT ![f] = @ + 1]
            <4>1. rotate_client_id(reqId[f], hint) = steamId[f] + 1
                BY <3>2, <3>4 DEF rotate_client_id, None
            <4>2. reqId' = [reqId EXCEPT ![f] = steamId[f] + 1] /\ steamId[f] + 1 \in Nat
                BY <3>1, <3>2, <4>1
            <4> QED
                BY Zenon, <3>4, <4>2
        <3> QED
            BY Zenon, <3>1, <3>3, <3>4
    <2>2. CASE Wake(f)
        BY Zenon, <2>2, <1>1 DEF Wake, polling
    <2> QED
        BY Zenon, <2>1, <2>2
<1> QED
    BY ZenonT(30), <1>1, <1>2, <1>3, <1>4, OneFlow, Zenon DEF FlowSteps

-----------------------------------------------------------------------------
\* The invariant is inductive.
LEMMA SignInInvStep == SignInInv /\ [SignInNext]_signInVars => SignInInv'
<1> SUFFICES ASSUME SignInInv, [SignInNext]_signInVars PROVE SignInInv'
    OBVIOUS
<1>1. CASE Tick \/ UNCHANGED signInVars
    BY Zenon, <1>1 DEF Tick, signInVars, SignInInv, FlowsTyped, AskedSteam, KnowsSession,
                          OwesNothing,
                BadEntryIsNotFatal
<1>2. ASSUME NEW f \in Flows, Step(f) PROVE SignInInv'
    BY <1>2, OfflineInv, CallFailsInv, SessionInv, GuardInv, PollInv DEF Step
<1> QED
    BY <1>1, <1>2 DEF SignInNext

\* The invariant holds throughout.
LEMMA SignInHolds == SignInSpec => []SignInInv
BY SignInInvInitially, SignInInvStep, PTL DEF SignInSpec

\* A store entry that is expired or does not decode never fails a sign-in: a flow
\* with a store reports a rejection only once Steam has been asked, and never the
\* stored token's.
THEOREM BadEntryHarmless == SignInSpec => []BadEntryIsNotFatal
<1>1. SignInInv => BadEntryIsNotFatal
    BY DEF SignInInv
<1> QED
    BY <1>1, SignInHolds, PTL

\* Every poll names the auth session Steam last announced, however often it rotates
\* the client id and however the flow slept in between.
THEOREM PollsNameCurrentSession == SignInSpec => []PollsCurrentSession
<1>1. SignInInv => PollsCurrentSession
    BY DEF SignInInv, KnowsSession, PollsCurrentSession
<1> QED
    BY <1>1, SignInHolds, PTL

\* No flow polls for a confirmation that it has not given.
THEOREM PollsAreHopeful == SignInSpec => []PollIsHopeful
<1>1. SignInInv => PollIsHopeful
    BY DEF SignInInv, OwesNothing, PollIsHopeful
<1> QED
    BY <1>1, SignInHolds, PTL
=============================================================================
