-------------------------------- MODULE SignIn --------------------------------
(***************************************************************************)
(* Signing in (auth/signin.rs, webapi.rs, jwt.rs): flows that reuse a       *)
(* stored refresh token or run the password flow (RSA key, auth session,   *)
(* Steam Guard, poll for the token) and save what they get.  Flows of one  *)
(* account share the caller's TokenStore.  Steam, the network and the      *)
(* store may fail any call; time passes between any two steps.  Times are  *)
(* what is left of them, so that an hour needs no counter.                 *)
(***************************************************************************)
EXTENDS Integers, FiniteSets, EResult

CONSTANTS Flows,
          Builder,      \* how each flow is built: "store", "password", "token"
          Casts,        \* the sets of flows that may run beside each other
          Secrets,      \* the shared_secret: "none", "bad" (not base64), "good"
          Guards,       \* the sets of confirmations Steam may list; "untyped" has no type
          Slack,        \* TOKEN_EXPIRY_SLACK_SECS
          Life,         \* how long a token Steam issues lives
          Budget,       \* POLL_BUDGET
          MaxInterval,  \* upper clamp of the poll interval
          DefaultInterval, \* POLL_DEFAULT_INTERVAL_SECS
          MaxRotations  \* bound: client ids Steam hands out per flow

ASSUME SignInAssumption ==
    /\ Slack \in Nat /\ Life \in Nat /\ Slack < Life
    /\ Budget \in Nat \ {0} /\ MaxInterval \in Nat \ {0}
    /\ DefaultInterval \in 1..MaxInterval /\ MaxRotations \in Nat \ {0}

VARIABLES store,     \* the account's saved token, or None
          flowPc, token, \* per flow: next step, token in hand
          sess,      \* per flow: what begin_session returned
          reqId,     \* per flow: client_id of the next poll
          steamId,   \* per flow: client id Steam last announced
          budget, nap,  \* per flow: time left of the poll phase, of the sleep
          outcome,
          asked, proved   \* history
signInVars == <<store, flowPc, token, sess, reqId, steamId, budget, nap, outcome, asked,
                proved>>

None == <<>>
Never == Life + 1   \* a token without an exp claim
Token == [decodes : BOOLEAN, left : 0..Never]
NoSession == [guards |-> {}, interval |-> 1]

SignInInit ==
    /\ store \in {None} \union {<<t>> : t \in Token}
    /\ \E cast \in Casts :
          /\ (\A f \in cast : Builder[f] # "store") => store = None
          /\ flowPc = [f \in Flows |-> CASE f \notin cast -> "absent"
                                       [] f \in cast /\ Builder[f] = "store" -> "load"
                                       [] f \in cast /\ Builder[f] = "token" -> "check"
                                       [] OTHER -> "rsa"]
          /\ token \in [Flows -> {None} \union {<<t>> : t \in Token}]
          /\ \A f \in Flows : (token[f] # None) = (f \in cast /\ Builder[f] = "token")
    /\ sess = [f \in Flows |-> NoSession]
    /\ reqId = [f \in Flows |-> 0] /\ steamId = [f \in Flows |-> 0]
    /\ budget = [f \in Flows |-> 0] /\ nap = [f \in Flows |-> 0]
    /\ outcome = [f \in Flows |-> "none"]
    /\ asked = {} /\ proved = {}

To(f, step) == flowPc' = [flowPc EXCEPT ![f] = step]
Finish(f, o) == To(f, "done") /\ outcome' = [outcome EXCEPT ![f] = o]
polling == <<sess, reqId, steamId, budget, nap, proved>>

-----------------------------------------------------------------------------
\* execute_with_store: load the saved token.
Load(f) ==
    /\ flowPc[f] = "load"
    /\ \/ Finish(f, "TokenStore") /\ UNCHANGED token
       \/ /\ token' = [token EXCEPT ![f] = store]
          /\ To(f, IF store = None THEN "rsa" ELSE "check")
          /\ UNCHANGED outcome
    /\ UNCHANGED <<store, polling, asked>>

\* exp.saturating_sub(slack) <= now
Expired(t) == t.left # Never /\ t.left <= Slack

\* fault: a stored token that does not decode fails the sign-in
TokenUnusableStrict(f, err) == IF Builder[f] = "store" /\ err = "TokenRejected"
                               THEN To(f, "rsa") /\ UNCHANGED outcome
                               ELSE Finish(f, err)
\* A store flow re-authenticates, whatever is wrong with the token; a token
\* builder is told.
TokenUnusable(f, err) == IF Builder[f] = "store" THEN To(f, "rsa") /\ UNCHANGED outcome
                                                 ELSE Finish(f, err)

\* execute_refresh_token_flow, offline: decode the JWT, check its expiry.
Check(f) ==
    /\ flowPc[f] = "check"
    /\ LET t == token[f][1] IN
        CASE ~t.decodes -> TokenUnusable(f, "AuthRejected")
          [] t.decodes /\ Expired(t) -> TokenUnusable(f, "TokenRejected")
          [] OTHER -> IF Builder[f] = "store" THEN To(f, "save") /\ UNCHANGED outcome
                                              ELSE Finish(f, "Success")
    /\ UNCHANGED <<store, token, polling, asked>>

Save(f) ==
    /\ flowPc[f] = "save"
    /\ \/ Finish(f, "TokenStore") /\ UNCHANGED store
       \/ Finish(f, "Success") /\ store' = token[f]
    /\ UNCHANGED <<token, polling, asked>>

-----------------------------------------------------------------------------
map_non_ok_eresult(er) ==
    CASE er = INVALID_PASSWORD -> "InvalidCredentials"
      [] er = ACCOUNT_LOGON_DENIED -> "NeedsEmailGuardCode"
      [] er = NEED_TWO_FACTOR -> "NeedsMobileGuardCode"
      [] er = CODE_MISMATCH -> "GuardCodeRejected"
      [] er \in {RATE_LIMIT_EXCEEDED, THROTTLE} -> "RateLimited"
      [] OTHER -> "AuthRejected"
NonOk == {FAIL, INVALID_PASSWORD, ACCOUNT_LOGON_DENIED, RATE_LIMIT_EXCEEDED,
          NEED_TWO_FACTOR, CODE_MISMATCH}

\* WebApiClient::call and its callers' checks, when the flow ends here: no
\* response, one without a usable x-eresult or body, one that lacks a required
\* field, or a result other than OK.
CallFails(f) ==
    /\ flowPc[f] \in {"rsa", "begin", "code", "poll"}
    /\ \/ Finish(f, "Network")
       \/ Finish(f, "AuthRejected")
       \/ \E er \in NonOk : Finish(f, map_non_ok_eresult(er))
    /\ asked' = asked \union {f}
    /\ UNCHANGED <<store, token, polling>>

\* WebApiClient::new, which may fail before Steam is asked, then fetch_rsa_key
\* and encrypt_password.
FetchRsaKey(f) ==
    /\ flowPc[f] = "rsa"
    /\ \/ Finish(f, "InvalidConfig") /\ UNCHANGED asked
       \/ To(f, "begin") /\ asked' = asked \union {f} /\ UNCHANGED outcome
    /\ UNCHANGED <<store, token, polling>>

\* The hint is in half seconds, None if it is absent or not a number.
compute_poll_interval(h) ==
    IF h = None \/ h[1] <= 0 THEN DefaultInterval
    ELSE LET clamped == IF h[1] < 2 THEN 2
                        ELSE IF h[1] > 2 * MaxInterval THEN 2 * MaxInterval ELSE h[1]
         IN (clamped + 1) \div 2
Hints == {None, <<0>>, <<1>>, <<3>>, <<2 * MaxInterval + 3>>}

\* A confirmation without a type is skipped.
BeginSession(f) ==
    /\ flowPc[f] = "begin"
    /\ \E g \in Guards, h \in Hints :
          sess' = [sess EXCEPT ![f] = [guards |-> g \ {"untyped"},
                                       interval |-> compute_poll_interval(h)]]
    /\ reqId' = [reqId EXCEPT ![f] = 1] /\ steamId' = [steamId EXCEPT ![f] = 1]
    /\ To(f, "guard")
    /\ UNCHANGED <<store, token, budget, nap, proved, outcome, asked>>

StartPolling(f) == /\ To(f, "poll")
                   /\ budget' = [budget EXCEPT ![f] = Budget]
                   /\ UNCHANGED outcome

\* fault: a prompt the flow cannot answer is left to the poll
UnsupportedTried(g) == FALSE
Unsupported(g) == g # {} /\ "none" \notin g

\* resolve_guard, up to the code's submission
ResolveGuard(f) ==
    /\ flowPc[f] = "guard"
    /\ LET g == sess[f].guards IN
        IF "device" \in g
        THEN /\ \E secret \in Secrets :
                   CASE secret = "none" -> Finish(f, "NeedsMobileGuardCode")
                     [] secret = "bad" -> Finish(f, "InvalidSecret")
                     [] OTHER -> To(f, "code") /\ UNCHANGED outcome
             /\ UNCHANGED budget
        ELSE IF "email" \in g THEN Finish(f, "NeedsEmailGuardCode") /\ UNCHANGED budget
        ELSE IF Unsupported(g) THEN Finish(f, "AuthRejected") /\ UNCHANGED budget
        ELSE StartPolling(f)
    /\ UNCHANGED <<store, token, sess, reqId, steamId, nap, proved, asked>>

SubmitCode(f) ==
    /\ flowPc[f] = "code"
    /\ StartPolling(f)
    /\ proved' = proved \union {f}
    /\ UNCHANGED <<store, token, sess, reqId, steamId, nap, asked>>

\* fault: the rotation hint is ignored
KeepClientId(current, hint) == current
rotate_client_id(current, hint) == IF hint \in {None, <<0>>} THEN current ELSE hint[1]

\* One PollAuthSessionStatus that is answered OK: a token, or nothing yet; Steam
\* may rotate the auth session.  Issued tokens need not decode.
Poll(f) ==
    /\ flowPc[f] = "poll"
    /\ \E hint \in {None, <<0>>, <<steamId[f] + 1>>} :
          /\ \/ hint \in {None, <<0>>} /\ UNCHANGED steamId
             \/ /\ hint = <<steamId[f] + 1>> /\ steamId[f] < MaxRotations
                /\ steamId' = [steamId EXCEPT ![f] = @ + 1]
          /\ reqId' = [reqId EXCEPT ![f] = rotate_client_id(@, hint)]
    /\ \/ /\ To(f, "sleep") /\ nap' = [nap EXCEPT ![f] = sess[f].interval]
          /\ UNCHANGED <<token, outcome>>
       \/ /\ \E d \in BOOLEAN : token' = [token EXCEPT ![f] = <<[decodes |-> d, left |-> Life]>>]
          /\ IF Builder[f] = "store" THEN To(f, "save") /\ UNCHANGED outcome
                                     ELSE Finish(f, "Success")
          /\ UNCHANGED nap
    /\ UNCHANGED <<store, sess, budget, proved, asked>>

\* fault: past the deadline the loop goes on sleeping
WakeForever(f) ==
    /\ flowPc[f] = "sleep" /\ nap[f] = 0
    /\ IF budget[f] = 0 THEN nap' = [nap EXCEPT ![f] = sess[f].interval] /\ UNCHANGED flowPc
                        ELSE To(f, "poll") /\ UNCHANGED nap
    /\ UNCHANGED <<store, token, sess, reqId, steamId, budget, proved, outcome, asked>>
Wake(f) ==
    /\ flowPc[f] = "sleep" /\ nap[f] = 0
    /\ IF budget[f] = 0 THEN Finish(f, "Timeout") ELSE To(f, "poll") /\ UNCHANGED outcome
    /\ UNCHANGED <<store, token, polling, asked>>

\* A second passes, for tokens, sleeps and the poll budget alike.
Less(n) == IF n = 0 THEN 0 ELSE n - 1
Older(t) == IF t = None \/ t[1].left = Never THEN t
            ELSE <<[t[1] EXCEPT !.left = Less(@)]>>
Tick == /\ store' = Older(store)
        /\ token' = [f \in Flows |-> Older(token[f])]
        /\ budget' = [f \in Flows |-> Less(budget[f])]
        /\ nap' = [f \in Flows |-> Less(nap[f])]
        /\ UNCHANGED <<flowPc, sess, reqId, steamId, outcome, asked, proved>>

Step(f) == \/ Load(f) \/ Check(f) \/ Save(f) \/ CallFails(f) \/ FetchRsaKey(f)
           \/ BeginSession(f) \/ ResolveGuard(f) \/ SubmitCode(f) \/ Poll(f) \/ Wake(f)
SignInNext == Tick \/ \E f \in Flows : Step(f)

SignInSpec == SignInInit /\ [][SignInNext]_signInVars
\* Calls return (the HTTP client and the store bound them) and time passes.
SignInFairness == WF_signInVars(Tick) /\ \A f \in Flows : WF_signInVars(Step(f))
FairSpec == SignInSpec /\ SignInFairness

-----------------------------------------------------------------------------
\* A bad store entry is never fatal: a flow with a store fails with a rejection
\* only after it has asked Steam, and never reports the stored token's.
BadEntryIsNotFatal ==
    \A f \in Flows : Builder[f] = "store" =>
        /\ outcome[f] # "TokenRejected"
        /\ outcome[f] = "AuthRejected" => f \in asked

\* A poll names the auth session Steam last announced.
PollsCurrentSession == \A f \in Flows : flowPc[f] = "poll" => reqId[f] = steamId[f]

\* No flow spends its budget polling for a confirmation it has not given: of those
\* Steam gave a type it wants none, or the code was taken.
PollIsHopeful ==
    \A f \in Flows : flowPc[f] = "poll" =>
        \/ sess[f].guards = {} \/ "none" \in sess[f].guards
        \/ f \in proved

\* Every sign-in ends, even if Steam never issues the token.
SignInEnds == \A f \in Flows : <>(flowPc[f] \in {"absent", "done"})
=============================================================================
