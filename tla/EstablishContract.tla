-------------------------- MODULE EstablishContract --------------------------
(***************************************************************************)
(* What spawn_session promises its caller about the initial connect,       *)
(* however many servers, rounds and timeouts it takes: it ends, with a     *)
(* session exactly when Steam accepted the logon, with AuthRejected        *)
(* exactly when Steam turned the account down for good, and nothing is     *)
(* asked of Steam after either verdict.                                    *)
(***************************************************************************)
VARIABLES said,    \* the verdicts Steam gave during this call
          outcome  \* what the call returned, "pending" until then

Init == said = {} /\ outcome = "pending"

Final == said \intersect {"accepted", "rejected"} # {}

Hear == /\ outcome = "pending"
        /\ ~Final
        /\ \E v \in {"accepted", "rejected", "transient"} : said' = said \union {v}
        /\ UNCHANGED outcome

Return == /\ outcome = "pending"
          /\ outcome' = CASE "accepted" \in said -> "session"
                          [] "rejected" \in said -> "AuthRejected"
                          [] OTHER -> "failed"
          /\ UNCHANGED said

Safe == Init /\ [][Hear \/ Return]_<<said, outcome>>
Spec == Safe /\ WF_<<said, outcome>>(Return)
=============================================================================
