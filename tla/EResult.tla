------------------------------- MODULE EResult -------------------------------
(***************************************************************************)
(* Steam's result codes, as far as the crate branches on them (error.rs),  *)
(* and the two classifications shared by several components.               *)
(***************************************************************************)
EXTENDS Naturals

OK == 1
FAIL == 2
NO_CONNECTION == 3
INVALID_PASSWORD == 5
BUSY == 10
TIMEOUT == 16
SERVICE_UNAVAILABLE == 20
DUPLICATE_REQUEST == 29
TRY_ANOTHER_CM == 48
ACCOUNT_LOGON_DENIED == 63
RATE_LIMIT_EXCEEDED == 84
NEED_TWO_FACTOR == 85
THROTTLE == 87
CODE_MISMATCH == 88

\* An optional field the sender left out.
Absent == 0

\* unwrap_or(FAIL): the proto2 default of every eresult field
OrFail(code) == IF code = Absent THEN FAIL ELSE code

logon_eresult_retryable(code) ==
    code \in {NO_CONNECTION, BUSY, TIMEOUT, SERVICE_UNAVAILABLE, TRY_ANOTHER_CM,
              RATE_LIMIT_EXCEEDED}
=============================================================================
