------------------------------ MODULE MCGcPump ------------------------------
(* Two requests, of which one takes any reply, or none when only the pump matters. *)
EXTENDS GcPump

CONSTANTS r1, r2
MCRequests == {r1, r2}
MCPlain == {r2}
=============================================================================
