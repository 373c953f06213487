-------------------------- MODULE MCSessionDriver ---------------------------
(* Instances of SessionDriver for TLC. *)
EXTENDS SessionDriver, TLC

\* Requests that differ only in name are interchangeable.
RequestSymmetry == Permutations(Requests)
=============================================================================
