--------------------------- MODULE MCStatusRefresh ---------------------------
(* Small instances of StatusRefresh for TLC. *)
EXTENDS StatusRefresh, TLC

ReqSymmetry == Permutations(Reqs)
=============================================================================
