------------------------- MODULE MCCompanionUpdater -------------------------
(* Small instances of CompanionUpdater for TLC. *)
EXTENDS CompanionUpdater, TLC

\* Workers differ in nothing; used where no temporal property is checked.
WorkerSymmetry == Permutations(Workers)
=============================================================================
