-------------------------- MODULE MCCompanionTray --------------------------
(***************************************************************************)
(* A small instance of CompanionTray: the tray of one session and a        *)
(* program of another session that only changes the pairing code.          *)
(***************************************************************************)
EXTENDS CompanionTray, TLC

CONSTANTS tray1, other  \* callers
=============================================================================
