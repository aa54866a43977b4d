---------------------------- MODULE MCPanelPage ----------------------------
(***************************************************************************)
(* A small instance of PanelPage: this page, and another one that asks for *)
(* updates of the same Companion.                                          *)
(***************************************************************************)
EXTENDS PanelPage, TLC

CONSTANTS here, there  \* pages
=============================================================================
