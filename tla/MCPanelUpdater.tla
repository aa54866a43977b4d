--------------------------- MODULE MCPanelUpdater ---------------------------
(* Small instances of PanelUpdater for TLC. *)
EXTENDS PanelUpdater

\* Every release brings a migration, except that release 1 brings two.
Migrating == [r \in Releases |-> IF r = 0 THEN 1 ELSE r + 2]
=============================================================================
