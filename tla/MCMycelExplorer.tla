-------------------------- MODULE MCMycelExplorer --------------------------
(* Small instances of MycelExplorer for TLC. *)
EXTENDS MycelExplorer, TLC

=============================================================================
