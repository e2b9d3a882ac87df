------------------------ MODULE MCPendingReferences -------------------------
(***************************************************************************)
(* Instances of PendingReferences for TLC.                                 *)
(***************************************************************************)
EXTENDS PendingReferences
=============================================================================
