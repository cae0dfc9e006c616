--------------------------- MODULE MCRestoreFlow ---------------------------
(* TLC instance of RestoreFlow: the target and one device beside it. *)
EXTENDS RestoreFlow
CONSTANTS target, other
=============================================================================
