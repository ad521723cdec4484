----------------------------- MODULE MCWorkspace -----------------------------
(* The workspace of one view, bounded for TLC. *)
EXTENDS Workspace
=============================================================================
