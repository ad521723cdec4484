---------------------------- MODULE MCWorkbench ----------------------------
(* Four handles: two live windows, one dead handle a host holds, a new one. *)
EXTENDS Workbench
=============================================================================
