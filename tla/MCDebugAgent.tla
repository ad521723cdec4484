---------------------------- MODULE MCDebugAgent ----------------------------
(* Model values for the applications and clients of DebugAgent.           *)
EXTENDS DebugAgent, TLC
=============================================================================
