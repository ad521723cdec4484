------------------------------ MODULE MCUePipe ------------------------------
(* Instances of UePipe for TLC.                                            *)
EXTENDS UePipe, TLC
=============================================================================
