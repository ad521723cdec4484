------------------------------- MODULE MCScene -------------------------------
(* The scene, its session and its workspace, bounded for TLC. *)
EXTENDS Scene
=============================================================================
