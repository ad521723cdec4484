------------------------------ MODULE MCUiLoop ------------------------------
(* Two tasks. The UI thread and one poster post tasks of three kinds, another *)
(* poster tasks without delay.                                                *)
EXTENDS UiLoop, TLC

CONSTANTS p1, p2

Now   == [delay |-> 0, nestable |-> TRUE]
Later == [delay |-> 1, nestable |-> TRUE]
Shy   == [delay |-> 0, nestable |-> FALSE]

MCKinds == (UI :> {Now, Shy, Later}) @@ (p1 :> {Now, Shy, Later}) @@ (p2 :> {Now})
=============================================================================
