------------------------------ MODULE Workspace ------------------------------
(***************************************************************************)
(* tool::Workspace: the commands, the interaction stack and the input      *)
(* router of one view (src/tool/workspace.cc, interaction.cc, command.cc). *)
(* A command activates a tool; an input event goes to the always-on wheel  *)
(* and hover interactions first, then to the top of the stack; after every *)
(* event a finished selection gesture is acknowledged and, if an edit sink *)
(* is set, committed to it.                                                *)
(*                                                                         *)
(* presses and commits are history: the presses handed to a selection tool *)
(* and the calls of EditSink::commit_selection.                            *)
(***************************************************************************)
EXTENDS Integers, Sequences

CONSTANTS ViewId,       \* the view of this workspace
          PressLimit,   \* bound on the presses of a behaviour
          DepthLimit    \* bound on the depth of the stack

VARIABLES stack, selection_requested,
          edit_sink,            \* a sink is set
          presses, commits

wsvars == <<stack, selection_requested, edit_sink, presses, commits>>

SelectionTools == {"selection.point", "selection.rect"}
DraftTools     == SelectionTools \union
                    {"edit.append.point", "edit.append.linestring", "edit.append.polygon"}
View3dTools    == {"view3d.trackball", "view3d.fps"}
PointerTools   == View3dTools \union {"view.pan", "view.zoom_in", "view.zoom_out"}
Tools          == DraftTools \union PointerTools
Succeed        == {"view.full", "view.refresh"}
Commands       == Tools \union Succeed \union {"selection.clear"}
VolumeViews    == {"view0", "view1", "scene"}

ViewAssumption  == ViewId \in VolumeViews \union {"map"}
BoundAssumption == PressLimit \in Nat /\ DepthLimit \in Nat \ {0}
ASSUME Constants == ViewAssumption /\ BoundAssumption

Actions == {"press", "move", "release"}   \* of a mouse event
Events  == Actions \union {"wheel", "key"}

\* A drafting tool carries its gesture; a pointer tool keeps no state, so its
\* three flags stay FALSE.
Interaction == [id : Tools, draft : BOOLEAN, result : BOOLEAN, acked : BOOLEAN]
Create(id)  == [id |-> id, draft |-> FALSE, result |-> FALSE, acked |-> FALSE]

Init == /\ stack = <<>>
        /\ selection_requested = FALSE
        /\ edit_sink = FALSE
        /\ presses = 0
        /\ commits = 0

Allows(id) == id \in View3dTools => ViewId \in VolumeViews

Top == stack[Len(stack)]

-----------------------------------------------------------------------------
(* Commands *)

\* Mutant: the new tool goes on top of the old ones.
ActivateStacks(id) == /\ Allows(id)
                      /\ stack' = Append(stack, Create(id))
                      /\ UNCHANGED <<presses, commits>>

\* InteractionStack::activate drops the whole stack for the new tool.
Activate(id) == /\ Allows(id)
                /\ stack' = <<Create(id)>>
                /\ UNCHANGED <<presses, commits>>

ActivateTool(id) == /\ Activate(id)
                    /\ UNCHANGED edit_sink
                    /\ selection_requested' = (selection_requested \/ id \in SelectionTools)

\* Workspace::execute. An unknown command, or a tool the view does not allow,
\* returns false and changes nothing.
Execute(cmd) ==
  \/ cmd \in Tools /\ ActivateTool(cmd)
  \/ cmd \in Succeed /\ UNCHANGED wsvars
  \/ /\ cmd = "selection.clear"
     /\ selection_requested' = TRUE
     /\ UNCHANGED <<stack, edit_sink, presses, commits>>

Push(id) == /\ Allows(id)
            /\ Len(stack) < DepthLimit
            /\ stack' = Append(stack, Create(id))
            /\ UNCHANGED <<selection_requested, edit_sink, presses, commits>>

Pop == /\ stack # <<>>
       /\ stack' = SubSeq(stack, 1, Len(stack) - 1)
       /\ UNCHANGED <<selection_requested, edit_sink, presses, commits>>

\* set_edit_sink: a sink, or null.
SetEditSink == /\ edit_sink' \in BOOLEAN
               /\ UNCHANGED <<stack, selection_requested, presses, commits>>

-----------------------------------------------------------------------------
(* Input *)

\* DraftingInteraction::on_input; a pointer tool only consumes the mouse.
OnInput(i, e) ==
  IF i.id \notin DraftTools THEN i
  ELSE CASE e = "press" -> [i EXCEPT !.draft = TRUE, !.result = FALSE, !.acked = FALSE]
         [] e = "release" /\ i.draft -> [i EXCEPT !.result = TRUE]
         [] OTHER -> i

\* InputRouter::dispatch: the always-on wheel.zoom takes every wheel event, so
\* none reaches the stack. What it returns, whether the event was consumed, is
\* only reported to observers.
Routed(e) == IF stack # <<>> /\ e # "wheel"
               THEN [stack EXCEPT ![Len(stack)] = OnInput(Top, e)]
               ELSE stack

\* Mutant: only an unfinished gesture is seen as ready.
ReadyLater(st) == /\ st # <<>>
                  /\ st[Len(st)].id \in SelectionTools
                  /\ st[Len(st)].result /\ ~st[Len(st)].acked /\ ~st[Len(st)].draft

\* CommitSelectionIfReady looks at the top of the stack the event left.
Ready(st) == /\ st # <<>>
             /\ st[Len(st)].id \in SelectionTools
             /\ st[Len(st)].result /\ ~st[Len(st)].acked

\* Mutant: the commit forgets to acknowledge the result.
AcknowledgedNever(st) == st

Acknowledged(st) == IF Ready(st) THEN [st EXCEPT ![Len(st)].acked = TRUE] ELSE st

Pressed(e) == IF e = "press" /\ stack # <<>> /\ Top.id \in SelectionTools THEN 1 ELSE 0

\* The result is acknowledged also when there is no sink to take it.
Dispatch(e) ==
  /\ presses + Pressed(e) <= PressLimit
  /\ stack' = Acknowledged(Routed(e))
  /\ commits' = IF Ready(Routed(e)) /\ edit_sink THEN commits + 1 ELSE commits
  /\ presses' = presses + Pressed(e)
  /\ UNCHANGED <<selection_requested, edit_sink>>

Next == \/ \E cmd \in Commands : Execute(cmd)
        \/ \E id \in Tools : Push(id)
        \/ Pop
        \/ SetEditSink
        \/ \E e \in Events : Dispatch(e)

Spec == Init /\ [][Next]_wsvars

-----------------------------------------------------------------------------
(* Properties *)

\* Every value the workspace keeps has its type, and the stack its bound.
TypeOK == /\ stack \in Seq(Interaction)
          /\ Len(stack) <= DepthLimit
          /\ selection_requested \in BOOLEAN /\ edit_sink \in BOOLEAN
          /\ presses \in 0..PressLimit
          /\ commits \in Nat

\* A selection is committed at most once for each press: neither the moves and
\* releases after the gesture, nor leaving the tool under another and coming
\* back to it, nor a sink set or replaced in between, commit it again.
CommitsWithinPresses == commits <= presses

\* A finished selection never waits for another event or for a sink: also an
\* interaction that lies under another one has no result left to commit.
NoResultWaits == \A i \in DOMAIN stack :
                   stack[i].id \in SelectionTools /\ stack[i].result => stack[i].acked

\* A 3D tool is never on the stack of a flat view, whether a command or a push
\* brought it there.
ToolsFitView == \A i \in DOMAIN stack : Allows(stack[i].id)
=============================================================================
