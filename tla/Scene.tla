-------------------------------- MODULE Scene --------------------------------
(***************************************************************************)
(* GisContents with its Scene and its ToolSession: which tool the scene    *)
(* obeys, which presenter shows it, and where a pointer event goes         *)
(* (src/content/browser/session/gis_contents.cc, tooling/tool_session.cc,  *)
(* viewport/present/scene_impl.cc). The workspace of the view "scene" is   *)
(* the one of module Workspace: a pointer event the scene accepts is       *)
(* handed to it as well. Nothing the scene is built with gives that        *)
(* workspace an edit sink: what is picked there is acknowledged and goes   *)
(* nowhere else.                                                           *)
(*                                                                         *)
(* Actors: the shell (tabs, toolbar), the suite and agent lines, and the   *)
(* child windows of the presenters; all of them run on the UI thread, in   *)
(* any order.                                                              *)
(***************************************************************************)
EXTENDS Integers, Sequences

CONSTANTS PressLimit, DepthLimit,   \* bounds of the workspace
          DraftLimit,               \* bound on the points of a draft
          Asked                     \* the tools a line or a toolbar asks for

ASSUME SceneAssumption ==
  PressLimit \in Nat /\ DepthLimit \in Nat \ {0} /\ DraftLimit \in Nat

VARIABLES mode, tool, draft_points, armed, orbit_delta,   \* SceneImpl
          presenters,       \* the surfaces that have a presenter
          bound,            \* presenters whose pointer callback is set
          pointer_down,     \* the button of a drag, shared by both windows
          attach_parent,    \* GisContents: a parent window is known
          last,             \* ToolSession: last interaction and its view
          mark,             \* the last mark written to the capability host
          moved,            \* the last camera movement asked of a presenter
          stack, selection_requested, edit_sink, presses, commits    \* the workspace

W == INSTANCE Workspace WITH ViewId <- "scene"

wsvars    == <<stack, selection_requested, edit_sink, presses, commits>>
scenevars == <<mode, tool, draft_points, armed, orbit_delta, pointer_down, moved>>
hostvars  == <<presenters, bound, attach_parent>>
vars == <<scenevars, hostvars, last, mark, wsvars>>

Modes    == {"scene2d", "scene3d", "columbus"}
Surfaces == {"2d", "3d"}
NoTool   == "none"
None     == "none"
Planar   == {"view.pan", "view.zoom_in", "view.zoom_out"}
Zooming  == Planar \union {"wheel.zoom"}
SceneTools == Zooming \union {"view3d.trackball", "selection.point", "edit.append.point"}
Marks    == {"pick.2d", "pick.3d", "draft.basemap", "draft.groundwater"}
Ops      == {"pan", "tilt", "zoom", "orbit"}
Still    == [surface |-> "2d", op |-> None]

Init == /\ mode = "scene2d" /\ tool = NoTool /\ draft_points = 0
        /\ armed = FALSE /\ orbit_delta = 0
        /\ presenters = {}
        /\ bound = {} /\ pointer_down = None
        /\ attach_parent = FALSE
        /\ last = [id |-> NoTool, view |-> None]
        /\ mark = None
        /\ moved = Still
        /\ W!Init

\* Mutant: the check of the mode is dropped.
ToolAllowedAnywhere(m, id) == id \in SceneTools

\* SceneImpl's ToolAllowed. It knows wheel.zoom, which the session refuses.
ToolAllowed(m, id) ==
  \/ id \in Zooming /\ m \in {"scene2d", "columbus"}
  \/ id = "view3d.trackball" /\ m = "scene3d"
  \/ id \in {"selection.point", "edit.append.point"} /\ m \in {"scene2d", "scene3d"}

\* Mutant: the session lets a point be picked in every mode.
SceneToolAllowedLoosely(m, id) ==
  \/ id \in Planar /\ m \in {"scene2d", "columbus"}
  \/ id = "view3d.trackball" /\ m = "scene3d"
  \/ id \in {"selection.point", "edit.append.point"}

\* The ToolSession's own list: it has no wheel.zoom.
SceneToolAllowed(m, id) ==
  \/ id \in Planar /\ m \in {"scene2d", "columbus"}
  \/ id = "view3d.trackball" /\ m = "scene3d"
  \/ id \in {"selection.point", "edit.append.point"} /\ m \in {"scene2d", "scene3d"}

Surface(m) == IF m = "scene3d" THEN "3d" ELSE "2d"
Active     == Surface(mode)

-----------------------------------------------------------------------------
(* Tools and modes *)

\* tools_->activate, then scene_->ActivateTool, then ArmTrackball for the
\* trackball, in mode m. The session records the tool even if the scene then
\* refuses it.
Activated(m, id) ==
  /\ SceneToolAllowed(m, id)
  /\ last' = [id |-> id, view |-> "scene"]
  /\ \/ /\ ToolAllowed(m, id)
        /\ tool' = id
        /\ draft_points' = IF id = "edit.append.point" THEN 0 ELSE draft_points
        /\ armed' = (armed \/ id = "view3d.trackball")
     \/ /\ ~ToolAllowed(m, id)
        /\ UNCHANGED <<tool, draft_points, armed>>

\* GisContents::OnActivate and ActivateSceneTool for the scene.
ActivateSceneTool(id) ==
  /\ Activated(mode, id)
  /\ UNCHANGED <<mode, orbit_delta, pointer_down, moved, hostvars, mark, wsvars>>

\* OnActivate for a workspace view. Its workspace is another instance of
\* Workspace; here only the session's record of it matters.
ActivateElsewhere(cmd) ==
  /\ cmd \in W!Commands \ W!View3dTools
  /\ last' = [id |-> cmd, view |-> "map"]
  /\ UNCHANGED <<scenevars, hostvars, mark, wsvars>>

\* The command line with view "scene": it reaches the workspace, not the scene.
OnCommand(cmd) == W!Execute(cmd) /\ UNCHANGED <<scenevars, hostvars, last, mark>>

\* The scene_mode line. The tool, the draft and the drag are kept.
OnSceneMode(m) ==
  /\ mode' = m
  /\ UNCHANGED <<tool, draft_points, armed, orbit_delta, pointer_down, moved,
                 hostvars, last, mark, wsvars>>

\* WorkbenchContents::SelectViewTab: the mode of the tab, then its tool.
SelectViewTab(m) ==
  /\ m # "columbus"
  /\ mode' = m
  /\ Activated(m, IF m = "scene3d" THEN "view3d.trackball" ELSE "view.pan")
  /\ UNCHANGED <<orbit_delta, pointer_down, moved, hostvars, mark, wsvars>>

-----------------------------------------------------------------------------
(* Attach: each presenter is created by code that may fail. *)

\* Mutant: the old 3D presenter is dropped before the new one is made.
AttachFailsLateDropping ==
  /\ presenters' = {"2d"}
  /\ bound' = bound \ {"2d"}
  /\ UNCHANGED <<scenevars, attach_parent, last, mark, wsvars>>

\* The map was replaced, then no 3D presenter could be made: the new map has
\* no pointer callback, the old 3D presenter stays.
AttachFailsLate ==
  /\ presenters' = presenters \union {"2d"}
  /\ bound' = bound \ {"2d"}
  /\ UNCHANGED <<scenevars, attach_parent, last, mark, wsvars>>

\* AttachView: the map, then UE if it answers or else FlyCube; then the pan
\* tool. The camera sample, the trackball's arming and the drag are those of
\* the old scene.
Attach ==
  /\ presenters' = Surfaces
  /\ mode' = "scene2d"
  /\ bound' = Surfaces
  /\ attach_parent' = TRUE
  /\ Activated("scene2d", "view.pan")
  /\ UNCHANGED <<orbit_delta, pointer_down, moved, mark, wsvars>>

-----------------------------------------------------------------------------
(* Pointer events *)

\* The event a presenter is asked to move its camera for, or None.
Movement(e) ==
  CASE e = "wheel" /\ tool \in Zooming /\ mode # "scene3d"      -> "zoom"
    [] e = "wheel" /\ tool \in Zooming \ {"view.pan"}           -> "zoom"
    [] e = "wheel" /\ tool = "view3d.trackball"                 -> "zoom"
    [] e = "move" /\ tool = "view.pan"                          -> "pan"
    [] e = "rightmove" /\ tool = "view.pan"                     -> "tilt"
    [] e \in {"move", "rightmove"} /\ tool = "view3d.trackball" -> "orbit"
    [] OTHER                                                    -> None

Moves(e) == Active \in presenters /\ Movement(e) # None

PickMark == IF mode = "scene2d" THEN "pick.2d" ELSE "pick.3d"

ScenePointers == {"press", "move", "rightmove", "release", "wheel"}
ToToolEvent(e) == IF e = "rightmove" THEN "move" ELSE e

\* NotePointer: any move over the scene, once the trackball was armed.
NotePointer(e) == IF armed /\ e \in {"move", "rightmove"} THEN 1 ELSE orbit_delta

\* The scene accepts the event: OnPointer, the workspace, the mark.
Accepted(e) ==
  /\ ToolAllowed(mode, tool)
  /\ moved' = IF Moves(e) THEN [surface |-> Active, op |-> Movement(e)] ELSE moved
  /\ orbit_delta' = IF Moves(e) /\ Movement(e) = "orbit" THEN 1 ELSE NotePointer(e)
  /\ draft_points' = draft_points +
                       (IF e = "press" /\ tool = "edit.append.point" THEN 1 ELSE 0)
  /\ draft_points' <= DraftLimit
  /\ mark' = IF e = "press" /\ tool = "selection.point" THEN PickMark ELSE mark
  /\ W!Dispatch(ToToolEvent(e))
  /\ UNCHANGED <<mode, tool, armed, hostvars, last>>

\* The scene refuses it: only the sample of NotePointer is left behind.
Refused(e) ==
  /\ ~ToolAllowed(mode, tool)
  /\ orbit_delta' = NotePointer(e)
  /\ UNCHANGED <<mode, tool, draft_points, armed, moved, hostvars, last, mark, wsvars>>

OnPointer(e) == Accepted(e) \/ Refused(e)

\* The pointer line of a suite or of the agent.
PointerLine(e) == OnPointer(e) /\ UNCHANGED pointer_down

\* OnHwndPointer, from the window in view. A move without a press is hover and
\* is not forwarded; a drag keeps the button of its press.
HwndPointer(e) ==
  /\ attach_parent            \* the forwarder is set
  /\ Active \in bound
  /\ e = "move" => pointer_down = "left"
  /\ e = "rightmove" => pointer_down = "right"
  /\ pointer_down' \in CASE e = "press"   -> {"left", "right"}
                         [] e = "release" -> {None}
                         [] OTHER         -> {pointer_down}
  /\ OnPointer(e)

\* SceneImpl::Commit.
Commit ==
  /\ tool = "edit.append.point" /\ draft_points >= 1
  /\ mode # "columbus"
  /\ draft_points' = 0
  /\ mark' = IF mode = "scene2d" THEN "draft.basemap" ELSE "draft.groundwater"
  /\ UNCHANGED <<mode, tool, armed, orbit_delta, pointer_down, moved,
                 hostvars, last, wsvars>>

Next == \/ \E id \in Asked : ActivateSceneTool(id)
        \/ \E cmd \in Asked : ActivateElsewhere(cmd)
        \/ \E cmd \in Asked : OnCommand(cmd)
        \/ \E m \in Modes : OnSceneMode(m) \/ SelectViewTab(m)
        \/ AttachFailsLate
        \/ Attach
        \/ \E e \in ScenePointers : PointerLine(e) \/ HwndPointer(e)
        \/ Commit

Spec == Init /\ [][Next]_vars

-----------------------------------------------------------------------------
(* Properties *)

\* The members of SceneImpl, ToolSession and GisContents keep their types, and
\* only a presenter that exists has a pointer callback.
TypeOK ==
  /\ mode \in Modes /\ tool \in SceneTools \union {NoTool}
  /\ draft_points \in 0..DraftLimit
  /\ armed \in BOOLEAN /\ orbit_delta \in {0, 1}
  /\ pointer_down \in {"left", "right", None}
  /\ presenters \subseteq Surfaces /\ bound \subseteq presenters
  /\ attach_parent \in BOOLEAN
  /\ last.view \in {None, "scene", "map"}
  /\ mark \in Marks \union {None}
  /\ moved.surface \in Surfaces /\ moved.op \in Ops \union {None}

\* The session and the scene agree on the scene's tool: gis_contents.cc keeps
\* "both sides in sync", whichever of the shell, a line or an attach chose it
\* and whatever the mode was then.
SidesInSync == last.view = "scene" => last.id = tool

\* A mode switched under a tool never lets the tool drive the wrong camera: the
\* flat map is panned, tilted and zoomed, only the globe is orbited.
NavigationFits == /\ moved.op = "orbit" => moved.surface = "3d"
                  /\ moved.op \in {"pan", "tilt"} => moved.surface = "2d"

\* Once attached, the scene always has something to draw each mode with, also
\* after a second attach failed half way.
PairKept == attach_parent => presenters = Surfaces
=============================================================================
