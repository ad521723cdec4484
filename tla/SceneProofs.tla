----------------------------- MODULE SceneProofs -----------------------------
(***************************************************************************)
(* Machine-checked proofs about Scene, for every bound and every set of    *)
(* tools asked for.                                                        *)
(*                                                                         *)
(* The scene's own invariants, and the composition: what the scene does to *)
(* the stack of its workspace is what a workspace does, so what is proved  *)
(* of a workspace alone holds of the one inside the scene.                 *)
(***************************************************************************)
EXTENDS Scene, TLAPS

WP == INSTANCE WorkspaceProofs WITH ViewId <- "scene"

Inv == TypeOK /\ SidesInSync /\ NavigationFits /\ PairKept
-----------------------------------------------------------------------------
(* Whatever the session accepts the scene accepts too, so the scene never  *)
(* refuses what the session has just recorded.                             *)
LEMMA SessionWithinScene ==
  ASSUME NEW m, NEW id, SceneToolAllowed(m, id)
  PROVE  ToolAllowed(m, id) /\ id \in SceneTools
  BY DEF SceneToolAllowed, ToolAllowed, SceneTools, Zooming, Planar

(* The tool that drives a camera and the camera it drives.                 *)
LEMMA MovementFits ==
  ASSUME TypeOK, NEW e \in ScenePointers, ToolAllowed(mode, tool)
  PROVE  /\ Movement(e) \in Ops \union {None}
         /\ Movement(e) = "orbit" => Active = "3d"
         /\ Movement(e) \in {"pan", "tilt"} => Active = "2d"
  <1>1. Movement(e) \in Ops \union {None}
    BY DEF Movement, Ops, None
  <1>2. Movement(e) = "orbit" => tool = "view3d.trackball"
    BY DEF Movement, None
  <1>3. Movement(e) \in {"pan", "tilt"} => tool = "view.pan"
    BY DEF Movement, None
  <1>4. tool = "view3d.trackball" => mode = "scene3d"
    BY DEF ToolAllowed, Zooming, Planar
  <1>5. tool = "view.pan" => mode # "scene3d"
    BY DEF ToolAllowed, Zooming, Planar
  <1> QED BY <1>1, <1>2, <1>3, <1>4, <1>5 DEF Active, Surface

LEMMA InitInv == Init => Inv
  <1> SUFFICES ASSUME Init PROVE Inv
    OBVIOUS
  <1>1. moved.surface = "2d" /\ moved.op = None
    BY DEF Init, Still
  <1>2. last.view = None
    BY DEF Init
  <1>3. TypeOK
    <2>1. draft_points \in 0..DraftLimit /\ orbit_delta \in {0, 1}
      BY SceneAssumption DEF Init
    <2> QED BY <1>1, <1>2, <2>1 DEF Init, TypeOK, Modes, NoTool, None, Surfaces
  <1>4. NavigationFits
    BY <1>1 DEF NavigationFits, None
  <1> QED BY <1>2, <1>3, <1>4 DEF Init, Inv, SidesInSync, PairKept, None

(* Choosing a tool in a mode: the tool, the session and the draft move     *)
(* together.                                                               *)
LEMMA ActivatedStep ==
  ASSUME Inv, NEW m, NEW id, Activated(m, id)
  PROVE  /\ SidesInSync' /\ tool' \in SceneTools
         /\ draft_points' \in 0..DraftLimit /\ armed' \in BOOLEAN
         /\ last'.view = "scene"
  <1>1. ToolAllowed(m, id) /\ id \in SceneTools
    BY SessionWithinScene DEF Activated
  <1>2. last' = [id |-> id, view |-> "scene"] /\ tool' = id
    BY <1>1 DEF Activated
  <1>3. draft_points' \in {0, draft_points} /\ armed' \in BOOLEAN
    BY <1>1 DEF Activated, Inv, TypeOK
  <1> QED
    BY <1>1, <1>2, <1>3, SceneAssumption DEF SidesInSync, Inv, TypeOK

LEMMA ToolSteps ==
  ASSUME Inv,
         \/ \E id \in Asked : ActivateSceneTool(id) \/ ActivateElsewhere(id) \/ OnCommand(id)
         \/ \E m \in Modes : OnSceneMode(m) \/ SelectViewTab(m)
  PROVE  Inv'
  <1>1. ASSUME NEW id \in Asked, ActivateSceneTool(id) PROVE Inv'
    <2>1. Activated(mode, id)
      BY <1>1 DEF ActivateSceneTool
    <2> QED
      BY <1>1, <2>1, ActivatedStep
         DEF ActivateSceneTool, hostvars, Inv, TypeOK, NavigationFits, PairKept
  <1>2. ASSUME NEW id \in Asked, ActivateElsewhere(id) PROVE Inv'
    BY <1>2 DEF ActivateElsewhere, scenevars, hostvars, Inv, TypeOK, SidesInSync,
                NavigationFits, PairKept
  <1>3. ASSUME NEW id \in Asked, OnCommand(id) PROVE Inv'
    BY <1>3 DEF OnCommand, scenevars, hostvars, Inv, TypeOK, SidesInSync,
                NavigationFits, PairKept
  <1>4. ASSUME NEW m \in Modes, OnSceneMode(m) PROVE Inv'
    BY <1>4 DEF OnSceneMode, hostvars, Inv, TypeOK, SidesInSync, NavigationFits, PairKept
  <1>5. ASSUME NEW m \in Modes, SelectViewTab(m) PROVE Inv'
    <2>1. Activated(m, IF m = "scene3d" THEN "view3d.trackball" ELSE "view.pan")
      BY <1>5 DEF SelectViewTab
    <2> QED
      BY <1>5, <2>1, ActivatedStep
         DEF SelectViewTab, hostvars, Inv, TypeOK, NavigationFits, PairKept
  <1> QED BY <1>1, <1>2, <1>3, <1>4, <1>5

LEMMA AttachSteps ==
  ASSUME Inv, AttachFailsLate \/ Attach
  PROVE  Inv'
  <1>1. ASSUME AttachFailsLate PROVE Inv'
    BY <1>1 DEF AttachFailsLate, scenevars, Inv, TypeOK, SidesInSync, NavigationFits,
                PairKept, Surfaces
  <1>2. ASSUME Attach PROVE Inv'
    <2>1. Activated("scene2d", "view.pan")
      BY <1>2 DEF Attach
    <2> QED
      BY <1>2, <2>1, ActivatedStep DEF Attach, Inv, TypeOK, NavigationFits, PairKept, Modes
  <1> QED BY <1>1, <1>2

LEMMA PointerSteps ==
  ASSUME Inv, NEW e \in ScenePointers, OnPointer(e),
         pointer_down' \in {"left", "right", None}
  PROVE  Inv'
  <1>1. NotePointer(e) \in {0, 1}
    BY DEF NotePointer, Inv, TypeOK
  <1>2. CASE Accepted(e)
    <2>1. UNCHANGED <<mode, tool, armed, presenters, bound, attach_parent, last>>
      BY <1>2 DEF Accepted, hostvars
    <2>2. draft_points' \in 0..DraftLimit
      BY <1>2, SceneAssumption DEF Accepted, Inv, TypeOK
    <2>3. orbit_delta' \in {0, 1} /\ mark' \in Marks \union {None}
      BY <1>1, <1>2 DEF Accepted, Inv, TypeOK, Marks, PickMark
    <2>4. Active \in Surfaces
      BY DEF Active, Surface, Surfaces
    <2>5. /\ moved'.surface \in Surfaces /\ moved'.op \in Ops \union {None}
          /\ NavigationFits'
      BY <1>2, <2>4, MovementFits DEF Accepted, Inv, TypeOK, NavigationFits
    <2> QED
      BY <2>1, <2>2, <2>3, <2>5 DEF Inv, TypeOK, SidesInSync, PairKept
  <1>3. CASE Refused(e)
    BY <1>1, <1>3 DEF Refused, hostvars, Inv, TypeOK, SidesInSync, NavigationFits, PairKept
  <1> QED BY <1>2, <1>3 DEF OnPointer

LEMMA CommitStep ==
  ASSUME Inv, Commit
  PROVE  Inv'
  BY SceneAssumption DEF Commit, hostvars, Inv, TypeOK, SidesInSync, NavigationFits,
     PairKept, Marks

LEMMA StepInv == Inv /\ [Next]_vars => Inv'
  <1> SUFFICES ASSUME Inv, [Next]_vars PROVE Inv'
    OBVIOUS
  <1>1. ASSUME NEW e \in ScenePointers, PointerLine(e) \/ HwndPointer(e) PROVE Inv'
    <2>1. OnPointer(e) /\ pointer_down' \in {"left", "right", None}
      BY <1>1 DEF PointerLine, HwndPointer, Inv, TypeOK
    <2> QED BY <2>1, PointerSteps
  <1>2. CASE UNCHANGED vars
    BY <1>2 DEF vars, scenevars, hostvars, Inv, TypeOK, SidesInSync, NavigationFits, PairKept
  <1> QED BY <1>1, <1>2, ToolSteps, AttachSteps, CommitStep DEF Next

LEMMA InvHolds == Spec => []Inv
  BY InitInv, StepInv, PTL DEF Spec
-----------------------------------------------------------------------------
(* Type correctness, for every bound on the points of a draft.             *)
THEOREM SceneTyped == Spec => []TypeOK
  <1>1. Inv => TypeOK
    BY DEF Inv
  <1> QED BY <1>1, InvHolds, PTL

(* Whoever chooses the scene's tool, the session and the scene agree.      *)
THEOREM SessionAndSceneAgree == Spec => []SidesInSync
  <1>1. Inv => SidesInSync
    BY DEF Inv
  <1> QED BY <1>1, InvHolds, PTL

(* No tool left over from another mode moves the wrong camera.             *)
THEOREM CameraFitsMode == Spec => []NavigationFits
  <1>1. Inv => NavigationFits
    BY DEF Inv
  <1> QED BY <1>1, InvHolds, PTL

(* A second attach that fails half way leaves both presenters in place.    *)
THEOREM PresentersKept == Spec => []PairKept
  <1>1. Inv => PairKept
    BY DEF Inv
  <1> QED BY <1>1, InvHolds, PTL
-----------------------------------------------------------------------------
(* Composition: the stack inside the scene is a workspace of its own.      *)
THEOREM SceneContainsWorkspace == Spec => W!Spec
  <1>1. Init => W!Init
    BY DEF Init
  <1>2. [Next]_vars => [W!Next]_(W!wsvars)
    <2> SUFFICES ASSUME Next, ~(UNCHANGED wsvars) PROVE W!Next
      BY DEF vars, wsvars, W!wsvars
    <2>1. ASSUME NEW cmd \in Asked, OnCommand(cmd) PROVE W!Next
      <3>1. cmd \in W!Commands /\ W!Execute(cmd)
        BY <2>1 DEF OnCommand, W!Execute, W!Commands
      <3> QED BY <3>1 DEF W!Next
    <2>2. ASSUME NEW e \in ScenePointers, OnPointer(e) PROVE W!Next
      <3>1. ToToolEvent(e) \in W!Events
        BY DEF ScenePointers, ToToolEvent, W!Events, W!Actions
      <3>2. W!Dispatch(ToToolEvent(e))
        BY <2>2 DEF OnPointer, Accepted, Refused
      <3> QED BY <3>1, <3>2 DEF W!Next
    <2> QED
      BY <2>1, <2>2 DEF Next, ActivateSceneTool, ActivateElsewhere, OnSceneMode,
         SelectViewTab, AttachFailsLate, Attach, Commit, PointerLine, HwndPointer
  <1> QED BY <1>1, <1>2, PTL DEF Spec, W!Spec

(* A selection finished in the scene is acknowledged by the event that     *)
(* finishes it, whatever lines and windows did in between.                 *)
THEOREM SceneAcknowledges == Spec => []W!NoResultWaits
  <1>1. W!Init => WP!Init
    BY DEF W!Init, WP!Init
  <1>2. WP!NoResultWaits => W!NoResultWaits
    BY DEF W!NoResultWaits, WP!NoResultWaits, W!SelectionTools,
       WP!SelectionTools
  <1>3. [W!Next]_(W!wsvars) => [WP!Next]_(WP!wsvars)
    BY DEF W!Next, WP!Next, W!wsvars, WP!wsvars, W!Commands, WP!Commands, W!Tools,
           WP!Tools, W!Events, WP!Events, W!Actions, WP!Actions, W!Succeed, WP!Succeed,
           W!DraftTools, WP!DraftTools, W!PointerTools, WP!PointerTools, W!SelectionTools,
           WP!SelectionTools, W!View3dTools, WP!View3dTools, W!VolumeViews, WP!VolumeViews,
           W!Execute, WP!Execute, W!ActivateTool, WP!ActivateTool, W!Activate, WP!Activate,
           W!Allows, WP!Allows, W!Create, WP!Create, W!Push, WP!Push, W!Pop, WP!Pop,
           W!Dispatch, WP!Dispatch, W!SetEditSink, WP!SetEditSink, W!Routed, WP!Routed, W!OnInput, WP!OnInput, W!Top,
           WP!Top, W!Ready, WP!Ready, W!Acknowledged, WP!Acknowledged, W!Pressed,
           WP!Pressed
  <1>4. WP!Spec => []WP!NoResultWaits
    BY WP!SelectionCommittedAtOnce, SceneAssumption DEF WP!Constants, WP!ViewAssumption, WP!BoundAssumption, WP!VolumeViews
  <1> QED BY <1>1, <1>2, <1>3, <1>4, SceneContainsWorkspace, PTL DEF W!Spec, WP!Spec
=============================================================================
