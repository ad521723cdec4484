SPECIFICATION Spec
CONSTANTS
  PressLimit = 1
  DepthLimit = 1
  DraftLimit = 1
  Asked = {"view.pan", "view3d.trackball", "selection.point", "edit.append.point", "wheel.zoom"}
INVARIANTS
  TypeOK
  SidesInSync
  NavigationFits
  PairKept
