CONSTANTS
  Panels <- MCPanels
  Layers <- MCLayers
  Orientations <- MCOrientations
  Edids <- MCEdids
  UserModes <- MCUserModes
  WfdSizes <- MCWfdSizes
SPECIFICATION Spec
CONSTRAINT Explored
ACTION_CONSTRAINT Bounded
INVARIANTS
  IInv
  ShownAsAsked
  SessionsServeTheirLayers
  AnnouncedModeIsInForce
CHECK_DEADLOCK FALSE
