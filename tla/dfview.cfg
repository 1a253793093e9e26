SPECIFICATION Spec
CONSTANTS
  Boards <- SomeBoards
  Room <- SomeRoom
  Extent = 2
  ClearArea <- Clear
  SwitchArea <- Switch
  Ssids = {"a", "b", "c"}
  Hidden = "hidden"
  Can = 2
INVARIANTS
  TypeOK
  RowsShowStatus
  TouchesApart
  TrackOnScreen
  WifiRoundShown
CHECK_DEADLOCK FALSE
