SPECIFICATION MCSpec
CONSTANTS
  Sockets = {"s1", "s2", "s3"}
  MaxLines = 2
  MaxEvents = 2
  Viewers = {"v1", "v2"}
  First = "v1"
  MaxFails = 1
  MaxClicks = 3
  MaxPlugs = 1
  EmptyLimit = 2
  Gop = 2
  ViewerDecodes = TRUE
  MaxPicks = 2
  MaxSwitches = 1
  MaxChanges = 2
INVARIANTS RegisteredIsOpen BridgesPaired AutoSwitchTold
PROPERTIES AttemptSettles MonitorsInTurn FramesResume
CHECK_DEADLOCK FALSE
