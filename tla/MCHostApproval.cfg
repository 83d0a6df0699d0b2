\* The host under its main window: approval, trust, dialogs.
SPECIFICATION Spec
CONSTANTS
  RoleMask = RoleMask
  NoOverride = NoOverride
  KeepLevel = KeepLevel
  NoEntry = NoEntry
  c1 = c1
  c2 = c2
  p1 = p1
  p2 = p2
  DefaultLevel = "Operator"
  Clients = {c1, c2}
  TileClients = {c1, c2}
  Peers = {p1, p2}
  PeerOf <- OwnAddress
  AuthLevels = {"Viewer", "Admin"}
  DeviceEntries <- Nothing
  GrantTerms <- RaiseTerm
  Switches = {}
  PasswordSet = FALSE
  ApprovalUi = TRUE
  MaxDialogs = 2
INVARIANTS
  ParkedHasDialog
  ScreenFitsViewers
PROPERTIES
  StartsOnlyByApproval
CHECK_DEADLOCK FALSE
