\* The host as a service with a password: switches, overrides, grants.
SPECIFICATION Spec
CONSTANTS
  RoleMask = RoleMask
  NoOverride = NoOverride
  KeepLevel = KeepLevel
  NoEntry = NoEntry
  c1 = c1
  c2 = c2
  p1 = p1
  p2 = p2
  DefaultLevel = "Operator"
  Clients = {c1, c2}
  TileClients = {}
  Peers = {p1, p2}
  PeerOf <- OwnAddress
  AuthLevels = {"Admin"}
  DeviceEntries <- SomeEntries
  GrantTerms <- SomeTerms
  Switches = {"ViewScreen", "UserManage"}
  PasswordSet = TRUE
  ApprovalUi = FALSE
  MaxDialogs = 0
SYMMETRY Alike
INVARIANTS
  CapsCurrent
  ControllerKnowsCaps
CHECK_DEADLOCK FALSE
