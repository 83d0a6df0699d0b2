\* A grant that pins a level, its expiry and its revocation.
SPECIFICATION Spec
CONSTANTS
  RoleMask = RoleMask
  NoOverride = NoOverride
  KeepLevel = KeepLevel
  NoEntry = NoEntry
  c1 = c1
  c2 = c2
  p1 = p1
  p2 = p2
  DefaultLevel = "Operator"
  Clients = {c1}
  TileClients = {c1}
  Peers = {p1}
  PeerOf <- OneAddress
  AuthLevels = {"Admin"}
  DeviceEntries <- Nothing
  GrantTerms <- RaiseTerm
  Switches = {}
  PasswordSet = TRUE
  ApprovalUi = FALSE
  MaxDialogs = 0
INVARIANTS
  GrantEndsWithExpiry
CHECK_DEADLOCK FALSE
