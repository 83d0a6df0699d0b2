SPECIFICATION MCSpec
CONSTANTS
  Names = {"admin", "bo"}
  Admin = "admin"
  Passwords = {"old", "new"}
  Legacy = "old"
  Caps = {"c1"}
  Devices = {"d"}
  MaxOps = 4
  MaxStops = 2
  Keys = {"k1", "k2"}
  Rows = {"r1"}
  Mail = {"m1"}
  MaxClock = 2
  MaxEdits = 3
  MaxSyncs = 2
  Base = 4
  MaxDevices = 1
  Clips = {"a", "b", "c", "d"}
  MaxEntries = 1
  Slack = 1
  Users = {"a", "b", "c"}
  Creator = "a"
  Speakers = {"a", "b"}
  Commands = {"MSG", "RECALL", "READ", "TYPING", "FRIEND_REQUEST", "VOICE_MSG", "VIDEO_MSG", "LOCATION_MSG", "CARD_MSG", "CALL_ACCEPT", "CALL_REJECT", "CALL_END", "ICE_CANDIDATE", "GROUP_ANNOUNCEMENT", "GROUP_MENTION", "GROUP_VOTE"}
  FreshList = TRUE
  MaxActs = 3
  Ids = {"d", "e"}
  GroupNames = {"g", "h"}
  Notes = {"n"}
  Silence = 1
  CutWrites = FALSE
  MaxTime = 4
  MaxLines = 3
  Machines = {"p", "q"}
  Expiry = 1
  MaxEvents = 3
  MaxDay = 3
INVARIANTS AdminRemains StoreRemembers SyncedAgree RoundTrip NamesMatchMembers SilentGoOffline
PROPERTIES StartupKeeps HistoryKeepsMarked
CHECK_DEADLOCK FALSE
