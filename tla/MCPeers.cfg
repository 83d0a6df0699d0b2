SPECIFICATION Spec
CONSTANTS
  Msgs = {"m", "n"}
  MaxStarts = 2
  MaxStops = 2
  Window = 1
  Again = FALSE
  MaxInits = 3
  MaxLost = 1
  MaxAttempts = 2
  MaxMessages = 3
  MaxEnds = 3
  Viewers = {"v", "w"}
  Texts = {"raw", "text"}
  MaxCopies = 2
  MaxDrops = 1
  Files = {"f", "g"}
  Root = "root"
  Sub = "sub"
  MaxChanges = 1
  MaxBreaks = 1
  Dirs = {"p", "x", "y", "z"}
  MaxClicks = 2
  MaxCuts = 1
  Controllers = {"v", "w"}
  AskedFor = {"CHAT_MESSAGE", "PROCESS_KILL_REQ", "AUDIO_DATA", "SCREENSHOT_REQ", "RECORD_START", "RECORD_STOP", "CAMERA_MODE", "PRIVACY_SCREEN", "ANNOTATION_UPDATE", "POWER_COMMAND", "TERMINAL_START", "TERMINAL_INPUT"}
  Switchable = {"ViewScreen", "Chat"}
  ShellsStart = TRUE
  MaxAsks = 2
  MaxSwitches = 2
  Things = {"left", "extra", "shift", "a"}
  FrameFirst = TRUE
  MaxMoves = 3
  Lengths = {1, 3}
  MaxTyped = 2
  MaxPainted = 2
  MaxVisits = 2
INVARIANTS ChatSameOrder UncoveredWhenAlone NothingStuck NothingForgotten NoMixedMessages
PROPERTIES MailArrives SecretsMeet GivesUpAloud ClipboardsSettle FoldersConverge DirectoriesArrive RequestsSettle
CHECK_DEADLOCK FALSE
