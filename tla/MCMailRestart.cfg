SPECIFICATION Spec
CONSTANTS
  Msgs = {"m"}
  MaxStarts = 2
  MaxStops = 1
  Window = 1
PROPERTY MailOutlivesRestart
CHECK_DEADLOCK FALSE
