SPECIFICATION Spec
CONSTANTS
  MaxPages <- Pages
  MaxMapping = 1
  Transports = {"CAN", "ETHERNET"}
  CtrMod = 4
  Requests <- PageRequests
  Habits = {"FLUSH_AFTER_ID", "DOUBT_PARTIAL", "DROP_REPEATED"}
  FaultKinds = {"LOSE_COMMAND", "NO_BUFFER", "REFUSE", "LOSE_FRAME", "REPEAT_FRAME"}
  Unknown = Unknown
  None = None
  MaxRequests = 3
  MaxFaults = 3
CHECK_DEADLOCK FALSE
PROPERTY GapIsLoss
