SPECIFICATION Spec
CONSTANTS
  MaxPages <- Pages
  MaxMapping = 1
  Transports = {"CAN", "ETHERNET"}
  CtrMod = 3
  Requests <- AllRequests
  Habits = {"FLUSH_AFTER_ID", "DOUBT_PARTIAL", "DROP_REPEATED"}
  FaultKinds = {"LOSE_COMMAND", "NO_BUFFER", "REFUSE", "LOSE_FRAME", "REPEAT_FRAME"}
  Unknown = Unknown
  None = None
  MaxRequests = 4
  MaxFaults = 2
CHECK_DEADLOCK FALSE
INVARIANTS TypeOK PagesKnown
PROPERTIES IsRegisters LossShows CallEnds
