SPECIFICATION LiveSpec
CONSTANTS
  Buffers = {b1, b2}
  NoBuffer = NoBuffer
  RxContexts = {r1}
  DaqLists = {d1}
  StimLists = {}
  Packets = {"CONNECT", "UPLOAD", "TRUNCATED"}
  OdtCount = 1
  MaxUpload = 2
  Preemptive = TRUE
  StrictMaster = FALSE
  TransmitFast = FALSE
CHECK_DEADLOCK FALSE
INVARIANTS Exclusive NoStaleBytes
PROPERTIES TxInOrder ReceivedIsHandled QueuedIsSent
