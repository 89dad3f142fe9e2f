SPECIFICATION Spec
CONSTANTS
  Buffers = {b1, b2, b3, b4, b5}
  NoBuffer = NoBuffer
  RxContexts = {r1}
  DaqLists = {}
  StimLists = {s1, s2}
  Packets = {"CONNECT", "DISCONNECT", "COMMAND", "SILENT", s1, s2}
  OdtCount = 1
  MaxUpload = 1
  Preemptive = FALSE
  StrictMaster = TRUE
  TransmitFast = FALSE
CHECK_DEADLOCK FALSE
SYMMETRY BufferSymmetry
INVARIANT PoolSuffices
