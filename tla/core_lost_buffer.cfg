SPECIFICATION Spec
CONSTANTS
  Buffers = {b1, b2, b3}
  NoBuffer = NoBuffer
  RxContexts = {r1}
  DaqLists = {}
  StimLists = {}
  Packets = {"CONNECT", "COMMAND", "TRUNCATED"}
  OdtCount = 1
  MaxUpload = 1
  Preemptive = FALSE
  StrictMaster = FALSE
  TransmitFast = FALSE
CHECK_DEADLOCK FALSE
SYMMETRY BufferSymmetry
INVARIANT NoLeak
