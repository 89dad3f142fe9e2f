SPECIFICATION Spec
CONSTANTS
  Buffers = {b1, b2, b3}
  NoBuffer = NoBuffer
  RxContexts = {r1}
  DaqLists = {}
  StimLists = {s1}
  Packets = {"CONNECT", s1}
  OdtCount = 1
  MaxUpload = 1
  Preemptive = TRUE
  StrictMaster = FALSE
  TransmitFast = FALSE
CHECK_DEADLOCK FALSE
SYMMETRY BufferSymmetry
INVARIANT Exclusive
