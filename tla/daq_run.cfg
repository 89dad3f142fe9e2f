SPECIFICATION Spec
CONSTANTS
  PortSize = 2
  DebugBase = 1
  Layout <- Layouts
  CanStim = {2}
  Headers = {1, 2}
  Stamp = 1
  MaxDto = 5
  Buffers = 3
  Stores <- TwoStores
  Junk = {0, 255}
  Lengths = {1, 3}
  TooShort = FALSE
  NoPacket = NoPacket
  NoCall = NoCall
  MaxCalls = 4
  MaxPackets = 2
  MaxEvents = 2
  MaxRefused = 1
CHECK_DEADLOCK FALSE
INVARIANTS TypeOK BuffersAccounted PacketsInPlace
PROPERTIES StimTrue SamplesTrue SamplesInOrder
