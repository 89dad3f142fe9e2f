SPECIFICATION Spec
CONSTANTS
  PortSize = 2
  DebugBase = 1
  Layout <- PortLayouts
  CanStim = {1}
  Headers = {2}
  Stamp = 1
  MaxDto = 5
  Buffers = 3
  Stores <- OneStore
  Junk = {0, 255}
  Lengths = {2}
  TooShort = FALSE
  NoPacket = NoPacket
  NoCall = NoCall
  MaxCalls = 4
  MaxPackets = 2
  MaxEvents = 2
  MaxRefused = 1
CHECK_DEADLOCK FALSE
PROPERTY StimTrue
