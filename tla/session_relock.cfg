SPECIFICATION Spec
CONSTANTS
  Resources = {CALPAG, DAQ}
  None = NONE
  Protected = {CALPAG, DAQ}
  Goal = {CALPAG, DAQ}
  SeedLens = {1, 3}
  SeedValues = {1, 2}
  Chunk = 2
  MaxFaults = 1
CHECK_DEADLOCK FALSE

PROPERTY SessionLocks
