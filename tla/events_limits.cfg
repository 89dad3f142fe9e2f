SPECIFICATION Spec
CONSTANTS
  Lists = {l1, l2}
  NoList = NULL
  Channels = {c1}
  NoChannel = NOCHANNEL
  CanStim = {}
  Fixings = {NULL}
  FixedTo = c1
  Prescalers = {0, 1}
  CounterMod = 4
  Capacity = 1
  Preemptive = FALSE
CHECK_DEADLOCK FALSE
INVARIANTS
  WithinCapacity
  NoTrap
