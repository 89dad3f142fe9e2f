SPECIFICATION Spec
CONSTANTS
  Lists = {l1, l2}
  NoList = NULL
  Channels = {c1}
  NoChannel = NOCHANNEL
  CanStim = {}
  Fixings = {NULL}
  FixedTo = c1
  Prescalers = {1}
  CounterMod = 1
  Capacity = 3
  Preemptive = TRUE
CHECK_DEADLOCK FALSE
INVARIANT SamplesRunning
