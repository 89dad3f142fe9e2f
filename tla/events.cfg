SPECIFICATION Spec
CONSTANTS
  Lists = {l1, l2}
  NoList = NULL
  Channels = {c1, c2}
  NoChannel = NOCHANNEL
  CanStim = {l1, c1}
  Fixings = {l2, NULL}
  FixedTo = c1
  Prescalers = {3}
  CounterMod = 5
  Capacity = 2
  Preemptive = FALSE
CHECK_DEADLOCK FALSE
INVARIANTS TypeOK RefsMatch
PROPERTIES EventComplete PrescalerKept
