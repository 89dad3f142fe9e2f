SPECIFICATION Spec
CONSTANTS
  Setups <- StaticUncounted
  MaxDaqs = 1
  MaxOdts = 2
  MaxEntries = 1
  HeapSize = 0
  Habits = {"RANGES", "POINTER", "ONCE", "STOPPED", "FILLED"}
CHECK_DEADLOCK FALSE
INVARIANT AllSampled
