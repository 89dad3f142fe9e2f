SPECIFICATION Spec
CONSTANTS
  Setups <- StaticAbsolute
  MaxDaqs = 1
  MaxOdts = 2
  MaxEntries = 1
  HeapSize = 0
  Habits = {"RANGES", "POINTER", "ONCE", "STOPPED"}
CHECK_DEADLOCK FALSE
INVARIANT AllSampled
