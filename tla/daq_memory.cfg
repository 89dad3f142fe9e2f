SPECIFICATION Spec
CONSTANTS
  Setups <- DynamicRelative
  MaxDaqs = 1
  MaxOdts = 2
  MaxEntries = 2
  HeapSize = 3
  Habits = {"RANGES", "POINTER", "ONCE", "STOPPED", "FILLED"}
CHECK_DEADLOCK FALSE
INVARIANT NoBadAccess
