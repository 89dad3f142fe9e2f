SPECIFICATION Spec
CONSTANTS
  Setups <- DynamicRelative
  MaxDaqs = 1
  MaxOdts = 1
  MaxEntries = 1
  HeapSize = 9
  Habits = {"RANGES", "POINTER", "ONCE", "STOPPED", "FILLED"}
CHECK_DEADLOCK FALSE
INVARIANT ValidCount
