SPECIFICATION Spec
CONSTANTS
  Setups <- StaticRelative
  MaxDaqs = 1
  MaxOdts = 2
  MaxEntries = 1
  HeapSize = 0
  Habits = {"RANGES", "POINTER", "ONCE", "STOPPED", "FILLED"}
CHECK_DEADLOCK FALSE
INVARIANT OdtsIdentified
