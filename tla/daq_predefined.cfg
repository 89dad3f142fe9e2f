SPECIFICATION Spec
CONSTANTS
  Setups <- DynamicBehindPredefined
  MaxDaqs = 2
  MaxOdts = 1
  MaxEntries = 1
  HeapSize = 9
  Habits = {"RANGES", "POINTER", "ONCE", "STOPPED", "FILLED"}
CHECK_DEADLOCK FALSE
INVARIANT NoBadAccess
