SPECIFICATION Spec
CONSTANTS
  Setups <- DynamicOrStatic
  MaxDaqs = 2
  MaxOdts = 2
  MaxEntries = 2
  HeapSize = 20
  Habits = {"RANGES", "POINTER", "ONCE", "STOPPED", "FILLED"}
CHECK_DEADLOCK FALSE
INVARIANTS NoBadAccess CountsMatch AllSampled OdtsIdentified NothingLeaks
