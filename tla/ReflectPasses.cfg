SPECIFICATION FairSpec
CONSTANTS
  Procs = {p1}
  Probing = {p1}
  External = TRUE
  Bootstrap = 2
  Batch = 1
  PauseAfter = 2
  MaxMessages = 3
  MaxFaults = 2
  MaxDbFaults = 1
  MaxCrashes = 1
INVARIANTS CursorCovers OneRow
PROPERTIES FactsKept Reflected
CHECK_DEADLOCK FALSE
