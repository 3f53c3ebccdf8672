SPECIFICATION Spec
CONSTANTS
  Tasks = {1, 2}
  Procs = {p1}
  BatchLimit = 2
  ReplayLimit = 2
  UserOps <- WithReplay
  MaxTime = 2
  MaxOps = 2
  MaxTroubles = 1
INVARIANTS TypeOK SlotRunsOnce
PROPERTIES DueLostOnlyIfHeld WithdrawalHolds
CHECK_DEADLOCK FALSE
