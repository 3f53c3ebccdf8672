SPECIFICATION FairSpec
CONSTANTS
  Tasks = {1, 2}
  Procs = {p1, p2}
  BatchLimit = 2
  ReplayLimit = 2
  UserOps <- TwoTools
  MaxTime = 1
  MaxOps = 1
  MaxTroubles = 1
INVARIANTS ExclusiveClaim RunningAccounted
PROPERTIES DueTaskRuns ClaimIsReleased
CHECK_DEADLOCK FALSE
