SPECIFICATION Spec
CONSTANTS
  MaxSession = 4
  KeepRecent = 2
  ProtectFirst = 3
  MaxIterations = 2
  MaxStreak = 2
  MaxCalls = 1
  MaxTurns = 3
INVARIANTS RequestWellFormed AskReachesModel
CHECK_DEADLOCK FALSE
