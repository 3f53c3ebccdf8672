SPECIFICATION FairSpec
CONSTANTS
  Runs = {r1, r2}
  NoRun = NoRun
  Agents = {a1}
  MaxConcurrent = 1
  MaxActive = 2
  MaxChildren = 2
  MaxDepth = 2
  MaxTurns = 2
  MaxKills = 2
  MaxCrashes = 1
  MaxFaults = 0
  MaxDrops = 0
INVARIANTS OneLateTurn
PROPERTIES RunEnds
CHECK_DEADLOCK FALSE
