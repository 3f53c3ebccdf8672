SPECIFICATION Spec
CONSTANTS
  Runs = {r1, r2, r3}
  NoRun = NoRun
  Agents = {a1, a2}
  MaxConcurrent = 1
  MaxActive = 1
  MaxChildren = 1
  MaxDepth = 1
  MaxTurns = 1
  MaxKills = 1
  MaxCrashes = 1
  MaxFaults = 1
  MaxDrops = 1
SYMMETRY Symmetric
INVARIANTS TypeOK ActiveNearLimit RunningWithinLane
PROPERTIES ImplementsLifecycle
CHECK_DEADLOCK FALSE
