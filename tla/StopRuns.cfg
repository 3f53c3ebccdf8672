SPECIFICATION FairSpec
CONSTANTS
  Runs = {r1, r2}
  Stops = {s1, s2}
  MaxMessages = 2
  MaxStops = 3
INVARIANTS TypeOK EveryRunStoppable TakenOnce StoppedIsHidden
PROPERTIES StopTakesEffect
CHECK_DEADLOCK FALSE
