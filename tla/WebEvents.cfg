SPECIFICATION FairSpec
CONSTANTS
  s1 = s1
  p1 = p1
  p2 = p2
  k1 = k1
  k2 = k2
  a1 = a1
  Streams = {s1}
  Sends = {p1, p2}
  Quotas = {k1, k2, a1}
  KeyOf <- Key
  ActorOf <- Actor
  Viewers = {v1}
  NoRun = NoRun
  MaxInflight = 2
  HistoryLimit = 2
  Capacity = 1
  MaxEvents = 2
  MaxDrops = 1
INVARIANTS SessionMutex InflightAccounted SeenWhole
PROPERTIES ViewEnds
CHECK_DEADLOCK FALSE
