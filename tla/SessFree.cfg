SPECIFICATION FairSpec
CONSTANTS
  Asks = {a1}
  Chatter = {c1}
  Jobs = {j1}
  NoTurn = NoTurn
  Lock = "never"
  Web = FALSE
  Group = TRUE
  Commands = {"reset", "stop", "settings"}
  MaxCommands = 1
  MaxFaults = 1
INVARIANTS NoMessageTwice
PROPERTIES StopEndsTurn
CHECK_DEADLOCK FALSE
