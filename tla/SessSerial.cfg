SPECIFICATION Spec
CONSTANTS
  Asks = {a1, a2, a3}
  Chatter = {}
  Jobs = {}
  NoTurn = NoTurn
  Lock = "first"
  Web = TRUE
  Group = FALSE
  Commands = {"clear", "stop"}
  MaxCommands = 2
  MaxFaults = 1
SYMMETRY Symmetric
INVARIANTS TypeOK OwnMessageSeen NoMessageForgotten ClearedStaysCleared
PROPERTIES SaveKeeps
CHECK_DEADLOCK FALSE
