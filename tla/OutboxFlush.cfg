SPECIFICATION FairSpec
CONSTANTS
  Runs = {r1, r2}
  Relays = {relay}
  Batch = 1
  MaxAttempts = 2
  MaxTroubles = 1
INVARIANTS TypeOK SentOnceUnlessExcused GivenUpAfterTries
PROPERTIES Settles
CHECK_DEADLOCK FALSE
