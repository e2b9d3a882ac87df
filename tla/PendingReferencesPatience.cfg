SPECIFICATION FairSpec
CONSTANTS
  NumItems = 3
  Poisonous = {1}
  Limit = 2
  MaxAttempts = 2
  Ttl = 4
  Base = 1
  MaxShift = 1
  MaxFailures = 1
INVARIANTS TypeOK
PROPERTIES PatienceIsKept EveryItemEnds
