SPECIFICATION FairSpec
CONSTANTS
  wallet = wallet
  wager = wager
  o1 = o1
  o2 = o2
  NoWorker = NoWorker
  NumEntries = 3
  Aggregates = {wallet, wager}
  AggregateOf <- Movements
  Workers = {o1, o2}
  MaxFailures = 1
  MaxRefusals = 1
INVARIANTS TypeOK CopiesAreAccounted OnlyTheHeldAreOvertaken
PROPERTIES ImplementsRelay EveryEventIsPublished
