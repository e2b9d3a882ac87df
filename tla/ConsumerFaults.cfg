SPECIFICATION Spec
CONSTANTS
  i1 = i1
  i2 = i2
  i3 = i3
  bet = bet
  refund = refund
  rollback = rollback
  w1 = w1
  w2 = w2
  plain = plain
  other = other
  NoWallet = NoWallet
  NoKey = NoKey
  Nobody = Nobody
  c1 = c1
  c2 = c2
  Ids = {i1, i2, i3}
  Keys = {bet, refund, rollback}
  Wallets = {w1, w2}
  Payloads = {plain, other}
  Instances = {c1, c2}
  Queued <- BetAndRefund
  Rivals <- Contradiction
  BatchSize = 2
  MaxReceives = 2
  Faults = {"statement", "commit", "delete", "crash", "cancel", "timeout"}
INVARIANTS TypeOK DeletedIsDurable InboxTellsRows 
PROPERTY ContentStands
\* The queue runs empty.
CHECK_DEADLOCK FALSE
