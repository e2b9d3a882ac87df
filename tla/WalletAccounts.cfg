SPECIFICATION Spec
CONSTANTS
  m2 = m2
  m3 = m3
  r1 = r1
  x1 = x1
  c1 = c1
  c2 = c2
  m1 = m1
  o1 = o1
  Nobody = Nobody
  Creators = {c1, c2}
  Movers = {m1, m2, m3}
  Reconcilers = {r1}
  Readers = {x1}
  Owners = {o1}
  Initial <- AnyInitial
  Deltas <- UpAndDown
  PageLimit = 2
\* Every call comes to its end.
CHECK_DEADLOCK FALSE
INVARIANTS TypeOK OneWalletPerOwner AnswersAreTrue BalanceIsItsLedger ReconciliationsAgree PagesLeaveNoGap
