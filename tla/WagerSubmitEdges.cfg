SPECIFICATION Spec
CONSTANTS
  bet = bet  refund = refund  rollback = rollback  win = win  loss = loss
  none = none  w1 = w1  w2 = w2  ghost = ghost  r1 = r1  r2 = r2
  brl = brl  usd = usd
  Keys = {bet, refund, rollback, win, loss}
  NoKey = none
  WalletIds = {w1, ghost}
  Rounds = {r1, r2}
  Currencies = {brl, usd}
  Requests <- EdgeRequests
  MaxMoney = 3
  Submitters = {s1, s2, s3}
  Resolvers = {}
  NoProc = nobody
  Wallets = {w1}
  WalletCurrency <- InBRL
  Opening <- TwoEach
  MaxAttempts = 1
  MaxFailures = 0
SYMMETRY SubmitterSymmetry
CHECK_DEADLOCK FALSE
INVARIANT TypeOK
PROPERTY ImplementsBook
