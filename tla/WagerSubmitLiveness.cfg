SPECIFICATION FairSpec
CONSTANTS
  bet = bet  refund = refund  rollback = rollback  win = win  loss = loss
  none = none  w1 = w1  w2 = w2  ghost = ghost  r1 = r1  r2 = r2
  brl = brl  usd = usd
  Keys = {bet, refund}
  NoKey = none
  WalletIds = {w1}
  Rounds = {r1}
  Currencies = {brl}
  Requests <- ParkedRequests
  MaxMoney = 3
  Submitters = {s1, s2, s3}
  Resolvers = {v1}
  NoProc = nobody
  Wallets = {w1}
  WalletCurrency <- InBRL
  Opening <- TwoEach
  MaxAttempts = 1
  MaxFailures = 0
PROPERTIES EverySubmissionIsAnswered EveryParkedTransactionEnds
