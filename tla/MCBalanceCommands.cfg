SPECIFICATION FairSpec
CONSTANTS
  User = {u1, u2}
  Price = {1}
  Amount = {1}
  QuoteAmount = {1}
  Delta <- WithdrawAndDeposit
  ApiAmount = {1}
  BaseFunds = 1
  QuoteFunds = 1
  InitBalances <- MCInitBalances
  MaxOrders = 2
  MaxBalance = 2
  NoOrder = NoOrder
CHECK_DEADLOCK FALSE
INVARIANTS NonNegativeBalances LockCoverage
PROPERTIES ConservesAssets SubmissionEnds
