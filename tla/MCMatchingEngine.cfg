SPECIFICATION Spec
CONSTANTS
  User = {u1, u2}
  Price = {1, 2}
  Amount = {1, 2}
  QuoteAmount = {3}
  Delta <- NoDelta
  ApiAmount = {}
  BaseFunds = 2
  QuoteFunds = 3
  InitBalances <- MCInitBalances
  MaxOrders = 4
  MaxBalance = 6
  NoOrder = NoOrder
CHECK_DEADLOCK FALSE
SYMMETRY UserSymmetry
INVARIANTS TypeOK NoCrossedBook LockCoverage TradesNeverFail ExactHold
PROPERTIES FairTrades OnlyOwnOrdersVanish
