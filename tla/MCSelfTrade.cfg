SPECIFICATION Spec
CONSTANTS
  User = {u1, u2}
  Price = {1, 2}
  Amount = {1}
  QuoteAmount = {1}
  Delta <- NoDelta
  ApiAmount = {}
  BaseFunds = 2
  QuoteFunds = 3
  InitBalances <- MCInitBalances
  MaxOrders = 2
  MaxBalance = 6
  NoOrder = NoOrder
CHECK_DEADLOCK FALSE
SYMMETRY UserSymmetry
PROPERTIES OwnOrdersStay
