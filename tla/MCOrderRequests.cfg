SPECIFICATION Spec
CONSTANTS
  User = {u1}
  Price = {1, 2}
  Call = {c1, c2}
  OrderId = {1}
  Number = {0, 1, 2}
  None = None
  MaxDecimal = 3
  InitFunds = 2
  MaxTransfers = 1
  MaxFaults = 1
CHECK_DEADLOCK FALSE
SYMMETRY CallSymmetry
INVARIANTS TypeOK LockedIsChecked RejectedOnlyIfOvertaken
