SPECIFICATION Spec
CONSTANTS
  User = {alice, bob}
  Request = {r1, r2, r3}
  NoCall = NoCall
  MaxWallets = 3
  MaxLamports = 1
  MaxFaults = 1
CHECK_DEADLOCK FALSE
SYMMETRY Symmetry
INVARIANTS GrantsFollowWallets
PROPERTIES OwnersPay
