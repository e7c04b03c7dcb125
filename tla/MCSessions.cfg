SPECIFICATION Spec
CONSTANTS
  Email = {alice, bob}
  Request = {r1, r2}
  NoCall = NoCall
  MaxTokens = 2
  RefreshLife = 1
  AccessLife = 0
  MaxTime = 2
  MaxFaults = 1
CHECK_DEADLOCK FALSE
SYMMETRY Alike
INVARIANTS TypeOK SingleSession LogoutIsFinal
PROPERTIES ReturnedTokenWorks
