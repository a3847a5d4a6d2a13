CONSTANTS
  Logins = {r1, r2, r3, r4, r5, r6}
  Addresses = {ip1}
  loginMaxAttempts = 2
  loginWindow = 2
  NULL = NULL
  MaxTime = 3
SYMMETRY LoginSymmetry
SPECIFICATION LoginSpec
INVARIANTS
  LoginTypeOK
  LoginWindowBounded
PROPERTY
  TurnedAwayOnlyWhenSpent
CHECK_DEADLOCK FALSE
