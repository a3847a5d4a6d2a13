CONSTANTS
  Logins = {r1, r2}
  Boots = {b1, b2}
  Startup = Startup
  NULL = NULL
  root = root
  other = other
  seed = seed
  good = good
  long = long
  Words = {root, other, seed, good, long}
  StrongWords = {good, long}
  LongWords = {long}
  Digest <- SeventyTwoBytes
  Credentials <- Tries
  BootstrapTokens <- TokenOrNot
  MaxFaults = 0
  MaxStops = 0
  MaxCtl = 0
SPECIFICATION Spec
INVARIANT BootstrapOnce
CHECK_DEADLOCK FALSE
