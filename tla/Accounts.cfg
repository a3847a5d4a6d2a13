CONSTANTS
  Logins = {r1}
  Boots = {b1, b2}
  Startup = Startup
  NULL = NULL
  root = root
  other = other
  seed = seed
  good = good
  long = long
  Words = {root, other, seed, good, long}
  StrongWords = {good, long}
  LongWords = {long}
  Digest <- SeventyTwoBytes
  Credentials <- Tries
  BootstrapTokens <- TokenOrNot
  MaxFaults = 2
  MaxStops = 2
  MaxCtl = 1
SYMMETRY RequestSymmetry
SPECIFICATION Spec
INVARIANTS
  TypeOK
  BootstrapClosed
  TokenSeedsBeforeServing
  SessionsAuthentic
  AuditTellsWhatHappened
CHECK_DEADLOCK FALSE
