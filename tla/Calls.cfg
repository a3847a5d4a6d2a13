SPECIFICATION FairSpec
CONSTANTS
  NULL = NULL
  k1 = k1  k2 = k2  p1 = p1  p2 = p2  m1 = m1  m2 = m2  m3 = m3  n1 = n1  n2 = n2
  first = first  second = second  third = third
  Keys = {k1}
  Providers = {p1}
  Models = {m1}
  Names = {n1}
  ProviderNames = {first, second, third}
  Workers = {w1, w2}
  Admins = {a1}
  Endpoints = {"chat", "stream"}
  TokenCounts = {0}
  RateLimits = {0, 1}
  Window = 2
  MaxTime = 3
  MaxRequests = 2
  MaxChunks = 1
  MaxFaults = 1
  MaxCrashes = 1
  Setup <- LimitSetup
  NewKeys = {}
  NewProviders = {}
  NewModels = {}
  Presets = {}
  KeyBodies = {}
  ProviderBodies = {}
  ModelBodies = {}
  RuleSets = {}
  MaxEdits = 0
PROPERTIES
  LimiterSpec
  EveryCallEnds
CHECK_DEADLOCK FALSE
