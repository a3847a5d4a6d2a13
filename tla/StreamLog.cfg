SPECIFICATION Spec
CONSTANTS
  NULL = NULL
  k1 = k1  k2 = k2  p1 = p1  p2 = p2  m1 = m1  m2 = m2  m3 = m3  n1 = n1  n2 = n2
  first = first  second = second  third = third
  Keys = {k1}
  Providers = {p1}
  Models = {m1}
  Names = {n1}
  ProviderNames = {first, second, third}
  Workers = {w1}
  Admins = {a1}
  Endpoints = {"stream"}
  TokenCounts = {2}
  RateLimits = {0}
  Window = 1
  MaxTime = 0
  MaxRequests = 3
  MaxChunks = 1
  MaxFaults = 0
  MaxCrashes = 0
  Setup <- PlainSetup
  NewKeys = {}
  NewProviders = {}
  NewModels = {}
  Presets = {}
  KeyBodies <- QuotaBodies
  ProviderBodies = {}
  ModelBodies = {}
  RuleSets = {}
  MaxEdits = 0
INVARIANTS
  EveryAnswerLogged
CHECK_DEADLOCK FALSE
