SPECIFICATION Spec
CONSTANTS
  NULL = NULL
  k1 = k1  k2 = k2  p1 = p1  p2 = p2  m1 = m1  m2 = m2  m3 = m3  n1 = n1  n2 = n2
  first = first  second = second  third = third
  Keys = {k1, k2}
  Providers = {p1, p2, p3}
  Models = {m1, m2, m3}
  Names = {n1, n2}
  ProviderNames = {first, second, third}
  Workers = {w1}
  Admins = {a1}
  Endpoints = {"embeddings", "images"}
  TokenCounts = {0}
  RateLimits = {0}
  Window = 1
  MaxTime = 0
  MaxRequests = 2
  MaxChunks = 1
  MaxFaults = 0
  MaxCrashes = 0
  Setup <- CatalogSetup
  NewKeys <- CatalogNewKeys
  NewProviders <- CatalogNewProviders
  NewModels <- CatalogNewModels
  Presets <- CatalogPresets
  KeyBodies <- CatalogKeyBodies
  ProviderBodies <- CatalogProviderBodies
  ModelBodies <- CatalogModelBodies
  RuleSets <- CatalogRuleSets
  MaxEdits = 3
INVARIANTS
  ForeignKeysHold
  CallFollowsCatalog
PROPERTIES
  DeletedStaysDeleted
CHECK_DEADLOCK FALSE
