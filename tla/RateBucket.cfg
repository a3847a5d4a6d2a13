SPECIFICATION RateSpec
CONSTANTS
  Keys = {k1, k2}
  Requests = {r1, r2, r3, r4}
  RateLimits <- MCRateLimits
  Window = 2
  MaxTime = 5
SYMMETRY MCSymmetry
INVARIANTS
  RateTypeOK
  DecidesExactly
  NoWindowOverfull
