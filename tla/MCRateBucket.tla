----------------------------- MODULE MCRateBucket -----------------------------
(* The rate limiter alone: two keys, four requests, limits on both sides of 0. *)
EXTENDS RateBucket, TLC

MCRateLimits == {-1, 0, 1, 2}
MCSymmetry == Permutations(Keys) \cup Permutations(Requests)
=============================================================================
