---------------------------- MODULE MCLoginLimiter ----------------------------
EXTENDS LoginLimiter, TLC

LoginSymmetry == Permutations(Logins)
=============================================================================
