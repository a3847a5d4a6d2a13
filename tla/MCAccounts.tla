------------------------------ MODULE MCAccounts ------------------------------
(* A small instance of the accounts: "root" with a password the policy     *)
(* accepts and with one it does not, a second user, a bootstrap token, and *)
(* a password too long for bcrypt, which reads no more of it than "good".  *)
EXTENDS Accounts, TLC

CONSTANTS root, other, seed, good, long

Tries == {[user |-> root, password |-> good], [user |-> root, password |-> seed],
          [user |-> other, password |-> good], [user |-> root, password |-> long]}
TokenOrNot == {NULL, seed, long}
SeventyTwoBytes == [w \in Words |-> IF w = long THEN good ELSE w]

RequestSymmetry == Permutations(Logins) \cup Permutations(Boots)
=============================================================================
