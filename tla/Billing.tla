-------------------------------- MODULE Billing --------------------------------
(***************************************************************************)
(* What a downstream customer is promised of the counters used_reqs and    *)
(* used_tokens: an answered call is due, a call that is due is charged     *)
(* once to the account it was made for, with the tokens it was answered    *)
(* with, or written off for good.  Nothing else moves a balance.           *)
(*                                                                         *)
(* This is the abstract specification.  It knows nothing of queries,       *)
(* workers, copies of rows, quotas, updates or crashes; Bridage shows that *)
(* the server, which has all of them, implements it.                       *)
(***************************************************************************)
EXTENDS Integers, FiniteSetsExt

CONSTANTS
  Accounts,     \* API keys
  Calls,        \* numbers of calls
  Tokens        \* what a call may cost

(* What the theorems about the books ask of Tokens. *)
TokensAreNumbers == Tokens \subseteq Nat

VARIABLES
  balance,      \* open account -> what was charged to it
  opened,       \* accounts that are or were open
  answered,     \* receipts of the calls that were answered
  due,          \* the receipts among them still to be charged
  writtenOff    \* numbers of calls that will never be charged

billingVars == <<balance, opened, answered, due, writtenOff>>

Receipt == [id : Calls, key : Accounts, tokens : Tokens]
Balance == [reqs : Nat, tokens : Nat]

BillingTypeOK ==
  /\ DOMAIN balance \subseteq opened /\ balance \in [DOMAIN balance -> Balance]
  /\ opened \subseteq Accounts
  /\ answered \subseteq Receipt /\ IsFiniteSet(answered)
  /\ due \subseteq answered
  /\ writtenOff \subseteq Calls

BillingInit ==
  /\ balance = [k \in opened |-> [reqs |-> 0, tokens |-> 0]]
  /\ opened \subseteq Accounts
  /\ answered = {} /\ due = {} /\ writtenOff = {}

-----------------------------------------------------------------------------
Open(k) ==
  /\ k \notin opened
  /\ opened' = opened \cup {k}
  /\ balance' = [i \in DOMAIN balance \cup {k} |->
                   IF i = k THEN [reqs |-> 0, tokens |-> 0] ELSE balance[i]]
  /\ UNCHANGED <<answered, due, writtenOff>>

(* For good: an account is not opened twice. *)
Close(k) ==
  /\ k \in DOMAIN balance
  /\ balance' = [i \in DOMAIN balance \ {k} |-> balance[i]]
  /\ UNCHANGED <<opened, answered, due, writtenOff>>

(* A call may outlive the account it was made for. *)
Answer(r) ==
  /\ r.key \in opened
  /\ \A s \in answered : s.id # r.id
  /\ answered' = answered \cup {r}
  /\ due' = due \cup {r}
  /\ UNCHANGED <<balance, opened, writtenOff>>

Charge(r) ==
  /\ due' = due \ {r}
  /\ balance' = IF r.key \in DOMAIN balance
                THEN [balance EXCEPT ![r.key] = [reqs |-> @.reqs + 1, tokens |-> @.tokens + r.tokens]]
                ELSE balance
  /\ UNCHANGED <<opened, answered, writtenOff>>

WriteOff(lost) ==
  /\ due' = due \ lost
  /\ writtenOff' = writtenOff \cup {r.id : r \in lost}
  /\ UNCHANGED <<balance, opened, answered>>

BillingNext ==
  \/ \E k \in Accounts : Open(k) \/ Close(k)
  \/ \E r \in Receipt : Answer(r)
  \/ \E r \in due : Charge(r)
  \/ \E lost \in SUBSET due : WriteOff(lost)

BillingSpec == BillingInit /\ [][BillingNext]_billingVars

-----------------------------------------------------------------------------
Charged(k) == {r \in answered \ due : r.key = k /\ r.id \notin writtenOff}

(* The number of requests of an account is the number of answered calls of *)
(* it that are neither due nor written off: none is charged twice, none is *)
(* forgotten (used_reqs, service.go:380).                                  *)
RequestsExact == \A k \in DOMAIN balance : balance[k].reqs = Cardinality(Charged(k))

TokensOf(receipts) == MapThenSumSet(LAMBDA r : r.tokens, receipts)

(* And its number of tokens is the sum of what those calls were answered   *)
(* with (used_tokens).                                                     *)
TokensExact == \A k \in DOMAIN balance : balance[k].tokens = TokensOf(Charged(k))
=============================================================================
