----------------------------- MODULE BillingProofs -----------------------------
(***************************************************************************)
(* The books are exact, for every number of accounts and calls.            *)
(*                                                                         *)
(* RequestsExact counts receipts and TokensExact adds them up, so what     *)
(* they need besides themselves is that receipts can be told apart by      *)
(* their numbers, that nothing is due and written off at once, and that an *)
(* account has no receipts before it is opened.  That a sum does not       *)
(* depend on the order in which its receipts are taken is proved first, by *)
(* induction on how many there are.                                        *)
(***************************************************************************)
EXTENDS Billing, FiniteSetTheorems, WellFoundedInduction, TLAPS

NumberedOnce == \A r, s \in answered : r.id = s.id => r = s
DueOrWrittenOff == \A r \in due : r.id \notin writtenOff
WrittenOffAnswered == \A i \in writtenOff : \E r \in answered : r.id = i
AnsweredForOpened == \A r \in answered : r.key \in opened

BillingInv ==
  /\ BillingTypeOK
  /\ NumberedOnce /\ DueOrWrittenOff /\ WrittenOffAnswered /\ AnsweredForOpened
  /\ RequestsExact /\ TokensExact

(* The order of the natural numbers, as the induction theorems take it. *)
LEMMA NatOrder == \A i, j \in Nat : <<i, j>> \in OpToRel(<, Nat) <=> i < j
BY DEF OpToRel

(* Induction, as a fact about sets of numbers. *)
LEMMA NatSetInduction ==
  ASSUME NEW I, 0 \in I, \A n \in Nat : n \in I => n + 1 \in I
  PROVE  Nat \subseteq I
<1> SUFFICES ASSUME Nat \ I # {} PROVE FALSE
  OBVIOUS
<1> DEFINE R == OpToRel(<, Nat)
           T == Nat \ I
<1>1. IsWellFoundedOn(R, Nat)
  BY NatLessThanWellFounded
<1> HIDE DEF R
<1>2. PICK x \in T : \A y \in T : <<y, x>> \notin R
  <2>1. T \subseteq Nat /\ T # {}
    OBVIOUS
  <2> HIDE DEF T
  <2> QED BY <1>1, <2>1, WFMin
<1>3. x # 0 /\ x - 1 \in Nat /\ x - 1 < x
  OBVIOUS
<1>4. x - 1 \in I
  BY <1>2, <1>3, NatOrder DEF R
<1> QED BY <1>3, <1>4

(* The receipt a sum begins with, what the function that adds up the       *)
(* subsets of S has to satisfy, and the subsets of n receipts or fewer.    *)
First(s) == CHOOSE x \in s : TRUE
Added(g, s) == IF s = {} THEN 0 ELSE First(s).tokens + g[s \ {First(s)}]
IsSum(g, S) == g = [s \in SUBSET S |-> Added(g, s)]

(* TokensOf takes the receipts of a set one by one. *)
LEMMA TokensOfDef == ASSUME NEW S PROVE TokensOf(S) = (CHOOSE g : IsSum(g, S))[S]
BY DEF TokensOf, MapThenSumSet, MapThenFoldSet, IsSum, Added, First

Level(S, n) == {s \in SUBSET S : Cardinality(s) <= n}

(* There is such a way to take them. *)
LEMMA SumExists == ASSUME NEW S, IsFiniteSet(S) PROVE \E g : IsSum(g, S)
<1> DEFINE IsPart(g, n) == g = [s \in Level(S, n) |-> Added(g, s)]
           I == {n \in Nat : \E g : IsPart(g, n)}
<1>0. \A s \in SUBSET S : /\ IsFiniteSet(s) /\ Cardinality(s) \in Nat
                          /\ Cardinality(s) <= Cardinality(S)
  BY FS_Subset, FS_CardinalityType
<1>1. 0 \in I
  <2>1. Level(S, 0) = {{}}
    BY <1>0, FS_EmptySet DEF Level
  <2>2. IsPart([s \in Level(S, 0) |-> 0], 0)
    BY <2>1 DEF Added
  <2> QED BY <2>2
<1>2. ASSUME NEW n \in Nat, n \in I PROVE n + 1 \in I
  <2>1. PICK g : IsPart(g, n)
    BY <1>2
  <2> DEFINE h == [s \in Level(S, n + 1) |-> Added(g, s)]
  <2>2. ASSUME NEW s \in Level(S, n + 1) PROVE Added(h, s) = Added(g, s)
    <3>1. CASE s = {}
      BY <3>1 DEF Added
    <3>2. CASE s # {}
      <4> DEFINE t == s \ {First(s)}
      <4>1. s \in SUBSET S /\ First(s) \in s
        BY <3>2 DEF First, Level
      <4>2. Cardinality(t) = Cardinality(s) - 1 /\ Cardinality(s) <= n + 1
        BY <1>0, <4>1, FS_RemoveElement DEF Level
      <4>3. t \in Level(S, n) /\ t \in Level(S, n + 1)
        BY <1>0, <4>1, <4>2 DEF Level
      <4> HIDE DEF t
      <4>4. h[t] = Added(g, t) /\ g[t] = Added(g, t)
        BY <2>1, <4>3
      <4> HIDE DEF h
      <4> QED BY <3>2, <4>4 DEF Added, t
    <3> QED BY <3>1, <3>2
  <2>3. IsPart(h, n + 1)
    BY <2>2
  <2> HIDE DEF h, IsPart
  <2> QED BY <2>3
<1> HIDE DEF I
<1>3. Cardinality(S) \in I
  BY <1>0, <1>1, <1>2, NatSetInduction
<1>4. PICK g : IsPart(g, Cardinality(S))
  BY <1>3 DEF I
<1>5. Level(S, Cardinality(S)) = SUBSET S
  BY <1>0 DEF Level
<1> QED BY <1>4, <1>5 DEF IsSum

(* And what has been added up does not depend on what else there is. *)
LEMMA SumUnique ==
  ASSUME NEW S, NEW T, IsFiniteSet(T), S \subseteq T,
         NEW g, IsSum(g, S), NEW h, IsSum(h, T)
  PROVE  g[S] = h[S]
<1> DEFINE I == {n \in Nat : \A s \in SUBSET S : Cardinality(s) = n => g[s] = h[s]}
<1>0. /\ \A s \in SUBSET S : IsFiniteSet(s) /\ Cardinality(s) \in Nat
      /\ \A s \in SUBSET S : g[s] = Added(g, s) /\ h[s] = Added(h, s)
  <2>1. \A s \in SUBSET T : IsFiniteSet(s) /\ Cardinality(s) \in Nat
    BY FS_Subset, FS_CardinalityType
  <2> QED BY <2>1 DEF IsSum
<1>1. 0 \in I
  BY <1>0, FS_EmptySet DEF Added
<1>2. ASSUME NEW n \in Nat, n \in I PROVE n + 1 \in I
  <2> SUFFICES ASSUME NEW s \in SUBSET S, Cardinality(s) = n + 1 PROVE g[s] = h[s]
    OBVIOUS
  <2>1. s # {} /\ First(s) \in s
    BY FS_EmptySet DEF First
  <2>2. Cardinality(s \ {First(s)}) = n
    BY <1>0, <2>1, FS_RemoveElement
  <2>3. g[s \ {First(s)}] = h[s \ {First(s)}]
    BY <1>2, <2>2
  <2> QED BY <1>0, <2>1, <2>3 DEF Added
<1> HIDE DEF I
<1>3. Cardinality(S) \in I
  BY <1>0, <1>1, <1>2, NatSetInduction
<1> QED BY <1>3 DEF I

(* TokensOf of nothing, and of a set less the receipt it begins with. *)
LEMMA TokensOfStep ==
  ASSUME NEW S, IsFiniteSet(S)
  PROVE  /\ S = {} => TokensOf(S) = 0
         /\ S # {} => TokensOf(S) = First(S).tokens + TokensOf(S \ {First(S)})
<1> DEFINE g == CHOOSE g : IsSum(g, S)
           T == S \ {First(S)}
           h == CHOOSE h : IsSum(h, T)
<1>1. IsSum(g, S) /\ TokensOf(S) = g[S]
  BY SumExists, TokensOfDef
<1>2. IsFiniteSet(T)
  BY FS_Subset
<1>3. IsSum(h, T) /\ TokensOf(T) = h[T]
  BY <1>2, SumExists, TokensOfDef
<1> HIDE DEF g, h
<1>4. h[T] = g[T]
  BY <1>1, <1>3, SumUnique
<1>5. g[S] = Added(g, S)
  BY <1>1 DEF IsSum
<1> QED BY <1>1, <1>3, <1>4, <1>5 DEF Added

(* The order does not matter: any receipt can be taken away first. *)
LEMMA TokensOfRemove ==
  ASSUME NEW S, IsFiniteSet(S), \A r \in S : r.tokens \in Nat
  PROVE  /\ TokensOf(S) \in Nat
         /\ \A r \in S : TokensOf(S) = TokensOf(S \ {r}) + r.tokens
<1> DEFINE Good(s) == /\ TokensOf(s) \in Nat
                      /\ \A r \in s : /\ TokensOf(s \ {r}) \in Nat
                                      /\ TokensOf(s) = TokensOf(s \ {r}) + r.tokens
           I == {n \in Nat : \A s \in SUBSET S : Cardinality(s) = n => Good(s)}
<1>0. \A s \in SUBSET S : IsFiniteSet(s) /\ Cardinality(s) \in Nat
  BY FS_Subset, FS_CardinalityType
<1>1. 0 \in I
  <2> SUFFICES ASSUME NEW s \in SUBSET S, Cardinality(s) = 0 PROVE Good(s)
    OBVIOUS
  <2>1. s = {}
    BY <1>0, FS_EmptySet
  <2> QED BY <2>1, <1>0, TokensOfStep
<1>2. ASSUME NEW n \in Nat, n \in I PROVE n + 1 \in I
  <2> SUFFICES ASSUME NEW s \in SUBSET S, Cardinality(s) = n + 1 PROVE Good(s)
    OBVIOUS
  <2> DEFINE p == First(s)
  <2>1. s # {} /\ p \in s
    BY FS_EmptySet DEF First
  <2>2. TokensOf(s) = p.tokens + TokensOf(s \ {p})
    BY <1>0, <2>1, TokensOfStep
  <2> HIDE DEF p
  <2>3. ASSUME NEW r \in s PROVE s \ {r} \in SUBSET S /\ Cardinality(s \ {r}) = n
    <3>1. Cardinality(s \ {r}) = Cardinality(s) - 1
      BY <1>0, FS_RemoveElement
    <3> QED BY <3>1
  <2>4. \A r \in s : Good(s \ {r})
    <3> SUFFICES ASSUME NEW r \in s PROVE Good(s \ {r})
      OBVIOUS
    <3>1. \A t \in SUBSET S : Cardinality(t) = n => Good(t)
      BY <1>2
    <3> HIDE DEF Good
    <3> QED BY <2>3, <3>1
  <2>5. TokensOf(s) \in Nat
    BY <2>1, <2>2, <2>4
  <2>6. ASSUME NEW r \in s PROVE TokensOf(s) = TokensOf(s \ {r}) + r.tokens
    <3>1. CASE r = p
      BY <2>1, <2>2, <2>4, <3>1
    <3>2. CASE r # p
      <4> DEFINE rest == s \ {r, p}
      <4>1. (s \ {r}) \ {p} = rest /\ (s \ {p}) \ {r} = rest
        OBVIOUS
      <4>2. r \in s \ {p} /\ p \in s \ {r}
        BY <2>1, <3>2
      <4>3. TokensOf(s \ {r}) = TokensOf(rest) + p.tokens
        BY <2>4, <4>1, <4>2
      <4>4. TokensOf(s \ {p}) = TokensOf(rest) + r.tokens
        BY <2>1, <2>4, <4>1, <4>2
      <4>5. TokensOf(rest) \in Nat
        BY <2>4, <4>1, <4>2
      <4> HIDE DEF rest
      <4> QED BY <2>1, <2>2, <4>3, <4>4, <4>5
    <3> QED BY <3>1, <3>2
  <2> QED BY <2>4, <2>5, <2>6
<1> HIDE DEF I
<1>3. Cardinality(S) \in I
  BY <1>0, <1>1, <1>2, NatSetInduction
<1> QED BY <1>3 DEF I

(* A receipt that is new adds its tokens. *)
LEMMA TokensOfAdd ==
  ASSUME NEW S, IsFiniteSet(S), \A s \in S : s.tokens \in Nat,
         NEW r, r \notin S, r.tokens \in Nat
  PROVE  TokensOf(S \cup {r}) = TokensOf(S) + r.tokens
<1> DEFINE T == S \cup {r}
<1>1. IsFiniteSet(T) /\ r \in T /\ T \ {r} = S /\ \A s \in T : s.tokens \in Nat
  BY FS_AddElement
<1> HIDE DEF T
<1>2. TokensOf(T) = TokensOf(T \ {r}) + r.tokens
  BY <1>1, TokensOfRemove
<1> QED BY <1>1, <1>2 DEF T

-----------------------------------------------------------------------------
(* The receipts charged to an account are finitely many. *)
LEMMA ChargedFinite ==
  ASSUME BillingTypeOK, NEW k
  PROVE  IsFiniteSet(Charged(k)) /\ Cardinality(Charged(k)) \in Nat
<1>1. Charged(k) \subseteq answered
  BY DEF Charged
<1> QED BY <1>1, FS_Subset, FS_CardinalityType DEF BillingTypeOK

(* A step that touches no receipt charged and adds to no balance. *)
LEMMA SameBooks ==
  ASSUME RequestsExact, TokensExact, DOMAIN balance' \subseteq DOMAIN balance,
         \A k \in DOMAIN balance' : balance'[k] = balance[k],
         \A k \in DOMAIN balance' : Charged(k)' = Charged(k)
  PROVE  RequestsExact' /\ TokensExact'
BY DEF RequestsExact, TokensExact

(* An account starts with nothing charged and nothing to charge. *)
LEMMA OpenKeeps ==
  ASSUME BillingInv, NEW k \in Accounts, Open(k)
  PROVE  BillingInv'
<1> USE DEF BillingInv
<1>1. BillingTypeOK'
  BY DEF BillingTypeOK, Open, Balance
<1>2. NumberedOnce' /\ DueOrWrittenOff' /\ WrittenOffAnswered' /\ AnsweredForOpened'
  BY DEF Open, NumberedOnce, DueOrWrittenOff, WrittenOffAnswered, AnsweredForOpened
<1>3. ASSUME NEW i \in DOMAIN balance'
      PROVE  /\ balance'[i].reqs = Cardinality(Charged(i)')
             /\ balance'[i].tokens = TokensOf(Charged(i)')
  <2>1. Charged(i)' = Charged(i)
    BY DEF Open, Charged
  <2>2. CASE i = k
    <3>1. Charged(k) = {}
      BY DEF Open, Charged, AnsweredForOpened
    <3>2. balance'[k].reqs = 0 /\ balance'[k].tokens = 0
      BY DEF Open
    <3>3. Cardinality({}) = 0 /\ TokensOf({}) = 0
      BY FS_EmptySet, TokensOfStep
    <3> QED BY <2>1, <2>2, <3>1, <3>2, <3>3
  <2>3. CASE i # k
    BY <2>1, <2>3 DEF Open, RequestsExact, TokensExact
  <2> QED BY <2>2, <2>3
<1> QED BY <1>1, <1>2, <1>3 DEF RequestsExact, TokensExact

(* Closing an account forgets its balance. *)
LEMMA CloseKeeps ==
  ASSUME BillingInv, NEW k \in Accounts, Close(k)
  PROVE  BillingInv'
<1> USE DEF BillingInv
<1>1. BillingTypeOK'
  BY DEF BillingTypeOK, Close
<1>2. NumberedOnce' /\ DueOrWrittenOff' /\ WrittenOffAnswered' /\ AnsweredForOpened'
  BY DEF Close, NumberedOnce, DueOrWrittenOff, WrittenOffAnswered, AnsweredForOpened
<1>3. RequestsExact' /\ TokensExact'
  BY SameBooks DEF Close, Charged
<1> QED BY <1>1, <1>2, <1>3

(* A new receipt is due at once, so it is charged to nobody yet. *)
LEMMA AnswerKeeps ==
  ASSUME BillingInv, NEW r \in Receipt, Answer(r)
  PROVE  BillingInv'
<1> USE DEF BillingInv
<1>1. BillingTypeOK'
  BY FS_AddElement DEF BillingTypeOK, Answer
<1>2. NumberedOnce' /\ WrittenOffAnswered' /\ AnsweredForOpened'
  BY DEF Answer, NumberedOnce, WrittenOffAnswered, AnsweredForOpened
<1>3. DueOrWrittenOff'
  BY DEF Answer, DueOrWrittenOff, WrittenOffAnswered
<1>4. \A k : Charged(k)' = Charged(k)
  BY DEF Answer, Charged, BillingTypeOK
<1>5. RequestsExact' /\ TokensExact'
  BY <1>4, SameBooks DEF Answer
<1> QED BY <1>1, <1>2, <1>3, <1>5

(* A charge moves one receipt from those due to those charged. *)
LEMMA ChargeKeeps ==
  ASSUME BillingInv, TokensAreNumbers, NEW r \in due, Charge(r)
  PROVE  BillingInv'
<1> USE DEF BillingInv
<1>1. r \in answered /\ r \in Receipt /\ r.tokens \in Nat
  BY DEF BillingTypeOK, Receipt, TokensAreNumbers
<1>2. BillingTypeOK'
  <2>1. DOMAIN balance' = DOMAIN balance /\ balance' \in [DOMAIN balance -> Balance]
    BY <1>1 DEF Charge, BillingTypeOK, Balance
  <2> QED BY <2>1 DEF Charge, BillingTypeOK
<1>3. NumberedOnce' /\ DueOrWrittenOff' /\ WrittenOffAnswered' /\ AnsweredForOpened'
  BY DEF Charge, NumberedOnce, DueOrWrittenOff, WrittenOffAnswered, AnsweredForOpened
<1>4. ASSUME NEW k \in DOMAIN balance'
      PROVE  /\ balance'[k].reqs = Cardinality(Charged(k)')
             /\ balance'[k].tokens = TokensOf(Charged(k)')
  <2>1. k \in DOMAIN balance /\ balance[k] \in Balance
        /\ balance[k].reqs = Cardinality(Charged(k))
        /\ balance[k].tokens = TokensOf(Charged(k))
    BY DEF Charge, BillingTypeOK, RequestsExact, TokensExact
  <2>2. CASE k = r.key
    <3>1. Charged(k)' = Charged(k) \cup {r} /\ r \notin Charged(k)
      BY <1>1, <2>2 DEF Charge, Charged, DueOrWrittenOff
    <3>2. Cardinality(Charged(k)') = Cardinality(Charged(k)) + 1
      BY <3>1, ChargedFinite, FS_AddElement
    <3>3. TokensOf(Charged(k)') = TokensOf(Charged(k)) + r.tokens
      <4>1. \A s \in Charged(k) : s.tokens \in Nat
        BY DEF Charged, BillingTypeOK, Receipt, TokensAreNumbers
      <4> QED BY <1>1, <3>1, <4>1, ChargedFinite, TokensOfAdd
    <3>4. balance'[k].reqs = balance[k].reqs + 1 /\ balance'[k].tokens = balance[k].tokens + r.tokens
      BY <2>1, <2>2 DEF Charge
    <3> QED BY <2>1, <3>2, <3>3, <3>4
  <2>3. CASE k # r.key
    <3>1. Charged(k)' = Charged(k)
      BY <2>3 DEF Charge, Charged
    <3>2. balance'[k] = balance[k]
      BY <2>1, <2>3 DEF Charge
    <3> QED BY <2>1, <3>1, <3>2
  <2> QED BY <2>2, <2>3
<1> QED BY <1>2, <1>3, <1>4 DEF RequestsExact, TokensExact

(* What is written off was due, so it was charged to nobody. *)
LEMMA WriteOffKeeps ==
  ASSUME BillingInv, NEW lost \in SUBSET due, WriteOff(lost)
  PROVE  BillingInv'
<1> USE DEF BillingInv
<1>1. BillingTypeOK'
  BY DEF BillingTypeOK, WriteOff, Receipt
<1>2. NumberedOnce' /\ AnsweredForOpened'
  BY DEF WriteOff, NumberedOnce, AnsweredForOpened
<1>3. DueOrWrittenOff' /\ WrittenOffAnswered'
  BY DEF WriteOff, NumberedOnce, DueOrWrittenOff, WrittenOffAnswered, BillingTypeOK
<1>4. \A k : Charged(k)' = Charged(k)
  BY DEF WriteOff, Charged, NumberedOnce, BillingTypeOK
<1>5. RequestsExact' /\ TokensExact'
  BY <1>4, SameBooks DEF WriteOff
<1> QED BY <1>1, <1>2, <1>3, <1>5

(* Every behaviour of the books keeps the invariant. *)
LEMMA BooksInvariant ==
  ASSUME TokensAreNumbers
  PROVE  BillingSpec => []BillingInv
<1>1. BillingInit => BillingInv
  <2> SUFFICES ASSUME BillingInit PROVE BillingInv
    OBVIOUS
  <2>1. BillingTypeOK
    BY FS_EmptySet DEF BillingInit, BillingTypeOK, Balance
  <2>2. \A k : Charged(k) = {}
    BY DEF BillingInit, Charged
  <2>3. Cardinality({}) = 0 /\ TokensOf({}) = 0
    BY FS_EmptySet, TokensOfStep
  <2>4. RequestsExact /\ TokensExact
    BY <2>2, <2>3 DEF BillingInit, RequestsExact, TokensExact
  <2> QED BY <2>1, <2>4 DEF BillingInit, BillingInv, NumberedOnce, DueOrWrittenOff,
             WrittenOffAnswered, AnsweredForOpened
<1>2. BillingInv /\ [BillingNext]_billingVars => BillingInv'
  <2> SUFFICES ASSUME BillingInv, [BillingNext]_billingVars PROVE BillingInv'
    OBVIOUS
  <2>1. CASE BillingNext
    BY <2>1, TokensAreNumbers, OpenKeeps, CloseKeeps, AnswerKeeps, ChargeKeeps, WriteOffKeeps
    DEF BillingNext
  <2>2. CASE UNCHANGED billingVars
    BY <2>2 DEF billingVars, BillingInv, BillingTypeOK, NumberedOnce, DueOrWrittenOff,
                WrittenOffAnswered, AnsweredForOpened, RequestsExact, TokensExact, Charged
  <2> QED BY <2>1, <2>2
<1> QED BY <1>1, <1>2, PTL DEF BillingSpec

(* In every behaviour of the books the requests of an open account are the *)
(* number of its calls that were answered, are not due any more and were   *)
(* not written off (what used_reqs, service.go:380, must be).              *)
THEOREM BooksExact ==
  ASSUME TokensAreNumbers
  PROVE  BillingSpec => []RequestsExact
BY BooksInvariant, PTL DEF BillingInv

(* And its tokens are the sum of what these calls were answered with,      *)
(* however the charges came to be ordered (what used_tokens must be).      *)
THEOREM BooksAddUp ==
  ASSUME TokensAreNumbers
  PROVE  BillingSpec => []TokensExact
BY BooksInvariant, PTL DEF BillingInv
=============================================================================
