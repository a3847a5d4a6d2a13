--------------------------- MODULE RateBucketProofs ---------------------------
(***************************************************************************)
(* The rate limiter for every set of keys, every limit and every length of *)
(* the window: pruning loses nothing that counts, and therefore no window  *)
(* is ever overfull.                                                       *)
(***************************************************************************)
EXTENDS RateBucket, FiniteSetTheorems, TLAPS

(* What the bucket must keep to decide like the whole history: every stamp *)
(* still in the window, and nothing that was never admitted.               *)
BucketsKeepTheWindow ==
  \A k \in Keys :
     /\ IsFiniteSet(admissions[k])
     /\ buckets[k] \subseteq admissions[k]
     /\ \A s \in admissions[k] : s.at <= now
     /\ \A s \in admissions[k] : s.at > now - Window => s \in buckets[k]

RateInv == RateTypeOK /\ BucketsKeepTheWindow /\ NoWindowOverfull

-----------------------------------------------------------------------------
(* The limiter's state keeps its types. *)
THEOREM RateTyping == RateSpec => []RateTypeOK
<1> USE RateAssumption
<1>1. RateInit => RateTypeOK
  BY DEF RateInit, RateTypeOK
<1>2. RateTypeOK /\ [RateNext]_rateVars => RateTypeOK'
  <2> SUFFICES ASSUME RateTypeOK, [RateNext]_rateVars PROVE RateTypeOK'
    OBVIOUS
  <2> USE DEF RateTypeOK
  <2>1. ASSUME NEW k \in Keys, NEW limit \in RateLimits, NEW r \in Requests,
               Allow(k, limit, r)
        PROVE  RateTypeOK'
    <3> DEFINE stamp == [req |-> r, at |-> now, under |-> limit]
    <3>1. stamp \in Stamp
      BY DEF Stamp
    <3>2. Recent(buckets[k]) \cup {stamp} \in SUBSET Stamp
      BY <3>1 DEF Recent
    <3> QED BY <2>1, <3>1, <3>2 DEF Allow
  <2>2. ASSUME NEW k \in Keys, NEW limit \in RateLimits, Refuse(k, limit)
        PROVE  RateTypeOK'
    BY <2>2 DEF Refuse, Recent
  <2>3. CASE Tick
    BY <2>3 DEF Tick
  <2>4. CASE Restart
    BY <2>4 DEF Restart
  <2>5. CASE UNCHANGED rateVars
    BY <2>5 DEF rateVars
  <2> QED BY <2>1, <2>2, <2>3, <2>4, <2>5 DEF RateNext
<1> QED BY <1>1, <1>2, PTL DEF RateSpec

(* In a state that keeps the window, bucket and history agree on what is   *)
(* recent.                                                                 *)
LEMMA RecentAgrees ==
  ASSUME RateTypeOK, BucketsKeepTheWindow, NEW k \in Keys
  PROVE  /\ Recent(buckets[k]) = Recent(admissions[k])
         /\ Recent(admissions[k]) = {s \in admissions[k] : now - s.at < Window}
         /\ IsFiniteSet(Recent(buckets[k]))
<1> USE RateAssumption
<1>1. Recent(buckets[k]) = Recent(admissions[k])
  BY DEF BucketsKeepTheWindow, Recent
<1>2. \A s \in admissions[k] : s.at \in Nat
  BY DEF RateTypeOK, Stamp
<1>3. Recent(admissions[k]) = {s \in admissions[k] : now - s.at < Window}
  BY <1>2 DEF Recent, RateTypeOK
<1>4. IsFiniteSet(Recent(admissions[k]))
  BY FS_Subset DEF Recent, BucketsKeepTheWindow
<1> QED BY <1>1, <1>3, <1>4

(* No step makes a bucket forget a stamp that is still in the window. *)
LEMMA WindowKept ==
  ASSUME RateTypeOK, BucketsKeepTheWindow, [RateNext]_rateVars
  PROVE  BucketsKeepTheWindow'
<1> USE RateAssumption DEF BucketsKeepTheWindow, RateTypeOK
<1>0. \A k \in Keys : \A s \in admissions[k] : s.at \in Nat
  BY DEF Stamp
<1>1. ASSUME NEW k \in Keys, NEW limit \in RateLimits, NEW r \in Requests,
             Allow(k, limit, r)
      PROVE  BucketsKeepTheWindow'
  <2> DEFINE stamp == [req |-> r, at |-> now, under |-> limit]
  <2>1. IsFiniteSet(admissions[k] \cup {stamp})
    BY FS_AddElement
  <2>2. /\ admissions'[k] = admissions[k] \cup {stamp}
        /\ buckets'[k] = Recent(buckets[k]) \cup {stamp}
        /\ now' = now
        /\ \A j \in Keys \ {k} : admissions'[j] = admissions[j] /\ buckets'[j] = buckets[j]
    BY <1>1 DEF Allow
  <2>3. stamp.at = now
    OBVIOUS
  <2>4. ASSUME NEW j \in Keys
        PROVE  /\ IsFiniteSet(admissions'[j])
               /\ buckets'[j] \subseteq admissions'[j]
               /\ \A s \in admissions'[j] : s.at <= now'
               /\ \A s \in admissions'[j] : s.at > now' - Window => s \in buckets'[j]
    <3>1. CASE j = k
      BY <3>1, <2>1, <2>2, <2>3 DEF Recent
    <3>2. CASE j # k
      BY <3>2, <2>2
    <3> QED BY <3>1, <3>2
  <2> QED BY <2>4
<1>2. ASSUME NEW k \in Keys, NEW limit \in RateLimits, Refuse(k, limit)
      PROVE  BucketsKeepTheWindow'
  BY <1>2 DEF Refuse, Recent
<1>3. CASE Tick
  BY <1>3, <1>0 DEF Tick
<1>4. CASE Restart
  BY <1>4, FS_EmptySet DEF Restart
<1>5. CASE UNCHANGED rateVars
  BY <1>5 DEF rateVars
<1> QED BY <1>1, <1>2, <1>3, <1>4, <1>5 DEF RateNext

(* The admissions of a key inside the window that ends at "end". *)
WindowAt(stamps, end) == {s \in stamps : end - Window < s.at /\ s.at <= end}

(* One more element is at most one more. *)
LEMMA GrowsByOne ==
  ASSUME NEW S, NEW x, IsFiniteSet(S)
  PROVE  /\ Cardinality(S) \in Nat
         /\ Cardinality(S \cup {x}) \in Nat
         /\ Cardinality(S \cup {x}) <= Cardinality(S) + 1
<1>1. /\ IsFiniteSet(S \cup {x})
      /\ Cardinality(S \cup {x}) = IF x \in S THEN Cardinality(S) ELSE Cardinality(S) + 1
  BY FS_AddElement
<1>2. Cardinality(S) \in Nat /\ Cardinality(S \cup {x}) \in Nat
  BY <1>1, FS_CardinalityType
<1> QED BY <1>1, <1>2

(* A step that admits keeps its own window within its own limit, which is  *)
(* no higher than the highest; a tick only slides the window forward.      *)
LEMMA NoWindowOverfullStep ==
  ASSUME RateTypeOK, BucketsKeepTheWindow, NoWindowOverfull, [RateNext]_rateVars
  PROVE  NoWindowOverfull'
<1> USE RateAssumption DEF RateTypeOK
<1>0. \A k \in Keys : \A s \in admissions[k] : s.at \in Nat
  BY DEF Stamp
<1> SUFFICES ASSUME NEW j \in Keys, NEW max \in RateLimits \cap Nat,
                    NEW end \in 0 .. now',
                    \A s \in admissions'[j] : s.under <= max
             PROVE  Cardinality(WindowAt(admissions'[j], end)) <= max
  BY DEF NoWindowOverfull, WindowAt
<1>old. ASSUME admissions'[j] = admissions[j], end \in 0 .. now
        PROVE  Cardinality(WindowAt(admissions'[j], end)) <= max
  BY <1>old DEF NoWindowOverfull, WindowAt
<1>1. ASSUME NEW k \in Keys, NEW limit \in RateLimits, NEW r \in Requests,
             Allow(k, limit, r)
      PROVE  Cardinality(WindowAt(admissions'[j], end)) <= max
  <2> DEFINE stamp == [req |-> r, at |-> now, under |-> limit]
  <2>1. CASE j # k
    BY <1>1, <2>1, <1>old DEF Allow
  <2>2. CASE j = k /\ end # now
    <3>1. WindowAt(admissions'[j], end) = WindowAt(admissions[j], end)
      BY <1>1, <2>2, <1>0 DEF Allow, WindowAt
    <3>2. \A s \in admissions[j] : s.under <= max
      BY <1>1, <2>2 DEF Allow
    <3> QED BY <1>1, <2>2, <3>1, <3>2 DEF NoWindowOverfull, WindowAt, Allow
  <2>3. CASE j = k /\ end = now
    <3>1. admissions'[j] = admissions[j] \cup {stamp}
      BY <1>1, <2>3 DEF Allow
    <3>2. WindowAt(admissions'[j], end) = Recent(admissions[j]) \cup {stamp}
      BY <2>3, <3>1 DEF WindowAt, Recent, BucketsKeepTheWindow
    <3>3. /\ IsFiniteSet(Recent(admissions[j]))
          /\ Cardinality(Recent(admissions[j])) < limit
      BY <1>1, <2>3, RecentAgrees DEF Allow, HasRoom
    <3>4. /\ Cardinality(Recent(admissions[j])) \in Nat
          /\ Cardinality(Recent(admissions[j]) \cup {stamp}) \in Nat
          /\ Cardinality(Recent(admissions[j]) \cup {stamp})
             <= Cardinality(Recent(admissions[j])) + 1
      BY <3>3, GrowsByOne
    <3>5. limit <= max
      <4>1. stamp.under = limit
        OBVIOUS
      <4>2. stamp \in admissions'[j]
        BY <3>1
      <4> HIDE DEF stamp
      <4> QED BY <4>1, <4>2
    <3>6. \A m, n \in Int : n < limit /\ m <= n + 1 /\ limit <= max => m <= max
      OBVIOUS
    <3> QED BY <3>2, <3>3, <3>4, <3>5, <3>6
  <2> QED BY <2>1, <2>2, <2>3
<1>2. ASSUME NEW k \in Keys, NEW limit \in RateLimits, Refuse(k, limit)
      PROVE  Cardinality(WindowAt(admissions'[j], end)) <= max
  BY <1>2, <1>old DEF Refuse
<1>3. CASE Tick
  <2>1. admissions' = admissions /\ now' = now + 1
    BY <1>3 DEF Tick
  <2>2. CASE end \in 0 .. now
    BY <2>1, <2>2, <1>old
  <2>3. CASE end = now + 1
    <3>1. WindowAt(admissions[j], end) \subseteq WindowAt(admissions[j], now)
      BY <2>3, <1>0 DEF WindowAt, BucketsKeepTheWindow
    <3>2. IsFiniteSet(WindowAt(admissions[j], now))
      BY FS_Subset DEF WindowAt, BucketsKeepTheWindow
    <3>3. Cardinality(WindowAt(admissions[j], now)) <= max
      BY <2>1 DEF NoWindowOverfull, WindowAt
    <3>4. /\ Cardinality(WindowAt(admissions[j], end)) \in Nat
          /\ Cardinality(WindowAt(admissions[j], now)) \in Nat
          /\ Cardinality(WindowAt(admissions[j], end))
             <= Cardinality(WindowAt(admissions[j], now))
      BY <3>1, <3>2, FS_Subset, FS_CardinalityType
    <3> QED BY <2>1, <3>3, <3>4
  <2> QED BY <2>1, <2>2, <2>3
<1>4. CASE Restart
  <2>1. WindowAt(admissions'[j], end) = {}
    BY <1>4 DEF Restart, WindowAt
  <2> QED BY <2>1, FS_EmptySet
<1>5. CASE UNCHANGED rateVars
  BY <1>5, <1>old DEF rateVars
<1> QED BY <1>1, <1>2, <1>3, <1>4, <1>5 DEF RateNext

-----------------------------------------------------------------------------
(* Pruning under the mutex never changes a decision: the limiter admits a  *)
(* request exactly when the full history of the process leaves room in the *)
(* last window (allow, service.go:25).                                     *)
THEOREM BucketDecidesExactly == RateSpec => []DecidesExactly
<1>1. RateInit => BucketsKeepTheWindow
  BY FS_EmptySet DEF RateInit, BucketsKeepTheWindow
<1>2. RateTypeOK /\ BucketsKeepTheWindow /\ [RateNext]_rateVars => BucketsKeepTheWindow'
  BY WindowKept
<1>3. RateTypeOK /\ BucketsKeepTheWindow => DecidesExactly
  <2> SUFFICES ASSUME RateTypeOK, BucketsKeepTheWindow, NEW k \in Keys
               PROVE  Recent(buckets[k]) = {s \in admissions[k] : now - s.at < Window}
    BY DEF DecidesExactly, HasRoom
  <2> QED BY RecentAgrees
<1> QED BY <1>1, <1>2, <1>3, RateTyping, PTL DEF RateSpec

(* Whatever the interleaving of requests, refusals, limit changes and      *)
(* clock ticks, and for every limit: no window of one minute holds more    *)
(* admissions of a key than the highest limit that admitted one.           *)
THEOREM RateLimitHolds == RateSpec => []NoWindowOverfull
<1>1. RateInit => RateTypeOK /\ BucketsKeepTheWindow /\ NoWindowOverfull
  <2> SUFFICES ASSUME RateInit
               PROVE  RateTypeOK /\ BucketsKeepTheWindow /\ NoWindowOverfull
    OBVIOUS
  <2>1. RateTypeOK /\ BucketsKeepTheWindow
    BY FS_EmptySet DEF RateInit, RateTypeOK, BucketsKeepTheWindow
  <2>2. ASSUME NEW k \in Keys, NEW limit \in RateLimits \cap Nat, NEW end \in 0 .. now
        PROVE  Cardinality({s \in admissions[k] : end - Window < s.at /\ s.at <= end})
               <= limit
    <3>1. {s \in admissions[k] : end - Window < s.at /\ s.at <= end} = {}
      BY DEF RateInit
    <3> QED BY <3>1, FS_EmptySet
  <2>3. NoWindowOverfull
    BY <2>2 DEF NoWindowOverfull
  <2> QED BY <2>1, <2>3
<1>2. RateInv /\ [RateNext]_rateVars => BucketsKeepTheWindow' /\ NoWindowOverfull'
  BY WindowKept, NoWindowOverfullStep DEF RateInv
<1> QED BY <1>1, <1>2, RateTyping, PTL DEF RateSpec, RateInv
=============================================================================
