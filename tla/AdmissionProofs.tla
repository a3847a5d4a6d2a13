-------------------------- MODULE AdmissionProofs ---------------------------
(***************************************************************************)
(* What lets a call in: the rate limit and the quotas.                     *)
(*                                                                         *)
(* The limiter inside the server behaves as it does alone, and so keeps    *)
(* its promise there.  A key can exceed its quotas, by so much and no      *)
(* more, for every number of calls in progress, every quota and every      *)
(* history of edits.                                                       *)
(***************************************************************************)
EXTENDS BridageProofs

(* The limiter alone records each request once at most.  That the server   *)
(* does so as well rests on an invariant about the calls in progress: they *)
(* have different numbers, none above the number of calls that arrived,    *)
(* and a call that has not passed the limiter is in no bucket's history.   *)

(* The limiter of the server again, with the theorems about it. *)
Alone == INSTANCE RateBucketProofs

(* And its books, with the theorems about them and about numbers. *)
Ledger == INSTANCE BillingProofs WITH
  Accounts <- Keys, Calls <- Requests,
  balance <- Balances, opened <- issued \cap Keys,
  answered <- served, due <- Due, writtenOff <- uncharged

BeforeLimiter == {"auth", "bind"}

CallsDiffer ==
  \A w, v \in Workers : (pc[w] # "idle" /\ pc[v] # "idle" /\ w # v) => call[w].id # call[v].id
CallsArrived == \A w \in Workers : pc[w] # "idle" => call[w].id <= arrived
RecordedArrived == \A k \in Keys : \A s \in admissions[k] : s.req <= arrived
NotYetRecorded ==
  \A w \in Workers : pc[w] \in BeforeLimiter =>
     \A k \in Keys : \A s \in admissions[k] : s.req # call[w].id

CallsNumbered == CallsDiffer /\ CallsArrived /\ RecordedArrived /\ NotYetRecorded

-----------------------------------------------------------------------------
(* A step in which no call arrives, none passes the limiter and none comes *)
(* back before it.                                                         *)
CallsSteady ==
  /\ arrived' = arrived
  /\ admissions' = admissions
  /\ \A w \in Workers :
       \/ pc'[w] = "idle"
       \/ /\ pc[w] # "idle" /\ call'[w] = call[w]
          /\ pc'[w] \in BeforeLimiter => pc[w] \in BeforeLimiter

(* Such a step keeps the calls numbered. *)
LEMMA SteadyNumbered ==
  ASSUME CallsNumbered, CallsSteady
  PROVE  CallsNumbered'
BY DEF CallsNumbered, CallsDiffer, CallsArrived, RecordedArrived, NotYetRecorded,
       CallsSteady, BeforeLimiter

(* Every step of a handler but the one that lets its call through. *)
LEMMA HandlerNumbersSteady ==
  ASSUME TypeOK, NEW w \in Workers, Handler(w), ~Admit(w)
  PROVE  CallsSteady
<1> USE DEF TypeOK, RelayTypeOK, WorkTypeOK, CallsSteady, BeforeLimiter, Goto,
            rateVars, storeVars
<1>0. ASSUME Finish(w), UNCHANGED <<arrived, admissions>> PROVE CallsSteady
  BY <1>0 DEF Finish
<1>1. CASE Abort(w)
  BY <1>1, <1>0 DEF Abort
<1>2. CASE Authenticate(w)
  <2>1. CASE Finish(w)
    BY <1>2, <2>1, <1>0 DEF Authenticate
  <2>2. CASE ~Finish(w)
    BY <1>2, <2>2 DEF Authenticate
  <2> QED BY <2>1, <2>2
<1>3. CASE BindFails(w)
  BY <1>3, <1>0 DEF BindFails
<1>4. CASE RateLimited(w)
  BY <1>4, <1>0 DEF RateLimited, Limiter!Refuse
<1>5. CASE FindModel(w)
  BY <1>5 DEF FindModel
<1>6. CASE ModelNotFound(w)
  BY <1>6, <1>0 DEF ModelNotFound
<1>7. CASE CheckRules(w)
  <2>1. CASE Finish(w)
    BY <1>7, <2>1, <1>0 DEF CheckRules
  <2>2. CASE ~Finish(w)
    BY <1>7, <2>2 DEF CheckRules
  <2> QED BY <2>1, <2>2
<1>8. CASE GetAdapter(w)
  <2>1. CASE Finish(w)
    BY <1>8, <2>1, <1>0 DEF GetAdapter
  <2>2. CASE ~Finish(w)
    BY <1>8, <2>2 DEF GetAdapter
  <2> QED BY <2>1, <2>2
<1>9. CASE UpstreamAnswers(w)
  BY <1>9 DEF UpstreamAnswers
<1>10. CASE UpstreamFails(w)
  BY <1>10 DEF UpstreamFails
<1>11. CASE StreamOpens(w)
  BY <1>11 DEF StreamOpens
<1>12. CASE StreamEnds(w)
  BY <1>12 DEF StreamEnds
<1>13. CASE RecordUsage(w)
  <2>1. CASE Finish(w)
    BY <1>13, <2>1, <1>0 DEF RecordUsage
  <2>2. CASE ~Finish(w)
    BY <1>13, <2>2 DEF RecordUsage
  <2> QED BY <2>1, <2>2
<1>14. CASE IncrementQuota(w)
  BY <1>14, <1>0 DEF IncrementQuota
<1> QED BY <1>1, <1>2, <1>3, <1>4, <1>5, <1>6, <1>7, <1>8, <1>9, <1>10, <1>11, <1>12,
           <1>13, <1>14 DEF Handler

-----------------------------------------------------------------------------
(* The call that passes the limiter is the only one of its number. *)
LEMMA AdmitNumbered ==
  ASSUME TypeOK, CallsNumbered, NEW w \in Workers, Admit(w)
  PROVE  CallsNumbered'
<1> USE DEF TypeOK, RelayTypeOK, WorkTypeOK
<1>1. /\ arrived' = arrived /\ pc[w] = "bind"
      /\ pc'[w] \notin BeforeLimiter
      /\ \A v \in Workers : pc'[v] # "idle" => pc[v] # "idle" /\ call'[v] = call[v]
      /\ \A v \in Workers \ {w} : pc'[v] = pc[v]
  BY DEF Admit, Finish, Goto, BeforeLimiter
<1>2. \A k \in Keys : \A s \in admissions'[k] : s \in admissions[k] \/ s.req = call[w].id
  BY DEF Admit, Limiter!Allow, Limiter!RateTypeOK, rateVars
<1>3. CallsDiffer' /\ CallsArrived'
  BY <1>1 DEF CallsNumbered, CallsDiffer, CallsArrived
<1>4. RecordedArrived'
  BY <1>1, <1>2 DEF CallsNumbered, RecordedArrived, CallsArrived
<1>5. NotYetRecorded'
  <2> SUFFICES ASSUME NEW v \in Workers, pc'[v] \in BeforeLimiter,
                      NEW k \in Keys, NEW s \in admissions'[k]
               PROVE  s.req # call'[v].id
    BY DEF NotYetRecorded
  <2>1. v # w /\ pc[v] \in BeforeLimiter /\ call'[v] = call[v]
    BY <1>1 DEF BeforeLimiter
  <2>2. CASE s \in admissions[k]
    BY <2>1, <2>2 DEF CallsNumbered, NotYetRecorded
  <2>3. CASE s.req = call[w].id
    BY <2>1, <2>3, <1>1 DEF CallsNumbered, CallsDiffer, BeforeLimiter
  <2> QED BY <1>2, <2>2, <2>3
<1> QED BY <1>3, <1>4, <1>5 DEF CallsNumbered

(* A call that arrives gets a number above all the others. *)
LEMMA ReceiveNumbered ==
  ASSUME TypeOK, CallsNumbered, NEW w \in Workers, Receive(w)
  PROVE  CallsNumbered'
<1> USE DEF TypeOK, RelayTypeOK, WorkTypeOK
<1>1. arrived \in Nat /\ arrived' = arrived + 1 /\ admissions' = admissions
  BY RelayAssumption DEF Receive, rateVars
<1>2. call'[w].id = arrived' /\ \A v \in Workers \ {w} : call'[v] = call[v] /\ pc'[v] = pc[v]
  BY DEF Receive, Goto
<1>3. \A v \in Workers \ {w} : pc[v] # "idle" =>
         call[v].id \in Nat /\ call[v].id <= arrived
  BY RelayAssumption DEF CallsNumbered, CallsArrived, Call, Requests
<1>4. \A k \in Keys : \A s \in admissions[k] : s.req \in Nat /\ s.req <= arrived
  BY RelayAssumption DEF CallsNumbered, RecordedArrived, Limiter!RateTypeOK,
     Limiter!Stamp, Requests
<1>5. CallsDiffer' /\ CallsArrived'
  BY <1>1, <1>2, <1>3 DEF CallsNumbered, CallsDiffer, CallsArrived
<1>6. RecordedArrived'
  BY <1>1, <1>4 DEF RecordedArrived
<1>7. NotYetRecorded'
  BY <1>1, <1>2, <1>4 DEF CallsNumbered, NotYetRecorded
<1> QED BY <1>5, <1>6, <1>7 DEF CallsNumbered

(* Every step of the server keeps the calls numbered. *)
LEMMA StepNumbered ==
  ASSUME TypeOK, CallsNumbered, [Next]_vars
  PROVE  CallsNumbered'
<1> USE DEF TypeOK, RelayTypeOK, WorkTypeOK
<1>1. ASSUME NEW w \in Workers, Receive(w) PROVE CallsNumbered'
  BY <1>1, ReceiveNumbered
<1>2. ASSUME NEW w \in Workers, ClientGone(w) \/ StreamChunk(w) PROVE CallsNumbered'
  <2>1. CallsSteady
    BY <1>2 DEF ClientGone, StreamChunk, CallsSteady, rateVars
  <2> QED BY <2>1, SteadyNumbered
<1>3. ASSUME NEW w \in Workers, Handler(w) PROVE CallsNumbered'
  BY <1>3, AdmitNumbered, HandlerNumbersSteady, SteadyNumbered
<1>4. CASE Tick
  <2>1. CallsSteady
    BY <1>4 DEF Tick, Limiter!Tick, CallsSteady, workVars
  <2> QED BY <2>1, SteadyNumbered
<1>5. CASE AdminNext /\ UNCHANGED <<relayVars, crashes>>
  <2>1. CallsSteady
    BY <1>5 DEF relayVars, workVars, rateVars, CallsSteady
  <2> QED BY <2>1, SteadyNumbered
<1>6. CASE Crash
  BY <1>6 DEF Crash, RelayCrash, Limiter!Restart, CallsNumbered, CallsDiffer, CallsArrived,
              RecordedArrived, NotYetRecorded, BeforeLimiter
<1>7. CASE UNCHANGED vars
  <2>1. CallsSteady
    BY <1>7 DEF vars, relayVars, workVars, rateVars, CallsSteady
  <2> QED BY <2>1, SteadyNumbered
<1> QED BY <1>1, <1>2, <1>3, <1>4, <1>5, <1>6, <1>7 DEF Next, RelayNext

-----------------------------------------------------------------------------
(* Every step of the server is a step of the limiter or leaves it alone. *)
LEMMA StepOfLimiter ==
  ASSUME TypeOK, CallsNumbered, [Next]_vars
  PROVE  [Limiter!RateNext]_(Limiter!rateVars)
<1> USE DEF TypeOK, RelayTypeOK, WorkTypeOK
<1>0. ASSUME UNCHANGED rateVars PROVE [Limiter!RateNext]_(Limiter!rateVars)
  BY <1>0 DEF rateVars, Limiter!rateVars
<1>1. ASSUME NEW w \in Workers, Admit(w) PROVE [Limiter!RateNext]_(Limiter!rateVars)
  <2>1. pc[w] = "bind" /\ call[w] \in Call /\ snap[w] \in KeyRow
    BY <1>1 DEF Admit
  <2>2. call[w].key \in Keys /\ call[w].id \in Requests /\ snap[w].rateLimit \in RateLimits
    BY <2>1 DEF Call, KeyRow
  <2>3. Limiter!Unused(call[w].id)
    BY <2>1 DEF CallsNumbered, NotYetRecorded, BeforeLimiter, Limiter!Unused
  <2> QED BY <1>1, <1>0, <2>2, <2>3 DEF Admit, Limiter!RateNext
<1>2. ASSUME NEW w \in Workers, RateLimited(w)
      PROVE  [Limiter!RateNext]_(Limiter!rateVars)
  <2>1. call[w] \in Call /\ snap[w] \in KeyRow
    BY <1>2 DEF RateLimited
  <2>2. call[w].key \in Keys /\ snap[w].rateLimit \in RateLimits
    BY <2>1 DEF Call, KeyRow
  <2> QED BY <1>2, <2>2 DEF RateLimited, Limiter!RateNext
<1>3. ASSUME NEW w \in Workers, Handler(w), ~Admit(w), ~RateLimited(w)
      PROVE  UNCHANGED rateVars
  BY <1>3 DEF Handler, Abort, Authenticate, BindFails, FindModel, ModelNotFound, CheckRules,
     GetAdapter, UpstreamAnswers, UpstreamFails, StreamOpens, StreamEnds, RecordUsage,
     IncrementQuota
<1>4. ASSUME NEW w \in Workers, Receive(w) \/ ClientGone(w) \/ StreamChunk(w)
      PROVE  UNCHANGED rateVars
  BY <1>4 DEF Receive, ClientGone, StreamChunk
<1>5. CASE Tick
  BY <1>5 DEF Tick, Limiter!RateNext
<1>6. CASE Crash
  BY <1>6 DEF Crash, RelayCrash, Limiter!RateNext
<1>7. CASE UNCHANGED relayVars
  BY <1>7, <1>0 DEF relayVars
<1> QED BY <1>0, <1>1, <1>2, <1>3, <1>4, <1>5, <1>6, <1>7 DEF Next, RelayNext, vars

(* Every behaviour of the server is one of the limiter alone: no handler,  *)
(* admin or crash touches a bucket in any other way than allow does, and   *)
(* no call passes it twice (CheckRateLimit, service.go:118).               *)
THEOREM ServerRefinesLimiter == Spec => LimiterSpec
<1>1. Init => CallsNumbered /\ Limiter!RateInit
  BY DEF Init, RelayInit, Limiter!RateInit, CallsNumbered, CallsDiffer, CallsArrived,
         RecordedArrived, NotYetRecorded, BeforeLimiter
<1>2. TypeOK /\ CallsNumbered /\ [Next]_vars => CallsNumbered'
  BY StepNumbered
<1>3. TypeOK /\ CallsNumbered /\ [Next]_vars => [Limiter!RateNext]_(Limiter!rateVars)
  BY StepOfLimiter
<1> QED BY <1>1, <1>2, <1>3, TypeCorrect, PTL DEF Spec, LimiterSpec, Limiter!RateSpec

(* So in the server, too, no minute holds more admitted requests of a key  *)
(* than the highest limit that admitted one (README.md:214).               *)
THEOREM ServerKeepsRateLimit == Spec => []Limiter!NoWindowOverfull
<1>0. \A S : Limiter!Cardinality(S) = Alone!Cardinality(S)
  BY DEF Limiter!Cardinality, Alone!Cardinality
<1>1. Limiter!RateInit => Alone!RateInit
  BY DEF Limiter!RateInit, Alone!RateInit
<1>2. [Limiter!RateNext]_(Limiter!rateVars) => [Alone!RateNext]_(Alone!rateVars)
  BY <1>0 DEF Limiter!rateVars, Alone!rateVars, Limiter!RateNext, Alone!RateNext,
     Limiter!Unused, Alone!Unused, Limiter!Allow, Alone!Allow, Limiter!Refuse, Alone!Refuse,
     Limiter!Tick, Alone!Tick, Limiter!Restart, Alone!Restart, Limiter!HasRoom, Alone!HasRoom,
     Limiter!Recent, Alone!Recent
<1>3. Alone!RateSpec => []Alone!NoWindowOverfull
  <2>1. Alone!RateAssumption
    BY StoreAssumption, RelayAssumption DEF Alone!RateAssumption
  <2> QED BY <2>1, Alone!RateLimitHolds, PTL
<1>4. Alone!NoWindowOverfull => Limiter!NoWindowOverfull
  BY <1>0 DEF Alone!NoWindowOverfull, Limiter!NoWindowOverfull
<1> QED BY <1>1, <1>2, <1>3, <1>4, ServerRefinesLimiter, PTL
        DEF LimiterSpec, Limiter!RateSpec, Alone!RateSpec
-----------------------------------------------------------------------------
(* Quotas, of requests and of tokens: a meter is the name of one of them.  *)
(*                                                                         *)
(* The bound of a quota is not inductive by itself: it says nothing of the *)
(* calls that have read the row and have not been charged yet.  Each of    *)
(* them that found room in the quota is entitled to one more charge, of 1  *)
(* request and of LargestCall tokens at most.  Charges made and charges to *)
(* come together stay within the bound, because a call becomes entitled    *)
(* only while less than the quota has been charged.                        *)
Meters == {"reqs", "tokens"}

Used(m, row) == IF m = "reqs" THEN row.usedReqs ELSE row.usedTokens
Quota(m, row) == IF m = "reqs" THEN row.quotaReqs ELSE row.quotaTokens
High(m) == IF m = "reqs" THEN highQuota ELSE highTokens
Cost(m, w) == IF m = "reqs" THEN 1 ELSE result[w].tokens
Worth(m) == IF m = "reqs" THEN 1 ELSE LargestCall

Room(m, row) == Quota(m, row) > 0 => Used(m, row) < Quota(m, row)

(* The calls of k that hold a copy of its row with room in it. *)
Entitled(m, k) ==
  {w \in Workers : /\ pc[w] \notin {"idle", "auth"}
                   /\ call[w].key = k
                   /\ Room(m, snap[w])}

Claim(m, k) == Worth(m) * Cardinality(Entitled(m, k))
Ceiling(m, k) == High(m)[k] - 1 + Worth(m) * Cardinality(Workers)

(* CheckQuota has let through only calls that are entitled. *)
AdmittedAreEntitled(m) ==
  \A w \in Workers : pc[w] \notin {"idle", "auth", "bind"} => Room(m, snap[w])

ChargesToComeBounded(m) ==
  \A k \in DOMAIN apiKeys : High(m)[k] > 0 =>
     /\ Quota(m, apiKeys[k]) > 0 /\ Quota(m, apiKeys[k]) <= High(m)[k]
     /\ Used(m, apiKeys[k]) + Claim(m, k) <= Ceiling(m, k)

QuotaInv(m) == AdmittedAreEntitled(m) /\ ChargesToComeBounded(m)

-----------------------------------------------------------------------------
(* A finite set of numbers has a largest one. *)
LEMMA LargestThere ==
  ASSUME NEW S, IsFiniteSet(S), S \subseteq Nat, S # {}
  PROVE  Max(S) \in S /\ \A x \in S : x <= Max(S)
<1> DEFINE Tops(s) == {x \in s : \A y \in s : y <= x}
           I == {n \in Nat : \A s \in SUBSET S : Cardinality(s) = n + 1 => Tops(s) # {}}
<1>0. \A s \in SUBSET S : IsFiniteSet(s) /\ Cardinality(s) \in Nat
  BY FS_Subset, FS_CardinalityType
<1>1. 0 \in I
  <2> SUFFICES ASSUME NEW s \in SUBSET S, Cardinality(s) = 1 PROVE Tops(s) # {}
    OBVIOUS
  <2>1. PICK x : s = {x}
    BY <1>0, FS_Singleton
  <2> QED BY <2>1
<1>2. ASSUME NEW n \in Nat, n \in I PROVE n + 1 \in I
  <2> SUFFICES ASSUME NEW s \in SUBSET S, Cardinality(s) = n + 2 PROVE Tops(s) # {}
    OBVIOUS
  <2>1. PICK x : x \in s
    BY FS_EmptySet
  <2>2. Cardinality(s \ {x}) = n + 1
    BY <1>0, <2>1, FS_RemoveElement
  <2>3. PICK y : y \in s \ {x} /\ \A z \in s \ {x} : z <= y
    BY <1>2, <2>2
  <2>4. x \in Nat /\ y \in Nat /\ s \subseteq Nat
    BY <2>1, <2>3
  <2> QED BY <2>1, <2>3, <2>4
<1> HIDE DEF I
<1>3. Cardinality(S) - 1 \in I
  <2>1. Cardinality(S) \in Nat /\ Cardinality(S) # 0
    BY FS_CardinalityType, FS_EmptySet
  <2> QED BY <1>1, <1>2, <2>1, Ledger!NatSetInduction
<1>4. PICK m : m \in S /\ \A y \in S : y <= m
  <2>1. Cardinality(S) - 1 + 1 = Cardinality(S)
    BY FS_CardinalityType
  <2> QED BY <1>3, <2>1 DEF I
<1>5. m \in S /\ \A y \in S : m >= y
  BY <1>4
<1>6. Max(S) \in S /\ \A y \in S : Max(S) >= y
  BY <1>5 DEF Max
<1> QED BY <1>6

(* No call costs more than the largest. *)
LEMMA WorthOfCall ==
  ASSUME NEW m \in Meters
  PROVE  /\ Worth(m) \in Nat
         /\ \A t \in Tokens : t \in Nat /\ t <= LargestCall
<1>1. Tokens \subseteq Nat /\ 0 \in Tokens
  BY TokensTyped
<1>2. IsFiniteSet(Tokens)
  <2>1. MaxChunks \in Int /\ IsFiniteSet(TokenCounts)
    BY RelayAssumption
  <2>2. IsFiniteSet(0 .. MaxChunks)
    BY <2>1, FS_Interval
  <2> QED BY <2>1, <2>2, FS_Union DEF Tokens
<1>3. LargestCall \in Nat /\ \A t \in Tokens : t \in Nat /\ t <= LargestCall
  BY <1>1, <1>2, LargestThere DEF LargestCall
<1> QED BY <1>3 DEF Worth

(* More calls weigh no less. *)
LEMMA Weighs ==
  ASSUME NEW n \in Nat, NEW i \in Nat, NEW j \in Nat, i <= j
  PROVE  n * i \in Nat /\ n * j \in Nat /\ n * i <= n * j
OBVIOUS

(* The entitled calls are no more than the workers, before and after a step. *)
LEMMA ClaimBounded ==
  ASSUME NEW m \in Meters, NEW k
  PROVE  /\ IsFiniteSet(Entitled(m, k)) /\ IsFiniteSet(Entitled(m, k)')
         /\ Cardinality(Entitled(m, k)) \in Nat /\ Cardinality(Entitled(m, k)') \in Nat
         /\ Claim(m, k) \in Nat /\ Claim(m, k)' \in Nat
         /\ Worth(m) * Cardinality(Workers) \in Nat
         /\ Claim(m, k) <= Worth(m) * Cardinality(Workers)
         /\ Claim(m, k)' <= Worth(m) * Cardinality(Workers)
<1>1. Entitled(m, k) \subseteq Workers /\ Entitled(m, k)' \subseteq Workers
  BY DEF Entitled
<1>2. /\ IsFiniteSet(Entitled(m, k)) /\ IsFiniteSet(Entitled(m, k)')
      /\ Cardinality(Entitled(m, k)) \in Nat /\ Cardinality(Entitled(m, k)') \in Nat
      /\ Cardinality(Workers) \in Nat
      /\ Cardinality(Entitled(m, k)) <= Cardinality(Workers)
      /\ Cardinality(Entitled(m, k)') <= Cardinality(Workers)
  BY <1>1, RelayAssumption, FS_Subset, FS_CardinalityType
<1>3. Worth(m) \in Nat /\ Worth(m)' = Worth(m)
  BY WorthOfCall DEF Worth, LargestCall
<1> QED BY <1>2, <1>3, Weighs DEF Claim

(* With no one newly entitled the claims do not grow, and they shrink by   *)
(* one call when one of the entitled drops out.                            *)
LEMMA ClaimShrinks ==
  ASSUME NEW m \in Meters, NEW k
  PROVE  /\ Entitled(m, k)' \subseteq Entitled(m, k) => Claim(m, k)' <= Claim(m, k)
         /\ \A w \in Entitled(m, k) : Entitled(m, k)' \subseteq Entitled(m, k) \ {w}
              => Claim(m, k)' + Worth(m) <= Claim(m, k)
<1>0. /\ IsFiniteSet(Entitled(m, k))
      /\ Cardinality(Entitled(m, k)) \in Nat /\ Cardinality(Entitled(m, k)') \in Nat
      /\ Claim(m, k) \in Nat /\ Claim(m, k)' \in Nat
  BY ClaimBounded
<1>1. Worth(m) \in Nat /\ Worth(m)' = Worth(m)
  BY WorthOfCall DEF Worth, LargestCall
<1>2. ASSUME Entitled(m, k)' \subseteq Entitled(m, k) PROVE Claim(m, k)' <= Claim(m, k)
  <2>1. Cardinality(Entitled(m, k)') <= Cardinality(Entitled(m, k))
    BY <1>0, <1>2, FS_Subset
  <2> QED BY <1>0, <1>1, <2>1, Weighs DEF Claim
<1>3. ASSUME NEW w \in Entitled(m, k), Entitled(m, k)' \subseteq Entitled(m, k) \ {w}
      PROVE  Claim(m, k)' + Worth(m) <= Claim(m, k)
  <2> DEFINE n == Cardinality(Entitled(m, k))
  <2>1. IsFiniteSet(Entitled(m, k) \ {w}) /\ Cardinality(Entitled(m, k) \ {w}) = n - 1
    BY <1>0, FS_RemoveElement
  <2>2. n - 1 \in Nat
    BY <2>1, FS_CardinalityType
  <2>3. Cardinality(Entitled(m, k)') <= n - 1
    BY <1>3, <2>1, FS_Subset
  <2>4. Claim(m, k)' <= Worth(m) * (n - 1)
    BY <1>0, <1>1, <2>2, <2>3, Weighs DEF Claim
  <2>5. Worth(m) * (n - 1) = Worth(m) * n - Worth(m)
    BY <1>0, <1>1
  <2> QED BY <1>0, <1>1, <2>4, <2>5 DEF Claim
<1> QED BY <1>2, <1>3

(* What a meter reads is a number. *)
LEMMA MeterTyped ==
  ASSUME NEW m \in Meters
  PROVE  /\ \A row \in KeyRow : Used(m, row) \in Nat /\ Quota(m, row) \in Int
         /\ TypeOK => \A k \in Keys : High(m)[k] \in Nat
         /\ TypeOK => \A k \in DOMAIN apiKeys : k \in Keys /\ apiKeys[k] \in KeyRow
BY DEF KeyRow, Used, Quota, High, TypeOK, StoreTypeOK, AdminTypeOK

(* A step that leaves quotas and counters alone, and entitles nobody. *)
KeysSteady ==
  /\ highQuota' = highQuota /\ highTokens' = highTokens
  /\ DOMAIN apiKeys' \subseteq DOMAIN apiKeys
  /\ \A k \in DOMAIN apiKeys' : /\ apiKeys'[k].usedReqs = apiKeys[k].usedReqs
                                /\ apiKeys'[k].quotaReqs = apiKeys[k].quotaReqs
                                /\ apiKeys'[k].usedTokens = apiKeys[k].usedTokens
                                /\ apiKeys'[k].quotaTokens = apiKeys[k].quotaTokens

WorkersSteady(m) ==
  \A w \in Workers :
     \/ pc'[w] \in {"idle", "auth"}
     \/ /\ pc[w] \notin {"idle", "auth"}
        /\ call'[w] = call[w] /\ snap'[w] = snap[w]
        /\ pc'[w] = "bind" \/ Room(m, snap[w])

(* Such a step keeps the invariant. *)
LEMMA SteadyStep ==
  ASSUME NEW m \in Meters, TypeOK, QuotaInv(m), KeysSteady, WorkersSteady(m)
  PROVE  QuotaInv(m)'
<1>1. AdmittedAreEntitled(m)'
  BY DEF WorkersSteady, AdmittedAreEntitled
<1>2. ASSUME NEW k \in DOMAIN apiKeys', High(m)'[k] > 0
      PROVE  /\ Quota(m, apiKeys'[k]) > 0 /\ Quota(m, apiKeys'[k]) <= High(m)'[k]
             /\ Used(m, apiKeys'[k]) + Claim(m, k)' <= Ceiling(m, k)'
  <2>1. Entitled(m, k)' \subseteq Entitled(m, k)
    BY DEF Entitled, WorkersSteady
  <2>2. Claim(m, k)' <= Claim(m, k)
    BY <2>1, ClaimShrinks
  <2>3. /\ k \in DOMAIN apiKeys /\ High(m)' = High(m)
        /\ Used(m, apiKeys'[k]) = Used(m, apiKeys[k])
        /\ Quota(m, apiKeys'[k]) = Quota(m, apiKeys[k])
    BY DEF KeysSteady, High, Used, Quota
  <2>4. Used(m, apiKeys[k]) \in Nat /\ Quota(m, apiKeys[k]) \in Int /\ High(m)[k] \in Nat
    BY <2>3, MeterTyped
  <2>5. /\ Quota(m, apiKeys[k]) > 0 /\ Quota(m, apiKeys[k]) <= High(m)[k]
        /\ Used(m, apiKeys[k]) + Claim(m, k) <= Ceiling(m, k)
    BY <1>2, <2>3 DEF QuotaInv, ChargesToComeBounded
  <2>6. Ceiling(m, k)' = Ceiling(m, k) /\ Ceiling(m, k) \in Int
    BY <2>3, <2>4, ClaimBounded DEF Ceiling, Worth, LargestCall
  <2> QED BY <2>2, <2>3, <2>4, <2>5, <2>6, ClaimBounded
<1> QED BY <1>1, <1>2 DEF QuotaInv, ChargesToComeBounded

-----------------------------------------------------------------------------
(* Every step of a call but the first query and the charge. *)
LEMMA HandlerSteady ==
  ASSUME NEW m \in Meters, TypeOK, AdmittedAreEntitled(m), NEW w \in Workers, Handler(w),
         ~Authenticate(w), ~IncrementQuota(w)
  PROVE  WorkersSteady(m) /\ UNCHANGED apiKeys
<1> USE DEF TypeOK, RelayTypeOK, WorkTypeOK, WorkersSteady, AdmittedAreEntitled,
            Goto, storeVars
<1>0. ASSUME Finish(w) PROVE WorkersSteady(m)
  BY <1>0 DEF Finish
<1>1. CASE Abort(w)
  BY <1>1, <1>0 DEF Abort
<1>2. CASE BindFails(w)
  BY <1>2, <1>0 DEF BindFails
<1>3. CASE Admit(w)
  <2>1. CASE WithinQuota(snap[w])
    BY <1>3, <2>1 DEF Admit, WithinQuota, Room, Used, Quota
  <2>2. CASE ~WithinQuota(snap[w])
    BY <1>3, <2>2, <1>0 DEF Admit
  <2> QED BY <2>1, <2>2
<1>4. CASE RateLimited(w)
  BY <1>4, <1>0 DEF RateLimited
<1>5. CASE FindModel(w)
  BY <1>5 DEF FindModel
<1>6. CASE ModelNotFound(w)
  BY <1>6, <1>0 DEF ModelNotFound
<1>7. CASE CheckRules(w)
  <2>1. CASE Finish(w)
    BY <1>7, <2>1, <1>0 DEF CheckRules
  <2>2. CASE ~Finish(w)
    BY <1>7, <2>2 DEF CheckRules
  <2> QED BY <2>1, <2>2
<1>8. CASE GetAdapter(w)
  <2>1. CASE Finish(w)
    BY <1>8, <2>1, <1>0 DEF GetAdapter
  <2>2. CASE ~Finish(w)
    BY <1>8, <2>2 DEF GetAdapter
  <2> QED BY <2>1, <2>2
<1>9. CASE UpstreamAnswers(w)
  BY <1>9 DEF UpstreamAnswers
<1>10. CASE UpstreamFails(w)
  BY <1>10 DEF UpstreamFails
<1>11. CASE StreamOpens(w)
  BY <1>11 DEF StreamOpens
<1>12. CASE StreamEnds(w)
  BY <1>12 DEF StreamEnds
<1>13. CASE RecordUsage(w)
  <2>1. CASE result[w].ok
    BY <1>13, <2>1 DEF RecordUsage
  <2>2. CASE ~result[w].ok
    BY <1>13, <2>2, <1>0 DEF RecordUsage
  <2> QED BY <2>1, <2>2
<1> QED BY <1>1, <1>2, <1>3, <1>4, <1>5, <1>6, <1>7, <1>8, <1>9, <1>10, <1>11, <1>12,
          <1>13 DEF Handler

(* A call that reads the row becomes entitled only if less than the quota  *)
(* has been charged; however many calls are entitled then, they are no     *)
(* more than there are workers.                                            *)
LEMMA AuthenticateStep ==
  ASSUME NEW m \in Meters, TypeOK, QuotaInv(m),
         NEW w \in Workers, Authenticate(w), UNCHANGED adminVars
  PROVE  QuotaInv(m)'
<1> USE DEF TypeOK, RelayTypeOK, WorkTypeOK
<1>0. KeysSteady
  BY DEF Authenticate, KeysSteady, storeVars, adminVars, quotaHistory
<1>1. CASE Finish(w)
  <2>1. WorkersSteady(m)
    BY <1>1 DEF Finish, Goto, WorkersSteady, QuotaInv, AdmittedAreEntitled
  <2> QED BY <1>0, <2>1, SteadyStep
<1>2. CASE ~Finish(w)
  <2> DEFINE j == call[w].key
  <2>1. /\ pc[w] = "auth" /\ j \in DOMAIN apiKeys
        /\ pc' = [pc EXCEPT ![w] = "bind"]
        /\ snap' = [snap EXCEPT ![w] = apiKeys[j]]
        /\ call' = call /\ apiKeys' = apiKeys /\ UNCHANGED <<highQuota, highTokens>>
    BY <1>2 DEF Authenticate, Goto, storeVars, adminVars, quotaHistory
  <2>2. AdmittedAreEntitled(m)'
    BY <2>1 DEF QuotaInv, AdmittedAreEntitled
  <2>3. ASSUME NEW k \in DOMAIN apiKeys, High(m)[k] > 0
        PROVE  /\ Quota(m, apiKeys[k]) > 0 /\ Quota(m, apiKeys[k]) <= High(m)[k]
               /\ Used(m, apiKeys[k]) + Claim(m, k)' <= Ceiling(m, k)
    <3>1. Used(m, apiKeys[k]) \in Nat /\ Quota(m, apiKeys[k]) \in Int /\ High(m)[k] \in Nat
      BY MeterTyped
    <3>2. /\ Quota(m, apiKeys[k]) > 0 /\ Quota(m, apiKeys[k]) <= High(m)[k]
          /\ Used(m, apiKeys[k]) + Claim(m, k) <= Ceiling(m, k)
      BY <2>3 DEF QuotaInv, ChargesToComeBounded
    <3>3. CASE w \in Entitled(m, k)'
      <4>1. k = j /\ Room(m, apiKeys[k])
        BY <2>1, <3>3 DEF Entitled
      <4>2. Used(m, apiKeys[k]) < Quota(m, apiKeys[k])
        BY <3>2, <4>1 DEF Room
      <4> QED BY <3>1, <3>2, <4>2, ClaimBounded DEF Ceiling
    <3>4. CASE w \notin Entitled(m, k)'
      <4>1. Entitled(m, k)' \subseteq Entitled(m, k)
        BY <2>1, <3>4 DEF Entitled
      <4>2. Claim(m, k)' <= Claim(m, k)
        BY <4>1, ClaimShrinks
      <4> QED BY <3>1, <3>2, <4>2, ClaimBounded DEF Ceiling
    <3> QED BY <3>3, <3>4
  <2>4. High(m)' = High(m) /\ \A k : Ceiling(m, k)' = Ceiling(m, k)
    BY <2>1 DEF High, Ceiling, Worth, LargestCall
  <2> QED BY <2>1, <2>2, <2>3, <2>4 DEF QuotaInv, ChargesToComeBounded
<1> QED BY <1>1, <1>2

(* A charge moves one call from those to come to those made. *)
LEMMA ChargeStep ==
  ASSUME NEW m \in Meters, TypeOK, QuotaInv(m),
         NEW w \in Workers, IncrementQuota(w), UNCHANGED adminVars
  PROVE  QuotaInv(m)'
<1> USE DEF TypeOK, RelayTypeOK, WorkTypeOK
<1> DEFINE j == call[w].key
<1>0. WorkersSteady(m)
  BY DEF IncrementQuota, Finish, Goto, WorkersSteady, QuotaInv, AdmittedAreEntitled
<1>1. CASE apiKeys' = apiKeys
  <2>1. KeysSteady
    BY <1>1 DEF KeysSteady, adminVars, quotaHistory
  <2> QED BY <1>0, <2>1, SteadyStep
<1>2. CASE apiKeys' # apiKeys
  <2>1. /\ pc[w] = "charge" /\ j \in DOMAIN apiKeys
        /\ apiKeys' = [apiKeys EXCEPT ![j].usedTokens = @ + result[w].tokens,
                                      ![j].usedReqs = @ + 1]
        /\ UNCHANGED <<highQuota, highTokens>> /\ pc' = [pc EXCEPT ![w] = "idle"]
    BY <1>2 DEF IncrementQuota, IncrementUsage, Finish, Goto, adminVars, quotaHistory
  <2>2. AdmittedAreEntitled(m)'
    BY <1>0 DEF WorkersSteady, AdmittedAreEntitled
  <2>3. High(m)' = High(m) /\ \A k : Ceiling(m, k)' = Ceiling(m, k)
    BY <2>1 DEF High, Ceiling, Worth, LargestCall
  <2>4. Cost(m, w) \in Nat /\ Cost(m, w) <= Worth(m)
    <3>1. result[w].tokens \in Tokens
      BY <2>1 DEF Result
    <3> QED BY <3>1, WorthOfCall DEF Cost, Worth
  <2>5. ASSUME NEW k \in DOMAIN apiKeys', High(m)[k] > 0
        PROVE  /\ Quota(m, apiKeys'[k]) > 0 /\ Quota(m, apiKeys'[k]) <= High(m)[k]
               /\ Used(m, apiKeys'[k]) + Claim(m, k)' <= Ceiling(m, k)
    <3>1. k \in DOMAIN apiKeys /\ apiKeys[k] \in KeyRow
      BY <2>1, <2>5, MeterTyped
    <3>2. Used(m, apiKeys[k]) \in Nat /\ Quota(m, apiKeys[k]) \in Int /\ High(m)[k] \in Nat
      BY <3>1, MeterTyped
    <3>3. /\ Quota(m, apiKeys[k]) > 0 /\ Quota(m, apiKeys[k]) <= High(m)[k]
          /\ Used(m, apiKeys[k]) + Claim(m, k) <= Ceiling(m, k)
      BY <2>5, <3>1 DEF QuotaInv, ChargesToComeBounded
    <3>4. Entitled(m, k)' \subseteq Entitled(m, k) \ {w}
      BY <1>0, <2>1 DEF Entitled, WorkersSteady
    <3>5. CASE k = j
      <4>1. w \in Entitled(m, k)
        BY <2>1, <3>5 DEF Entitled, QuotaInv, AdmittedAreEntitled
      <4>2. Claim(m, k)' + Worth(m) <= Claim(m, k)
        BY <3>4, <4>1, ClaimShrinks
      <4>3. /\ Used(m, apiKeys'[k]) = Used(m, apiKeys[k]) + Cost(m, w)
            /\ Quota(m, apiKeys'[k]) = Quota(m, apiKeys[k])
        BY <2>1, <3>1, <3>5 DEF KeyRow, Used, Quota, Cost
      <4> QED BY <2>4, <3>2, <3>3, <4>2, <4>3, ClaimBounded, WorthOfCall DEF Ceiling
    <3>6. CASE k # j
      <4>1. apiKeys'[k] = apiKeys[k]
        BY <2>1, <3>1, <3>6
      <4>2. Claim(m, k)' <= Claim(m, k)
        BY <3>4, ClaimShrinks
      <4> QED BY <3>2, <3>3, <4>1, <4>2, ClaimBounded DEF Ceiling
    <3> QED BY <3>5, <3>6
  <2> QED BY <2>2, <2>3, <2>5 DEF QuotaInv, ChargesToComeBounded
<1> QED BY <1>1, <1>2

(* The steps of relay calls, of their clients and of the clock. *)
LEMMA RelayStep ==
  ASSUME NEW m \in Meters, TypeOK, QuotaInv(m), RelayNext, UNCHANGED adminVars
  PROVE  QuotaInv(m)'
<1> USE DEF TypeOK, RelayTypeOK, WorkTypeOK
<1>1. ASSUME WorkersSteady(m), UNCHANGED apiKeys PROVE QuotaInv(m)'
  <2>1. KeysSteady
    BY <1>1 DEF KeysSteady, adminVars, quotaHistory
  <2> QED BY <1>1, <2>1, SteadyStep
<1>2. ASSUME NEW w \in Workers, Receive(w) PROVE QuotaInv(m)'
  <2>1. WorkersSteady(m)
    BY <1>2 DEF Receive, Goto, WorkersSteady, QuotaInv, AdmittedAreEntitled
  <2> QED BY <1>1, <1>2, <2>1 DEF Receive, storeVars
<1>3. ASSUME NEW w \in Workers, ClientGone(w) PROVE QuotaInv(m)'
  <2>1. WorkersSteady(m)
    BY <1>3 DEF ClientGone, WorkersSteady, QuotaInv, AdmittedAreEntitled
  <2> QED BY <1>1, <1>3, <2>1 DEF ClientGone, storeVars
<1>4. ASSUME NEW w \in Workers, StreamChunk(w) PROVE QuotaInv(m)'
  <2>1. WorkersSteady(m)
    BY <1>4 DEF StreamChunk, WorkersSteady, QuotaInv, AdmittedAreEntitled
  <2> QED BY <1>1, <1>4, <2>1 DEF StreamChunk, storeVars
<1>5. CASE Tick
  <2>1. WorkersSteady(m)
    BY <1>5 DEF Tick, workVars, WorkersSteady, QuotaInv, AdmittedAreEntitled
  <2> QED BY <1>1, <1>5, <2>1 DEF Tick, storeVars
<1>6. ASSUME NEW w \in Workers, Handler(w) PROVE QuotaInv(m)'
  <2>1. CASE Authenticate(w)
    BY <2>1, AuthenticateStep
  <2>2. CASE IncrementQuota(w)
    BY <2>2, ChargeStep
  <2>3. CASE ~Authenticate(w) /\ ~IncrementQuota(w)
    BY <1>6, <2>3, <1>1, HandlerSteady DEF QuotaInv
  <2> QED BY <2>1, <2>2, <2>3
<1> QED BY <1>2, <1>3, <1>4, <1>5, <1>6 DEF RelayNext

-----------------------------------------------------------------------------
(* A key that is made starts with nothing used. *)
LEMMA AddKeyStep ==
  ASSUME NEW m \in Meters, TypeOK, QuotaInv(m),
         NEW k \in Keys, NEW row \in KeyRow, AddKey(k, row), UNCHANGED relayVars
  PROVE  QuotaInv(m)'
<1> USE DEF TypeOK
<1>1. AdmittedAreEntitled(m)' /\ \A i : Claim(m, i)' = Claim(m, i)
  BY DEF relayVars, workVars, QuotaInv, AdmittedAreEntitled, Claim, Entitled, Worth, LargestCall
<1>2. /\ KeyCreate(k, row)
      /\ highQuota' = [highQuota EXCEPT ![k] = QuotaOf(row.quotaReqs)]
      /\ highTokens' = [highTokens EXCEPT ![k] = QuotaOf(row.quotaTokens)]
  BY DEF AddKey
<1>3. ASSUME NEW i \in DOMAIN apiKeys', High(m)'[i] > 0
      PROVE  /\ Quota(m, apiKeys'[i]) > 0 /\ Quota(m, apiKeys'[i]) <= High(m)'[i]
             /\ Used(m, apiKeys'[i]) + Claim(m, i) <= Ceiling(m, i)'
  <2>1. Ceiling(m, i)' = High(m)'[i] - 1 + Worth(m) * Cardinality(Workers)
    BY DEF Ceiling, Worth, LargestCall
  <2>2. CASE i = k
    <3>1. Used(m, apiKeys'[k]) = 0 /\ Quota(m, apiKeys'[k]) = Quota(m, row)
      BY <1>2 DEF KeyCreate, With, KeyRow, Used, Quota
    <3>2. /\ Quota(m, row) \in Int
          /\ High(m)'[k] = IF Quota(m, row) > 0 THEN Quota(m, row) ELSE 0
      BY <1>2 DEF KeyRow, AdminTypeOK, QuotaOf, High, Quota
    <3> QED BY <1>3, <2>1, <2>2, <3>1, <3>2, ClaimBounded
  <2>3. CASE i # k
    <3>1. i \in DOMAIN apiKeys /\ apiKeys'[i] = apiKeys[i] /\ High(m)'[i] = High(m)[i]
      BY <1>2, <2>3 DEF KeyCreate, With, StoreTypeOK, AdminTypeOK, High
    <3> QED BY <1>3, <2>1, <3>1 DEF QuotaInv, ChargesToComeBounded, Ceiling
  <2> QED BY <2>2, <2>3
<1> QED BY <1>1, <1>3 DEF QuotaInv, ChargesToComeBounded

(* Edits of keys: the highest quota goes up with the quota in force. *)
LEMMA UpdateKeyStep ==
  ASSUME NEW m \in Meters, TypeOK, QuotaInv(m), NEW a \in Admins, UpdateAPIKey(a),
         UNCHANGED relayVars
  PROVE  QuotaInv(m)'
<1> USE DEF TypeOK
<1> DEFINE copy == PatchKey(draft[a].row, draft[a].body)
           k == draft[a].id
<1>1. AdmittedAreEntitled(m)' /\ \A i : Claim(m, i)' = Claim(m, i)
  BY DEF relayVars, workVars, QuotaInv, AdmittedAreEntitled, Claim, Entitled, Worth, LargestCall
<1>2. draft[a] \in KeyDraft
  BY DraftTyped DEF UpdateAPIKey, Editing
<1>3. copy \in KeyRow /\ k \in Keys
  BY <1>2, PatchTyped DEF KeyDraft
<1> HIDE DEF copy
<1>4. /\ k \in DOMAIN apiKeys
      /\ apiKeys' = [apiKeys EXCEPT ![k] =
            [copy EXCEPT !.usedTokens = apiKeys[k].usedTokens,
                         !.usedReqs = apiKeys[k].usedReqs]]
      /\ highQuota' = [highQuota EXCEPT ![k] = Higher(@, copy.quotaReqs)]
      /\ highTokens' = [highTokens EXCEPT ![k] = Higher(@, copy.quotaTokens)]
  BY DEF UpdateAPIKey, KeyUpdate, copy
<1> HIDE DEF k
<1>5. ASSUME NEW i \in DOMAIN apiKeys', High(m)'[i] > 0
      PROVE  /\ Quota(m, apiKeys'[i]) > 0 /\ Quota(m, apiKeys'[i]) <= High(m)'[i]
             /\ Used(m, apiKeys'[i]) + Claim(m, i) <= Ceiling(m, i)'
  <2>0. Ceiling(m, i)' = High(m)'[i] - 1 + Worth(m) * Cardinality(Workers)
    BY DEF Ceiling, Worth, LargestCall
  <2>1. CASE i = k
    <3>1. /\ Used(m, apiKeys'[k]) = Used(m, apiKeys[k])
          /\ Quota(m, apiKeys'[k]) = Quota(m, copy)
      BY <1>3, <1>4 DEF KeyRow, StoreTypeOK, Used, Quota
    <3>2. High(m)[k] \in Nat /\ Used(m, apiKeys[k]) \in Nat /\ Quota(m, copy) \in Int
      BY <1>3, <1>4, MeterTyped
    <3>3. High(m)'[k] = Higher(High(m)[k], Quota(m, copy))
      BY <1>3, <1>4 DEF AdminTypeOK, High, Quota
    <3>4. /\ High(m)[k] > 0 /\ Quota(m, copy) > 0 /\ Quota(m, copy) <= High(m)'[k]
          /\ High(m)[k] <= High(m)'[k] /\ High(m)'[k] \in Nat
      BY <1>5, <2>1, <3>2, <3>3 DEF Higher
    <3>5. Used(m, apiKeys[k]) + Claim(m, k) <= High(m)[k] - 1 + Worth(m) * Cardinality(Workers)
      BY <1>4, <3>4 DEF QuotaInv, ChargesToComeBounded, Ceiling
    <3> QED BY <2>0, <2>1, <3>1, <3>2, <3>4, <3>5, ClaimBounded
  <2>2. CASE i # k
    <3>1. i \in DOMAIN apiKeys /\ apiKeys'[i] = apiKeys[i] /\ High(m)'[i] = High(m)[i]
      BY <1>3, <1>4, <2>2 DEF StoreTypeOK, AdminTypeOK, High
    <3> QED BY <1>5, <2>0, <3>1 DEF QuotaInv, ChargesToComeBounded, Ceiling
  <2> QED BY <2>1, <2>2
<1> QED BY <1>1, <1>5 DEF QuotaInv, ChargesToComeBounded

(* Every step of the management API. *)
LEMMA AdminStep ==
  ASSUME NEW m \in Meters, TypeOK, QuotaInv(m), AdminNext, UNCHANGED relayVars
  PROVE  QuotaInv(m)'
<1> USE DEF TypeOK, quotaHistory
<1>1. ASSUME KeysSteady PROVE QuotaInv(m)'
  <2>1. WorkersSteady(m)
    BY DEF relayVars, workVars, WorkersSteady, QuotaInv, AdmittedAreEntitled
  <2> QED BY <1>1, <2>1, SteadyStep
<1>2. ASSUME NEW k \in Keys, CreateAPIKey(k) \/ CtlCreateKey(k) PROVE QuotaInv(m)'
  <2>1. CtlKey \in KeyRow
    BY StoreAssumption DEF CtlKey, KeyRow, KeyStatus
  <2> QED BY <1>2, <2>1, AdminAssumption, AddKeyStep DEF CreateAPIKey, CtlCreateKey
<1>3. ASSUME NEW k \in Keys, DeleteAPIKey(k) PROVE QuotaInv(m)'
  <2>1. KeysSteady
    BY <1>3 DEF DeleteAPIKey, KeyDelete, Only, KeysSteady
  <2> QED BY <1>1, <2>1
<1>4. ASSUME NEW p \in Providers, DeleteProvider(p) PROVE QuotaInv(m)'
  <2>1. KeysSteady
    BY <1>4 DEF DeleteProvider, ProviderDelete, KeysSteady, StoreTypeOK, KeyRow
  <2> QED BY <1>1, <2>1
<1>5. ASSUME NEW a \in Admins, UpdateAPIKey(a) PROVE QuotaInv(m)'
  BY <1>5, UpdateKeyStep
<1>6. ASSUME UNCHANGED <<apiKeys, highQuota, highTokens>> PROVE QuotaInv(m)'
  BY <1>1, <1>6 DEF KeysSteady
<1>7. \/ \E k \in Keys : CreateAPIKey(k) \/ CtlCreateKey(k) \/ DeleteAPIKey(k)
      \/ \E p \in Providers : DeleteProvider(p)
      \/ \E a \in Admins : UpdateAPIKey(a)
      \/ UNCHANGED <<apiKeys, highQuota, highTokens>>
  BY DEF AdminNext, ReplaceRules, CreateProvider, CreateModel, DeleteModel, Begin,
         UpdateProvider, UpdateModel, UpdateFails, BootstrapPreset, DefaultModel, DefaultModelFails, storeVars
<1> QED BY <1>2, <1>3, <1>4, <1>5, <1>6, <1>7

-----------------------------------------------------------------------------
(* With both meters, charges made and to come stay within the bound. *)
LEMMA QuotasKept == Spec => [](QuotaInv("reqs") /\ QuotaInv("tokens"))
<1>1. ASSUME NEW m \in Meters, Init PROVE QuotaInv(m)
  <2>1. TypeOK
    BY <1>1, InitTyped
  <2>2. AdmittedAreEntitled(m)
    BY <1>1 DEF Init, RelayInit, AdmittedAreEntitled
  <2>3. ASSUME NEW k \in DOMAIN apiKeys, High(m)[k] > 0
        PROVE  /\ Quota(m, apiKeys[k]) > 0 /\ Quota(m, apiKeys[k]) <= High(m)[k]
               /\ Used(m, apiKeys[k]) + Claim(m, k) <= Ceiling(m, k)
    <3>1. k \in Keys /\ Used(m, apiKeys[k]) = 0 /\ Quota(m, apiKeys[k]) \in Int
      BY <1>1, <2>1, SetupAssumption, MeterTyped DEF Init, Used
    <3>2. Quota(m, apiKeys[k]) > 0 /\ High(m)[k] = Quota(m, apiKeys[k])
      BY <1>1, <2>3, <3>1 DEF Init, AdminInit, QuotaOf, High, Quota
    <3> QED BY <3>1, <3>2, ClaimBounded DEF Ceiling
  <2> QED BY <2>2, <2>3 DEF QuotaInv, ChargesToComeBounded
<1>2. ASSUME NEW m \in Meters, TypeOK, QuotaInv(m), [Next]_vars PROVE QuotaInv(m)'
  <2>1. CASE RelayNext /\ UNCHANGED <<adminVars, crashes>>
    BY <1>2, <2>1, RelayStep
  <2>2. CASE AdminNext /\ UNCHANGED <<relayVars, crashes>>
    BY <1>2, <2>2, AdminStep
  <2>3. CASE Crash
    <3>1. KeysSteady /\ WorkersSteady(m)
      BY <2>3 DEF Crash, quotaHistory, RelayCrash, storeVars, KeysSteady, WorkersSteady
    <3> QED BY <1>2, <3>1, SteadyStep
  <2>4. CASE UNCHANGED vars
    <3>1. KeysSteady /\ WorkersSteady(m)
      BY <1>2, <2>4 DEF vars, storeVars, relayVars, workVars, adminVars, quotaHistory, KeysSteady,
                  WorkersSteady, QuotaInv, AdmittedAreEntitled
    <3> QED BY <1>2, <3>1, SteadyStep
  <2> QED BY <1>2, <2>1, <2>2, <2>3, <2>4 DEF Next
<1>3. "reqs" \in Meters /\ "tokens" \in Meters
  BY DEF Meters
<1>4. Init => QuotaInv("reqs") /\ QuotaInv("tokens")
  BY <1>1, <1>3
<1>5. /\ TypeOK /\ QuotaInv("reqs") /\ QuotaInv("tokens") /\ [Next]_vars
      => QuotaInv("reqs")' /\ QuotaInv("tokens")'
  BY <1>2, <1>3
<1> QED BY <1>4, <1>5, TypeCorrect, PTL DEF Spec

(* What a key was charged on a meter, from the invariant. *)
LEMMA ChargedWithinCeiling ==
  ASSUME NEW m \in Meters, TypeOK, QuotaInv(m), NEW k \in DOMAIN apiKeys, High(m)[k] > 0
  PROVE  Used(m, apiKeys[k]) <= High(m)[k] - 1 + Worth(m) * Cardinality(Workers)
<1>1. k \in Keys /\ apiKeys[k] \in KeyRow
  BY MeterTyped
<1>2. Used(m, apiKeys[k]) \in Nat /\ High(m)[k] \in Nat
  BY <1>1, MeterTyped
<1>3. Used(m, apiKeys[k]) + Claim(m, k) <= Ceiling(m, k)
  BY DEF QuotaInv, ChargesToComeBounded
<1> QED BY <1>2, <1>3, ClaimBounded DEF Ceiling

(* A key that always had a request quota is charged at most the highest    *)
(* quota it had, less one, plus the number of calls in progress at once,   *)
(* for every number of workers and whatever clients, admins, failing       *)
(* queries and crashes do (CheckQuota, service.go:131).                    *)
THEOREM OvershootBounded == Spec => []QuotaOvershootBounded
<1>1. TypeOK /\ QuotaInv("reqs") => QuotaOvershootBounded
  <2> SUFFICES ASSUME TypeOK, QuotaInv("reqs"), NEW k \in DOMAIN apiKeys, highQuota[k] > 0
               PROVE  apiKeys[k].usedReqs <= highQuota[k] - 1 + Cardinality(Workers)
    BY DEF QuotaOvershootBounded
  <2>1. Used("reqs", apiKeys[k]) <= highQuota[k] - 1 + 1 * Cardinality(Workers)
    BY ChargedWithinCeiling DEF Meters, High, Worth
  <2>2. Cardinality(Workers) \in Nat
    BY RelayAssumption, FS_CardinalityType
  <2> QED BY <2>1, <2>2 DEF Used
<1> QED BY <1>1, QuotasKept, TypeCorrect, PTL

(* A key that always had a token quota is charged at most the highest it   *)
(* had, less one token, plus the dearest answer once for each call in      *)
(* progress: CheckQuota weighs the tokens of the past only, never those of *)
(* the calls that are under way (service.go:135).                          *)
THEOREM TokenOvershoot == Spec => []TokenOvershootBounded
<1>1. TypeOK /\ QuotaInv("tokens") => TokenOvershootBounded
  <2> SUFFICES ASSUME TypeOK, QuotaInv("tokens"), NEW k \in DOMAIN apiKeys, highTokens[k] > 0
               PROVE  apiKeys[k].usedTokens
                        <= highTokens[k] - 1 + Cardinality(Workers) * LargestCall
    BY DEF TokenOvershootBounded
  <2>1. Used("tokens", apiKeys[k])
          <= highTokens[k] - 1 + LargestCall * Cardinality(Workers)
    BY ChargedWithinCeiling DEF Meters, High, Worth
  <2>2. LargestCall \in Nat /\ Cardinality(Workers) \in Nat
    BY RelayAssumption, FS_CardinalityType, WorthOfCall DEF Worth, Meters
  <2>3. LargestCall * Cardinality(Workers) = Cardinality(Workers) * LargestCall
    BY <2>2
  <2> QED BY <2>1, <2>3 DEF Used
<1> QED BY <1>1, QuotasKept, TypeCorrect, PTL
=============================================================================
