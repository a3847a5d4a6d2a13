-------------------------- MODULE LoginLimiterProofs --------------------------
(***************************************************************************)
(* The login limiter never turns a request away too early, nor lets too    *)
(* many through, for any number of addresses, of attempts and for any      *)
(* window.  The invariant behind the first ties the count of a bucket to   *)
(* the history: it never exceeds the number of requests let through since  *)
(* the time the bucket's window opened, although that time was read before *)
(* the mutex was taken.  The one behind the second adds to what went       *)
(* through in a stretch of the clock what the buckets still have left.     *)
(***************************************************************************)
EXTENDS LoginLimiter, FiniteSetTheorems, TLAPS

StampsPast ==
  \A r \in Logins : stamps[r] # NULL => stamps[r].at <= clock /\ passes[r] = NULL

CountsBacked ==
  \A ip \in Addresses : loginBuckets[ip] # NULL =>
     /\ loginBuckets[ip].resetAt <= clock + loginWindow
     /\ loginBuckets[ip].count
          <= Cardinality(PassedSince(ip, loginBuckets[ip].resetAt - loginWindow))

LoginInv == LoginTypeOK /\ StampsPast /\ CountsBacked

(* Going back in time can only add requests. *)
LEMMA PassedSinceGrows ==
  ASSUME NEW ip \in Addresses, NEW early \in Int, NEW late \in Int, early <= late,
         LoginTypeOK
  PROVE  /\ IsFiniteSet(PassedSince(ip, early))
         /\ Cardinality(PassedSince(ip, early)) \in Nat
         /\ Cardinality(PassedSince(ip, late)) \in Nat
         /\ Cardinality(PassedSince(ip, late)) <= Cardinality(PassedSince(ip, early))
<1>1. IsFiniteSet(Logins)  BY LoginAssumption
<1>2. PassedSince(ip, early) \subseteq Logins  BY DEF PassedSince
<1>3. IsFiniteSet(PassedSince(ip, early))  BY <1>1, <1>2, FS_Subset
<1>4. PassedSince(ip, late) \subseteq PassedSince(ip, early)
  <2> SUFFICES ASSUME NEW r \in Logins, passes[r] # NULL, passes[r].taken >= late
               PROVE  passes[r].taken >= early
    BY DEF PassedSince
  <2>1. passes[r].taken \in Nat  BY DEF LoginTypeOK, Pass
  <2> QED  BY <2>1
<1> QED  BY <1>3, <1>4, FS_Subset, FS_CardinalityType

(* Letting r through adds it to the requests of its address. *)
LEMMA LetThroughCounted ==
  ASSUME LoginInv, NEW r \in Logins, LetThrough(r),
         NEW ip \in Addresses, ip = stamps[r].ip, NEW since \in Int, since <= clock
  PROVE  /\ Cardinality(PassedSince(ip, since)) \in Nat
         /\ Cardinality(PassedSince(ip, since)') = Cardinality(PassedSince(ip, since)) + 1
<1>1. stamps[r] \in Stamp /\ passes[r] = NULL
  BY DEF LoginInv, LoginTypeOK, StampsPast, LetThrough
<1>2. IsFiniteSet(PassedSince(ip, since)) /\ Cardinality(PassedSince(ip, since)) \in Nat
  BY PassedSinceGrows DEF LoginInv
<1>3. r \notin PassedSince(ip, since)  BY <1>1 DEF PassedSince
<1>4. passes' = [passes EXCEPT ![r] = [ip |-> ip, at |-> stamps[r].at, taken |-> clock]]
  BY DEF LetThrough
<1>5. passes \in [Logins -> Pass \cup {NULL}] /\ clock \in Nat  BY DEF LoginInv, LoginTypeOK
<1>6. passes'[r] = [ip |-> ip, at |-> stamps[r].at, taken |-> clock]  BY <1>4, <1>5
<1>7. passes'[r] \in Pass  BY <1>1, <1>5, <1>6 DEF Pass, Stamp
<1>8. passes'[r] # NULL  BY <1>7, LoginAssumption
<1>9. PassedSince(ip, since)' = PassedSince(ip, since) \cup {r}
  <2>1. \A q \in Logins \ {r} : passes'[q] = passes[q]  BY <1>4, <1>5
  <2>2. passes'[r].ip = ip /\ passes'[r].taken >= since  BY <1>5, <1>6
  <2> QED  BY <1>8, <2>1, <2>2 DEF PassedSince
<1> QED  BY <1>2, <1>3, <1>9, FS_AddElement

(* Nothing the server does takes a request out of the history, but a new   *)
(* process.                                                                *)
LEMMA LetThroughKeepsOthers ==
  ASSUME LoginInv, NEW r \in Logins, LetThrough(r),
         NEW ip \in Addresses, ip # stamps[r].ip, NEW since \in Int
  PROVE  PassedSince(ip, since)' = PassedSince(ip, since)
<1>1. stamps[r] \in Stamp /\ passes[r] = NULL
  BY DEF LoginInv, LoginTypeOK, StampsPast, LetThrough
<1>2. passes \in [Logins -> Pass \cup {NULL}]  BY DEF LoginInv, LoginTypeOK
<1>3. /\ passes'[r].ip # ip
      /\ \A q \in Logins \ {r} : passes'[q] = passes[q]
  BY <1>1, <1>2 DEF LetThrough
<1> QED  BY <1>1, <1>3 DEF PassedSince

LEMMA LoginTypeStep == LoginTypeOK /\ [LoginNext]_loginVars => LoginTypeOK'
<1> SUFFICES ASSUME LoginTypeOK, [LoginNext]_loginVars PROVE LoginTypeOK'
  OBVIOUS
<1> USE LoginAssumption
<1>1. ASSUME NEW r \in Logins, NEW ip \in Addresses, Arrive(r, ip) PROVE LoginTypeOK'
  BY <1>1 DEF LoginTypeOK, Arrive, Stamp
<1>2. ASSUME NEW r \in Logins, LetThrough(r) PROVE LoginTypeOK'
  <2> DEFINE ip == stamps[r].ip
  <2>1. stamps[r] \in Stamp /\ ip \in Addresses /\ stamps[r].at \in Nat /\ clock \in Nat
    BY <1>2 DEF LoginTypeOK, LetThrough, Stamp
  <2>2. passes' \in [Logins -> Pass \cup {NULL}]
    BY <1>2, <2>1 DEF LoginTypeOK, LetThrough, Pass
  <2>3. loginBuckets' \in [Addresses -> Bucket \cup {NULL}]
    <3>1. CASE Lapsed(loginBuckets[ip], stamps[r].at)
      <4>1. [count |-> 1, resetAt |-> stamps[r].at + loginWindow] \in Bucket
        BY <2>1 DEF Bucket
      <4> QED  BY <1>2, <2>1, <3>1, <4>1 DEF LoginTypeOK, LetThrough
    <3>2. CASE ~Lapsed(loginBuckets[ip], stamps[r].at)
      <4>1. loginBuckets[ip] \in Bucket  BY <2>1, <3>2 DEF Lapsed, LoginTypeOK
      <4>2. loginBuckets' = [loginBuckets EXCEPT ![ip] =
                               [loginBuckets[ip] EXCEPT !.count = @ + 1]]
        BY <1>2, <3>2 DEF LetThrough
      <4>3. [loginBuckets[ip] EXCEPT !.count = @ + 1] \in Bucket  BY <4>1 DEF Bucket
      <4> QED  BY <2>1, <4>2, <4>3 DEF LoginTypeOK
    <3> QED  BY <3>1, <3>2
  <2> QED  BY <1>2, <2>2, <2>3 DEF LoginTypeOK, LetThrough
<1>3. ASSUME NEW r \in Logins, TurnAway(r) PROVE LoginTypeOK'
  BY <1>3 DEF LoginTypeOK, TurnAway
<1>4. ASSUME SweepStarts \/ SweepEnds \/ LoginTick \/ LoginRestart PROVE LoginTypeOK'
  BY <1>4 DEF LoginTypeOK, SweepStarts, SweepEnds, LoginTick, LoginRestart
<1>5. CASE UNCHANGED loginVars
  BY <1>5 DEF LoginTypeOK, loginVars
<1> QED  BY <1>1, <1>2, <1>3, <1>4, <1>5 DEF LoginNext

LEMMA StampsPastStep == LoginTypeOK /\ StampsPast /\ [LoginNext]_loginVars => StampsPast'
<1> SUFFICES ASSUME LoginTypeOK, StampsPast, [LoginNext]_loginVars PROVE StampsPast'
  OBVIOUS
<1> USE LoginAssumption DEF LoginTypeOK, StampsPast
<1>1. ASSUME NEW r \in Logins, NEW ip \in Addresses, Arrive(r, ip) PROVE StampsPast'
  BY <1>1 DEF Arrive
<1>2. ASSUME NEW r \in Logins, LetThrough(r) PROVE StampsPast'
  BY <1>2 DEF LetThrough
<1>3. ASSUME NEW r \in Logins, TurnAway(r) PROVE StampsPast'
  BY <1>3 DEF TurnAway
<1>4. ASSUME SweepStarts \/ SweepEnds PROVE StampsPast'
  BY <1>4 DEF SweepStarts, SweepEnds
<1>5. ASSUME LoginTick PROVE StampsPast'
  BY <1>5 DEF LoginTick, Stamp
<1>6. ASSUME LoginRestart PROVE StampsPast'
  BY <1>6 DEF LoginRestart
<1>7. CASE UNCHANGED loginVars
  BY <1>7 DEF loginVars
<1> QED  BY <1>1, <1>2, <1>3, <1>4, <1>5, <1>6, <1>7 DEF LoginNext

LEMMA CountsBackedStep == LoginInv /\ [LoginNext]_loginVars => CountsBacked'
<1> SUFFICES ASSUME LoginInv, [LoginNext]_loginVars PROVE CountsBacked'
  OBVIOUS
<1>0. LoginTypeOK' BY LoginTypeStep DEF LoginInv
<1>t. /\ clock \in Nat /\ loginWindow \in Nat
      /\ \A ip \in Addresses : loginBuckets[ip] # NULL =>
            loginBuckets[ip].count \in Nat /\ loginBuckets[ip].resetAt \in Nat
  BY LoginAssumption DEF LoginInv, LoginTypeOK, Bucket
<1>1. ASSUME NEW r \in Logins, LetThrough(r) PROVE CountsBacked'
  <2> DEFINE at == stamps[r].at
  <2>1. stamps[r].ip \in Addresses /\ at \in Nat /\ at <= clock
    BY <1>1 DEF LoginInv, LoginTypeOK, StampsPast, LetThrough, Stamp
  <2>2. clock' = clock  BY <1>1 DEF LetThrough
  <2> SUFFICES ASSUME NEW ip \in Addresses, loginBuckets'[ip] # NULL
               PROVE  /\ loginBuckets'[ip].resetAt <= clock + loginWindow
                      /\ loginBuckets'[ip].count <=
                           Cardinality(PassedSince(ip, loginBuckets[ip].resetAt - loginWindow)')
    BY <2>2 DEF CountsBacked
  <2>3. CASE ip # stamps[r].ip
    <3>1. loginBuckets'[ip] = loginBuckets[ip]
      BY <1>1, <2>3 DEF LetThrough, LoginInv, LoginTypeOK
    <3>2. PICK since \in Int : since = loginBuckets[ip].resetAt - loginWindow
      BY <1>t, <3>1
    <3>3. PassedSince(ip, since)' = PassedSince(ip, since)
      BY <1>1, <2>3, LetThroughKeepsOthers
    <3>4. PassedSince(ip, loginBuckets[ip].resetAt - loginWindow)' = PassedSince(ip, since)'
      BY <3>1, <3>2 DEF PassedSince
    <3> QED  BY <3>1, <3>2, <3>3, <3>4 DEF CountsBacked, LoginInv
  <2>4. CASE ip = stamps[r].ip
    <3>1. CASE Lapsed(loginBuckets[ip], at)
      <4>1. loginBuckets'[ip] = [count |-> 1, resetAt |-> stamps[r].at + loginWindow]
        BY <1>1, <2>4, <3>1 DEF LetThrough, LoginInv, LoginTypeOK
      <4>2. PICK since \in Int : since = stamps[r].at
        BY <2>1
      <4>3. loginBuckets'[ip].resetAt - loginWindow = since  BY <1>t, <2>1, <4>1, <4>2
      <4>4. /\ Cardinality(PassedSince(ip, since)) \in Nat
            /\ Cardinality(PassedSince(ip, since)') = Cardinality(PassedSince(ip, since)) + 1
        BY <1>1, <2>1, <2>4, <4>2, LetThroughCounted
      <4>5. PassedSince(ip, loginBuckets[ip].resetAt - loginWindow)' = PassedSince(ip, since)'
        BY <4>3 DEF PassedSince
      <4> QED  BY <1>t, <2>1, <4>1, <4>4, <4>5
    <3>2. CASE ~Lapsed(loginBuckets[ip], at)
      <4>1. loginBuckets[ip] # NULL  BY <3>2 DEF Lapsed
      <4>2. loginBuckets'[ip] = [loginBuckets[ip] EXCEPT !.count = @ + 1]
        BY <1>1, <2>4, <3>2 DEF LetThrough, LoginInv, LoginTypeOK
      <4>3. /\ loginBuckets'[ip].resetAt = loginBuckets[ip].resetAt
            /\ loginBuckets'[ip].count = loginBuckets[ip].count + 1
        BY <4>1, <4>2 DEF LoginInv, LoginTypeOK, Bucket
      <4>4. /\ loginBuckets[ip].resetAt <= clock + loginWindow
            /\ loginBuckets[ip].count <=
                 Cardinality(PassedSince(ip, loginBuckets[ip].resetAt - loginWindow))
        BY <4>1 DEF LoginInv, CountsBacked
      <4>5. PICK since \in Int : since = loginBuckets[ip].resetAt - loginWindow
        BY <1>t, <4>1
      <4>6. since <= clock  BY <1>t, <4>1, <4>4, <4>5
      <4>7. /\ Cardinality(PassedSince(ip, since)) \in Nat
            /\ Cardinality(PassedSince(ip, since)') = Cardinality(PassedSince(ip, since)) + 1
        BY <1>1, <2>4, <4>6, LetThroughCounted
      <4>8. PassedSince(ip, loginBuckets[ip].resetAt - loginWindow)' = PassedSince(ip, since)'
        BY <4>3, <4>5 DEF PassedSince
      <4> QED  BY <1>t, <4>1, <4>3, <4>4, <4>5, <4>7, <4>8
    <3> QED  BY <3>1, <3>2
  <2> QED  BY <2>3, <2>4
<1>2. ASSUME UNCHANGED <<loginBuckets, passes>>, clock' >= clock, clock' \in Nat
      PROVE  CountsBacked'
  <2> SUFFICES ASSUME NEW ip \in Addresses, loginBuckets[ip] # NULL
               PROVE  /\ loginBuckets[ip].resetAt <= clock' + loginWindow
                      /\ loginBuckets[ip].count <=
                           Cardinality(PassedSince(ip, loginBuckets[ip].resetAt - loginWindow))
    BY <1>2 DEF CountsBacked, PassedSince
  <2> QED  BY <1>2, <1>t DEF CountsBacked, LoginInv
<1>3. ASSUME SweepEnds PROVE CountsBacked'
  <2>1. \A ip \in Addresses : loginBuckets'[ip] # NULL => loginBuckets'[ip] = loginBuckets[ip]
    BY <1>3 DEF SweepEnds
  <2> QED  BY <1>3, <2>1 DEF SweepEnds, CountsBacked, LoginInv, PassedSince
<1>4. ASSUME LoginRestart PROVE CountsBacked'
  BY <1>4 DEF LoginRestart, CountsBacked
<1>5. ASSUME NEW r \in Logins, NEW ip \in Addresses, Arrive(r, ip) PROVE CountsBacked'
  BY <1>5, <1>2, <1>t DEF Arrive
<1>6. ASSUME NEW r \in Logins, TurnAway(r) PROVE CountsBacked'
  BY <1>6, <1>2, <1>t DEF TurnAway
<1>7. ASSUME SweepStarts \/ LoginTick \/ UNCHANGED loginVars PROVE CountsBacked'
  BY <1>7, <1>2, <1>t DEF SweepStarts, LoginTick, loginVars
<1> QED  BY <1>1, <1>3, <1>4, <1>5, <1>6, <1>7 DEF LoginNext

(* LoginInv holds in every state the limiter reaches. *)
THEOREM LoginInvariant == LoginSpec => []LoginInv
<1>1. LoginInit => LoginInv
  BY LoginAssumption DEF LoginInit, LoginInv, LoginTypeOK, StampsPast, CountsBacked
<1>2. LoginInv /\ [LoginNext]_loginVars => LoginInv'
  BY LoginTypeStep, StampsPastStep, CountsBackedStep DEF LoginInv
<1> QED  BY <1>1, <1>2, PTL DEF LoginSpec

(* LoginTypeOK: counts and reset times stay numbers, and a bucket is kept  *)
(* only for an address (loginBucket, router.go:213).                       *)
THEOREM LoginTypeCorrect == LoginSpec => []LoginTypeOK
<1>1. LoginInv => LoginTypeOK
  BY DEF LoginInv
<1> QED  BY <1>1, LoginInvariant, PTL

(* TurnedAwayOnlyWhenSpent (router.go:246), for any number of requests,    *)
(* addresses and attempts and any window: a request is turned away only    *)
(* when loginMaxAttempts of its address did get through within the window. *)
THEOREM NeverTurnedAwayEarly == LoginSpec => TurnedAwayOnlyWhenSpent
<1> DEFINE EnoughPassed ==
      \A r \in Logins : TurnAway(r) =>
        Cardinality(PassedSince(stamps[r].ip, stamps[r].at - loginWindow)) >= loginMaxAttempts
<1>1. LoginInv => EnoughPassed
  <2> SUFFICES ASSUME LoginInv, NEW r \in Logins, TurnAway(r)
               PROVE  Cardinality(PassedSince(stamps[r].ip, stamps[r].at - loginWindow))
                        >= loginMaxAttempts
    OBVIOUS
  <2> DEFINE ip == stamps[r].ip
             at == stamps[r].at
             b == loginBuckets[ip]
  <2>1. ip \in Addresses /\ at \in Nat
    BY DEF LoginInv, LoginTypeOK, TurnAway, Stamp
  <2>2. /\ b # NULL /\ b \in Bucket
        /\ at <= b.resetAt
        /\ b.count >= loginMaxAttempts
    BY <2>1 DEF TurnAway, Spent, Lapsed, LoginInv, LoginTypeOK, Bucket
  <2>3. b.count <= Cardinality(PassedSince(ip, b.resetAt - loginWindow))
    BY <2>1, <2>2 DEF LoginInv, CountsBacked
  <2>4. /\ b.resetAt \in Nat /\ b.count \in Nat
        /\ loginWindow \in Nat /\ loginMaxAttempts \in Nat
    BY <2>2, LoginAssumption DEF Bucket
  <2> HIDE DEF ip, at, b
  <2>5. /\ Cardinality(PassedSince(ip, at - loginWindow)) \in Nat
        /\ Cardinality(PassedSince(ip, b.resetAt - loginWindow)) \in Nat
        /\ Cardinality(PassedSince(ip, b.resetAt - loginWindow))
             <= Cardinality(PassedSince(ip, at - loginWindow))
    <3>1. at - loginWindow <= b.resetAt - loginWindow  BY <2>1, <2>2, <2>4
    <3> QED  BY <2>1, <2>4, <3>1, PassedSinceGrows DEF LoginInv
  <2>6. Cardinality(PassedSince(ip, at - loginWindow)) >= loginMaxAttempts
    BY <2>2, <2>3, <2>4, <2>5
  <2> QED  BY <2>6 DEF ip, at
<1>2. EnoughPassed => [EnoughPassed]_loginVars
  OBVIOUS
<1> QED  BY <1>1, LoginInvariant, PTL DEF TurnedAwayOnlyWhenSpent

-----------------------------------------------------------------------------
(* What is left to a stretch of the clock that ends at end: the room in    *)
(* the bucket, and, when the bucket lapses before that end, one window     *)
(* that a request may open which read the clock within the stretch.        *)
Room(bucket) == IF bucket = NULL THEN 0 ELSE loginMaxAttempts - bucket.count

Outlasts(bucket, end) == IF bucket = NULL THEN FALSE ELSE bucket.resetAt >= end

Left(bucket, end) ==
  Room(bucket) + (IF Outlasts(bucket, end) THEN 0 ELSE loginMaxAttempts)

Stalled(ip, start) == {r \in PassedSince(ip, start) : passes[r].at < start}

ClocksPast ==
  /\ sweep # NULL => sweep <= clock
  /\ \A r \in Logins : passes[r] # NULL => passes[r].taken <= clock

CountsWithin ==
  \A ip \in Addresses : loginBuckets[ip] # NULL =>
     loginBuckets[ip].count \in 1 .. loginMaxAttempts

(* LoginWindowBounded speaks of stretches that are over, and this of those *)
(* that are not: what went through and what is left fit the bound.         *)
Fits(ip, end) ==
  Cardinality(PassedSince(ip, end - loginWindow)) + Left(loginBuckets[ip], end)
    <= (2 + Cardinality(Stalled(ip, end - loginWindow))) * loginMaxAttempts - 1

StretchBounded ==
  \A ip \in Addresses : \A end \in clock .. clock + loginWindow : Fits(ip, end)

WindowInv ==
  LoginInv /\ ClocksPast /\ CountsWithin /\ StretchBounded /\ LoginWindowBounded

(* What is left is counted in whole requests, the room of a bucket too.    *)
LEMMA LeftType ==
  ASSUME NEW bucket \in Bucket \cup {NULL}, NEW end \in Nat,
         bucket # NULL => bucket.count \in 1 .. loginMaxAttempts
  PROVE  /\ Room(bucket) \in Nat
         /\ Left(bucket, end) \in Nat
         /\ Left(bucket, end) <= 2 * loginMaxAttempts - 1
<1>1. loginMaxAttempts \in Nat \ {0} /\ NULL \notin Bucket  BY LoginAssumption
<1>2. CASE bucket = NULL
  BY <1>1, <1>2 DEF Room, Left, Outlasts
<1>3. CASE bucket # NULL
  <2>1. Room(bucket) \in 0 .. loginMaxAttempts - 1  BY <1>1, <1>3 DEF Room
  <2> QED  BY <1>1, <2>1 DEF Left
<1> QED  BY <1>2, <1>3

(* A request that lets one more into an open bucket takes its room.        *)
LEMMA LeftTaken ==
  ASSUME NEW bucket \in Bucket, NEW end \in Nat,
         bucket.count \in 1 .. loginMaxAttempts, bucket.count < loginMaxAttempts
  PROVE  Left([bucket EXCEPT !.count = @ + 1], end) = Left(bucket, end) - 1
<1> DEFINE next == [bucket EXCEPT !.count = @ + 1]
<1>1. loginMaxAttempts \in Nat /\ NULL \notin Bucket  BY LoginAssumption
<1>2. next \in Bucket /\ next.count = bucket.count + 1 /\ next.resetAt = bucket.resetAt
  BY DEF Bucket
<1>3. Room(next) = Room(bucket) - 1 /\ Room(bucket) \in Nat
  BY <1>1, <1>2 DEF Room, Bucket
<1>4. Outlasts(next, end) <=> Outlasts(bucket, end)
  BY <1>1, <1>2 DEF Outlasts
<1> HIDE DEF next
<1>5. Left(next, end) = Left(bucket, end) - 1
  BY <1>1, <1>3, <1>4 DEF Left
<1> QED  BY <1>5 DEF next

(* A request that opens a window uses the one the stretch had left, unless *)
(* it read the clock before the stretch.                                   *)
LEMMA LeftOpened ==
  ASSUME NEW bucket \in Bucket \cup {NULL}, NEW end \in Nat, NEW at \in Nat,
         bucket # NULL => bucket.count \in 1 .. loginMaxAttempts,
         Lapsed(bucket, at), at <= end
  PROVE  1 + Left([count |-> 1, resetAt |-> at + loginWindow], end)
           <= Left(bucket, end) + (IF at < end - loginWindow THEN loginMaxAttempts ELSE 0)
<1> DEFINE next == [count |-> 1, resetAt |-> at + loginWindow]
<1>1. loginMaxAttempts \in Nat \ {0} /\ loginWindow \in Nat /\ NULL \notin Bucket
  BY LoginAssumption
<1>2. next \in Bucket /\ next.count = 1 /\ next.resetAt = at + loginWindow
  BY <1>1 DEF Bucket
<1>3. next # NULL  BY <1>1, <1>2
<1>4. Room(next) = loginMaxAttempts - 1
  BY <1>2, <1>3 DEF Room
<1>5. Outlasts(next, end) <=> ~(at < end - loginWindow)
  BY <1>1, <1>2, <1>3 DEF Outlasts
<1>6. ~Outlasts(bucket, end)
  BY DEF Outlasts, Lapsed, Bucket
<1>7. Room(bucket) \in Nat  BY LeftType
<1>8. Left(bucket, end) = Room(bucket) + loginMaxAttempts  BY <1>6 DEF Left
<1> HIDE DEF next
<1>9. Left(next, end) =
        (loginMaxAttempts - 1) + (IF at < end - loginWindow THEN loginMaxAttempts ELSE 0)
  BY <1>1, <1>4, <1>5 DEF Left
<1>10. 1 + Left(next, end)
         <= Left(bucket, end) + (IF at < end - loginWindow THEN loginMaxAttempts ELSE 0)
  BY <1>1, <1>7, <1>8, <1>9
<1> QED  BY <1>10 DEF next

(* A bucket that lapsed by the clock leaves no more behind it than it had. *)
LEMMA LeftSwept ==
  ASSUME NEW bucket \in Bucket \cup {NULL}, NEW end \in Nat, NEW time \in Nat,
         bucket # NULL => bucket.count \in 1 .. loginMaxAttempts,
         Lapsed(bucket, time), time <= end
  PROVE  Left(NULL, end) <= Left(bucket, end)
<1>1. loginMaxAttempts \in Nat  BY LoginAssumption
<1>2. ~Outlasts(bucket, end)  BY DEF Outlasts, Lapsed, Bucket
<1>3. Room(bucket) \in Nat  BY LeftType
<1>4. Left(NULL, end) = loginMaxAttempts  BY <1>1 DEF Left, Room, Outlasts
<1>5. Left(bucket, end) = Room(bucket) + loginMaxAttempts  BY <1>2 DEF Left
<1> QED  BY <1>1, <1>3, <1>4, <1>5

LEMMA ClocksPastStep == LoginTypeOK /\ ClocksPast /\ [LoginNext]_loginVars => ClocksPast'
<1> SUFFICES ASSUME LoginTypeOK, ClocksPast, [LoginNext]_loginVars PROVE ClocksPast'
  OBVIOUS
<1>0. clock \in Nat /\ NULL \notin Pass \cup Nat
      /\ sweep \in Nat \cup {NULL} /\ passes \in [Logins -> Pass \cup {NULL}]
  BY LoginAssumption DEF LoginTypeOK
<1>1. ASSUME NEW r \in Logins, NEW ip \in Addresses, Arrive(r, ip) PROVE ClocksPast'
  BY <1>1 DEF ClocksPast, Arrive
<1>2. ASSUME NEW r \in Logins, LetThrough(r) PROVE ClocksPast'
  BY <1>0, <1>2 DEF ClocksPast, LetThrough
<1>3. ASSUME NEW r \in Logins, TurnAway(r) PROVE ClocksPast'
  BY <1>3 DEF ClocksPast, TurnAway
<1>4. ASSUME SweepStarts \/ SweepEnds PROVE ClocksPast'
  BY <1>0, <1>4 DEF ClocksPast, SweepStarts, SweepEnds
<1>5. ASSUME LoginTick PROVE ClocksPast'
  BY <1>0, <1>5 DEF ClocksPast, LoginTick, Pass
<1>6. ASSUME LoginRestart PROVE ClocksPast'
  BY <1>6 DEF ClocksPast, LoginRestart
<1>7. CASE UNCHANGED loginVars
  BY <1>7 DEF ClocksPast, loginVars
<1> QED  BY <1>1, <1>2, <1>3, <1>4, <1>5, <1>6, <1>7 DEF LoginNext

(* LetThrough leaves the bucket of its address, and no other, one request  *)
(* fuller, or opens it anew.                                               *)
LEMMA LetThroughBucket ==
  ASSUME LoginInv, NEW r \in Logins, LetThrough(r), NEW ip \in Addresses
  PROVE  /\ stamps[r] \in Stamp /\ stamps[r].ip \in Addresses
         /\ stamps[r].at \in Nat /\ stamps[r].at <= clock /\ passes[r] = NULL
         /\ loginBuckets[ip] \in Bucket \cup {NULL}
         /\ ip # stamps[r].ip => loginBuckets'[ip] = loginBuckets[ip]
         /\ ip = stamps[r].ip =>
              IF Lapsed(loginBuckets[ip], stamps[r].at)
              THEN loginBuckets'[ip] = [count |-> 1, resetAt |-> stamps[r].at + loginWindow]
              ELSE /\ loginBuckets[ip] \in Bucket /\ loginBuckets[ip] # NULL
                   /\ loginBuckets[ip].count < loginMaxAttempts
                   /\ loginBuckets'[ip] = [loginBuckets[ip] EXCEPT !.count = @ + 1]
<1>1. /\ stamps[r] \in Stamp /\ stamps[r].ip \in Addresses
      /\ stamps[r].at \in Nat /\ stamps[r].at <= clock /\ passes[r] = NULL
  BY DEF LoginInv, LoginTypeOK, StampsPast, LetThrough, Stamp
<1>2. loginBuckets \in [Addresses -> Bucket \cup {NULL}]  BY DEF LoginInv, LoginTypeOK
<1>3. ip # stamps[r].ip => loginBuckets'[ip] = loginBuckets[ip]
  BY <1>1, <1>2 DEF LetThrough
<1>4. CASE Lapsed(loginBuckets[stamps[r].ip], stamps[r].at)
  BY <1>1, <1>2, <1>3, <1>4 DEF LetThrough
<1>5. CASE ~Lapsed(loginBuckets[stamps[r].ip], stamps[r].at)
  <2>1. loginBuckets[stamps[r].ip] \in Bucket /\ loginBuckets[stamps[r].ip] # NULL
    BY <1>1, <1>2, <1>5, LoginAssumption DEF Lapsed
  <2> QED  BY <1>1, <1>2, <1>3, <1>5, <2>1 DEF LetThrough
<1> QED  BY <1>4, <1>5

LEMMA CountsWithinStep ==
  LoginInv /\ CountsWithin /\ [LoginNext]_loginVars => CountsWithin'
<1> SUFFICES ASSUME LoginInv, CountsWithin, [LoginNext]_loginVars,
                    NEW ip \in Addresses, loginBuckets'[ip] # NULL
             PROVE  loginBuckets'[ip].count \in 1 .. loginMaxAttempts
  BY DEF CountsWithin
<1>0. loginMaxAttempts \in Nat \ {0}  BY LoginAssumption
<1>1. ASSUME loginBuckets'[ip] = loginBuckets[ip]
      PROVE  loginBuckets'[ip].count \in 1 .. loginMaxAttempts
  BY <1>1 DEF CountsWithin
<1>2. ASSUME NEW r \in Logins, LetThrough(r)
      PROVE  loginBuckets'[ip].count \in 1 .. loginMaxAttempts
  <2>1. CASE ip # stamps[r].ip
    BY <1>1, <1>2, <2>1, LetThroughBucket
  <2>2. CASE ip = stamps[r].ip
    <3>1. CASE Lapsed(loginBuckets[ip], stamps[r].at)
      <4>1. loginBuckets'[ip] = [count |-> 1, resetAt |-> stamps[r].at + loginWindow]
        BY <1>2, <2>2, <3>1, LetThroughBucket
      <4>2. loginBuckets'[ip].count = 1  BY <4>1
      <4> QED  BY <1>0, <4>2
    <3>2. CASE ~Lapsed(loginBuckets[ip], stamps[r].at)
      <4>1. /\ loginBuckets[ip] \in Bucket /\ loginBuckets[ip] # NULL
            /\ loginBuckets[ip].count < loginMaxAttempts
            /\ loginBuckets'[ip] = [loginBuckets[ip] EXCEPT !.count = @ + 1]
        BY <1>2, <2>2, <3>2, LetThroughBucket
      <4>2. loginBuckets'[ip].count = loginBuckets[ip].count + 1  BY <4>1 DEF Bucket
      <4> QED  BY <1>0, <4>1, <4>2 DEF CountsWithin, Bucket
    <3> QED  BY <3>1, <3>2
  <2> QED  BY <2>1, <2>2
<1>3. ASSUME SweepEnds PROVE loginBuckets'[ip].count \in 1 .. loginMaxAttempts
  BY <1>1, <1>3 DEF SweepEnds
<1>4. ASSUME LoginRestart PROVE FALSE
  BY <1>4 DEF LoginRestart
<1>5. ASSUME UNCHANGED loginBuckets PROVE loginBuckets'[ip].count \in 1 .. loginMaxAttempts
  BY <1>1, <1>5
<1> QED  BY <1>2, <1>3, <1>4, <1>5
      DEF LoginNext, Arrive, TurnAway, SweepStarts, LoginTick, loginVars

(* Letting r through adds it to the stalled requests of a stretch that has *)
(* begun when it read the clock before, and leaves them alone otherwise.   *)
LEMMA LetThroughStalled ==
  ASSUME LoginInv, NEW r \in Logins, LetThrough(r),
         NEW ip \in Addresses, ip = stamps[r].ip, NEW start \in Int, start <= clock
  PROVE  /\ Cardinality(Stalled(ip, start)) \in Nat
         /\ Cardinality(Stalled(ip, start)') =
              Cardinality(Stalled(ip, start)) + (IF stamps[r].at < start THEN 1 ELSE 0)
<1>1. stamps[r] \in Stamp /\ stamps[r].at \in Nat /\ passes[r] = NULL
  BY LetThroughBucket
<1>2. IsFiniteSet(Stalled(ip, start)) /\ Cardinality(Stalled(ip, start)) \in Nat
  <2>1. Stalled(ip, start) \subseteq Logins  BY DEF Stalled, PassedSince
  <2> QED  BY <2>1, LoginAssumption, FS_Subset, FS_CardinalityType
<1>3. passes \in [Logins -> Pass \cup {NULL}] /\ clock \in Nat  BY DEF LoginInv, LoginTypeOK
<1>4. passes' = [passes EXCEPT ![r] = [ip |-> ip, at |-> stamps[r].at, taken |-> clock]]
  BY DEF LetThrough
<1>5. passes'[r] = [ip |-> ip, at |-> stamps[r].at, taken |-> clock]  BY <1>3, <1>4
<1>6. passes'[r] \in Pass  BY <1>1, <1>3, <1>5 DEF Pass
<1>7. passes'[r] # NULL  BY <1>6, LoginAssumption
<1>8. \A q \in Logins \ {r} : passes'[q] = passes[q]  BY <1>3, <1>4
<1>9. r \notin Stalled(ip, start)  BY <1>1 DEF Stalled, PassedSince
<1>10. CASE stamps[r].at < start
  <2>1. Stalled(ip, start)' = Stalled(ip, start) \cup {r}
    BY <1>5, <1>7, <1>8, <1>10 DEF Stalled, PassedSince
  <2> QED  BY <1>2, <1>9, <1>10, <2>1, FS_AddElement
<1>11. CASE ~(stamps[r].at < start)
  <2>1. Stalled(ip, start)' = Stalled(ip, start)
    BY <1>5, <1>7, <1>8, <1>9, <1>11 DEF Stalled, PassedSince
  <2> QED  BY <1>2, <1>11, <2>1
<1> QED  BY <1>10, <1>11

(* One stalled request more allows one window more.                        *)
LEMMA OneWindowMore ==
  ASSUME NEW n \in Nat, NEW k \in Nat
  PROVE  /\ (2 + (n + 1)) * k = (2 + n) * k + k
         /\ (2 + n) * k \in Nat
OBVIOUS

(* Nobody went through in the stretch: a bucket and a window fit.          *)
LEMMA EmptyFits ==
  ASSUME NEW left \in Nat, left <= 2 * loginMaxAttempts - 1
  PROVE  Cardinality({}) + left <= (2 + Cardinality({})) * loginMaxAttempts - 1
<1>1. Cardinality({}) = 0 /\ loginMaxAttempts \in Nat  BY FS_EmptySet, LoginAssumption
<1> QED  BY <1>1

LEMMA LetThroughFits ==
  ASSUME LoginInv, CountsWithin, NEW r \in Logins, LetThrough(r), NEW ip \in Addresses,
         NEW end \in clock .. clock + loginWindow, Fits(ip, end)
  PROVE  Fits(ip, end)'
<1> DEFINE start == end - loginWindow
           at == stamps[r].at
<1>1. /\ clock \in Nat /\ loginWindow \in Nat /\ loginMaxAttempts \in Nat
      /\ end \in Nat /\ start \in Int /\ start <= clock /\ clock <= end
  BY LoginAssumption DEF LoginInv, LoginTypeOK
<1>2. /\ loginBuckets[ip] \in Bucket \cup {NULL} /\ at \in Nat /\ at <= end
      /\ loginBuckets[ip] # NULL => loginBuckets[ip].count \in 1 .. loginMaxAttempts
  <2>1. at \in Nat /\ at <= clock /\ loginBuckets[ip] \in Bucket \cup {NULL}
    BY LetThroughBucket
  <2> QED  BY <1>1, <2>1 DEF CountsWithin
<1>3. Left(loginBuckets[ip], end) \in Nat  BY <1>1, <1>2, LeftType
<1>4. CASE ip # stamps[r].ip
  <2>1. PassedSince(ip, start)' = PassedSince(ip, start)
    BY <1>1, <1>4, LetThroughKeepsOthers
  <2>2. Stalled(ip, start)' = Stalled(ip, start)
    <3>1. \A q \in PassedSince(ip, start) : passes'[q] = passes[q]
      BY LetThroughBucket DEF LetThrough, PassedSince, LoginInv, LoginTypeOK
    <3> QED  BY <2>1, <3>1 DEF Stalled
  <2>3. loginBuckets'[ip] = loginBuckets[ip]  BY <1>4, LetThroughBucket
  <2> QED  BY <2>1, <2>2, <2>3 DEF Fits
<1>5. CASE ip = stamps[r].ip
  <2> DEFINE passed == Cardinality(PassedSince(ip, start))
             stalled == Cardinality(Stalled(ip, start))
             left == Left(loginBuckets[ip], end)
             leftNext == Left(loginBuckets'[ip], end)
  <2>1. passed \in Nat /\ Cardinality(PassedSince(ip, start)') = passed + 1
    BY <1>1, <1>5, LetThroughCounted
  <2>2. stalled \in Nat /\ Cardinality(Stalled(ip, start)') =
                             stalled + (IF at < start THEN 1 ELSE 0)
    BY <1>1, <1>5, LetThroughStalled
  <2>3. leftNext \in Int
        /\ 1 + leftNext <= left + (IF at < start THEN loginMaxAttempts ELSE 0)
    <3>1. CASE Lapsed(loginBuckets[ip], at)
      <4>1. loginBuckets'[ip] = [count |-> 1, resetAt |-> at + loginWindow]
        BY <1>5, <3>1, LetThroughBucket
      <4>2. /\ [count |-> 1, resetAt |-> at + loginWindow] \in Bucket
            /\ 1 \in 1 .. loginMaxAttempts
        BY <1>1, <1>2, LoginAssumption DEF Bucket
      <4>3. leftNext \in Nat  BY <1>1, <4>1, <4>2, LeftType
      <4> QED  BY <1>1, <1>2, <3>1, <4>1, <4>3, LeftOpened
    <3>2. CASE ~Lapsed(loginBuckets[ip], at)
      <4>1. /\ loginBuckets[ip] \in Bucket /\ loginBuckets[ip] # NULL
            /\ loginBuckets[ip].count < loginMaxAttempts
            /\ loginBuckets'[ip] = [loginBuckets[ip] EXCEPT !.count = @ + 1]
        BY <1>5, <3>2, LetThroughBucket
      <4>2. leftNext = left - 1  BY <1>1, <1>2, <4>1, LeftTaken
      <4> QED  BY <1>1, <1>3, <4>2
    <3> QED  BY <3>1, <3>2
  <2>4. passed + left <= (2 + stalled) * loginMaxAttempts - 1
    BY DEF Fits
  <2>5. /\ (2 + (stalled + 1)) * loginMaxAttempts
             = (2 + stalled) * loginMaxAttempts + loginMaxAttempts
        /\ (2 + stalled) * loginMaxAttempts \in Nat
    BY <1>1, <2>2, OneWindowMore
  <2>6. Fits(ip, end)' <=>
          Cardinality(PassedSince(ip, start)') + leftNext
            <= (2 + Cardinality(Stalled(ip, start)')) * loginMaxAttempts - 1
    BY DEF Fits
  <2> HIDE DEF passed, stalled, left, leftNext, at, start
  <2>7. CASE at < start
    <3>1. Cardinality(Stalled(ip, start)') = stalled + 1  BY <2>2, <2>7
    <3>2. (passed + 1) + leftNext <= (passed + left) + loginMaxAttempts
      BY <1>1, <1>3, <2>1, <2>3, <2>7 DEF left
    <3>3. (passed + 1) + leftNext
            <= (2 + stalled) * loginMaxAttempts + loginMaxAttempts - 1
      BY <1>1, <1>3, <2>1, <2>3, <2>4, <2>5, <3>2 DEF left
    <3>4. (2 + Cardinality(Stalled(ip, start)')) * loginMaxAttempts
            = (2 + stalled) * loginMaxAttempts + loginMaxAttempts
      BY <2>5, <3>1
    <3>5. Cardinality(PassedSince(ip, start)') + leftNext
            <= (2 + Cardinality(Stalled(ip, start)')) * loginMaxAttempts - 1
      BY <1>1, <2>1, <2>3, <2>5, <3>3, <3>4
    <3> QED  BY <2>6, <3>5
  <2>8. CASE ~(at < start)
    <3>1. Cardinality(Stalled(ip, start)') = stalled  BY <2>2, <2>8
    <3>2. (passed + 1) + leftNext <= (2 + stalled) * loginMaxAttempts - 1
      BY <1>1, <1>3, <2>1, <2>3, <2>4, <2>5, <2>8 DEF left
    <3> QED  BY <2>1, <2>6, <3>1, <3>2
  <2> QED  BY <2>7, <2>8
<1> QED  BY <1>4, <1>5

(* Nothing went through since the start of the stretch: it fits.           *)
LEMMA EmptyStretchFits ==
  ASSUME NEW ip \in Addresses, NEW end \in Nat, LoginTypeOK, CountsWithin,
         PassedSince(ip, end - loginWindow) = {}
  PROVE  Fits(ip, end)
<1>1. loginBuckets[ip] \in Bucket \cup {NULL}  BY DEF LoginTypeOK
<1>2. /\ Left(loginBuckets[ip], end) \in Nat
      /\ Left(loginBuckets[ip], end) <= 2 * loginMaxAttempts - 1
  BY <1>1, LeftType DEF CountsWithin
<1>3. Stalled(ip, end - loginWindow) = {}  BY DEF Stalled
<1> QED  BY <1>2, <1>3, EmptyFits DEF Fits

LEMMA StretchBoundedStep ==
  LoginInv /\ ClocksPast /\ CountsWithin /\ StretchBounded /\ [LoginNext]_loginVars
    => StretchBounded'
<1> SUFFICES ASSUME LoginInv, ClocksPast, CountsWithin, StretchBounded,
                    [LoginNext]_loginVars,
                    NEW ip \in Addresses, NEW end \in clock' .. clock' + loginWindow
             PROVE  Fits(ip, end)'
  BY DEF StretchBounded
<1>1. LoginTypeOK /\ LoginTypeOK' /\ CountsWithin' /\ ClocksPast'
  BY LoginTypeStep, CountsWithinStep, ClocksPastStep DEF LoginInv
<1>2. /\ clock \in Nat /\ clock' \in Nat /\ loginWindow \in Nat /\ end \in Nat
      /\ loginBuckets \in [Addresses -> Bucket \cup {NULL}]
      /\ sweep \in Nat \cup {NULL}
  BY <1>1, LoginAssumption DEF LoginTypeOK
<1>3. ASSUME UNCHANGED <<clock, loginBuckets, passes>> PROVE Fits(ip, end)'
  <2>1. Fits(ip, end)  BY <1>3 DEF StretchBounded
  <2>2. PassedSince(ip, end - loginWindow)' = PassedSince(ip, end - loginWindow)
    BY <1>3 DEF PassedSince
  <2>3. Stalled(ip, end - loginWindow)' = Stalled(ip, end - loginWindow)
    BY <1>3, <2>2 DEF Stalled
  <2> QED  BY <1>3, <2>1, <2>2, <2>3 DEF Fits
<1>4. ASSUME NEW r \in Logins, LetThrough(r) PROVE Fits(ip, end)'
  <2>1. end \in clock .. clock + loginWindow  BY <1>4 DEF LetThrough
  <2> QED  BY <1>4, <2>1, LetThroughFits DEF StretchBounded
<1>5. ASSUME SweepEnds PROVE Fits(ip, end)'
  <2>1. Fits(ip, end) /\ clock <= end  BY <1>2, <1>5 DEF StretchBounded, SweepEnds
  <2>2. PassedSince(ip, end - loginWindow)' = PassedSince(ip, end - loginWindow)
    BY <1>5 DEF PassedSince, SweepEnds
  <2>3. Stalled(ip, end - loginWindow)' = Stalled(ip, end - loginWindow)
    BY <1>5, <2>2 DEF Stalled, SweepEnds
  <2>4. /\ Left(loginBuckets'[ip], end) \in Nat /\ Left(loginBuckets[ip], end) \in Nat
        /\ Left(loginBuckets'[ip], end) <= Left(loginBuckets[ip], end)
    <3>1. Left(loginBuckets[ip], end) \in Nat  BY <1>2, LeftType DEF CountsWithin
    <3>2. CASE Lapsed(loginBuckets[ip], sweep)
      <4>1. loginBuckets'[ip] = NULL  BY <1>5, <3>2 DEF SweepEnds
      <4>2. Left(NULL, end) \in Nat  BY <1>2, LeftType
      <4>3. sweep \in Nat /\ sweep <= end
        BY <1>2, <1>5, <2>1 DEF SweepEnds, ClocksPast
      <4>4. Left(NULL, end) <= Left(loginBuckets[ip], end)
        BY <1>2, <3>2, <4>3, LeftSwept DEF CountsWithin
      <4> QED  BY <3>1, <4>1, <4>2, <4>4
    <3>3. CASE ~Lapsed(loginBuckets[ip], sweep)
      <4>1. loginBuckets'[ip] = loginBuckets[ip]  BY <1>5, <3>3 DEF SweepEnds
      <4> QED  BY <3>1, <4>1
    <3> QED  BY <3>2, <3>3
  <2>5. /\ Cardinality(PassedSince(ip, end - loginWindow)) \in Nat
        /\ (2 + Cardinality(Stalled(ip, end - loginWindow))) * loginMaxAttempts \in Nat
    <3>1. IsFiniteSet(Logins) /\ loginMaxAttempts \in Nat  BY LoginAssumption
    <3>2. /\ PassedSince(ip, end - loginWindow) \subseteq Logins
          /\ Stalled(ip, end - loginWindow) \subseteq Logins
      BY DEF Stalled, PassedSince
    <3>3. /\ Cardinality(PassedSince(ip, end - loginWindow)) \in Nat
          /\ Cardinality(Stalled(ip, end - loginWindow)) \in Nat
      BY <3>1, <3>2, FS_Subset, FS_CardinalityType
    <3> QED  BY <3>1, <3>3, OneWindowMore
  <2> QED  BY <2>1, <2>2, <2>3, <2>4, <2>5 DEF Fits
<1>6. ASSUME LoginTick PROVE Fits(ip, end)'
  <2>1. clock' = clock + 1 /\ UNCHANGED <<loginBuckets, passes>>  BY <1>6 DEF LoginTick
  <2>2. PassedSince(ip, end - loginWindow)' = PassedSince(ip, end - loginWindow)
    BY <2>1 DEF PassedSince
  <2>3. Stalled(ip, end - loginWindow)' = Stalled(ip, end - loginWindow)
    BY <2>1, <2>2 DEF Stalled
  <2>4. Fits(ip, end)
    <3>1. CASE end <= clock + loginWindow
      <4>1. end \in clock .. clock + loginWindow  BY <1>2, <2>1, <3>1
      <4> QED  BY <4>1 DEF StretchBounded
    <3>2. CASE end > clock + loginWindow
      <4>1. end - loginWindow > clock  BY <1>2, <3>2
      <4>2. PassedSince(ip, end - loginWindow) = {}
        <5> SUFFICES ASSUME NEW r \in Logins, passes[r] # NULL,
                            passes[r].taken >= end - loginWindow
                     PROVE  FALSE
          BY DEF PassedSince
        <5>1. passes[r].taken \in Nat  BY <1>1 DEF LoginTypeOK, Pass
        <5>2. passes[r].taken <= clock  BY DEF ClocksPast
        <5> QED  BY <1>2, <4>1, <5>1, <5>2
      <4> QED  BY <1>1, <1>2, <4>2, EmptyStretchFits
    <3> QED  BY <1>2, <3>1, <3>2
  <2> QED  BY <2>1, <2>2, <2>3, <2>4 DEF Fits
<1>7. ASSUME LoginRestart PROVE Fits(ip, end)'
  <2>1. loginBuckets'[ip] = NULL  BY <1>7 DEF LoginRestart
  <2>2. /\ PassedSince(ip, end - loginWindow)' = {}
        /\ Stalled(ip, end - loginWindow)' = {}
    BY <1>7 DEF LoginRestart, PassedSince, Stalled
  <2>3. Left(NULL, end) \in Nat /\ Left(NULL, end) <= 2 * loginMaxAttempts - 1
    BY <1>2, LeftType
  <2> QED  BY <2>1, <2>2, <2>3, EmptyFits DEF Fits
<1> QED  BY <1>3, <1>4, <1>5, <1>6, <1>7
      DEF LoginNext, Arrive, TurnAway, SweepStarts, loginVars

(* Of a stretch that is over only the past counts, and one that ends now   *)
(* is a stretch that fits.                                                 *)
LEMMA WindowBoundedStep ==
  ASSUME LoginTypeOK, LoginTypeOK', ClocksPast', CountsWithin', StretchBounded',
         LoginWindowBounded, StampsPast, [LoginNext]_loginVars
  PROVE  LoginWindowBounded'
<1> SUFFICES \A ip \in Addresses : \A end \in 0 .. clock' :
               Cardinality(Within(ip, end)') <=
                 (2 + Cardinality(StalledWithin(ip, end)')) * loginMaxAttempts - 1
  BY DEF LoginWindowBounded
<1> SUFFICES ASSUME NEW ip \in Addresses, NEW end \in 0 .. clock'
             PROVE  Cardinality(Within(ip, end)') <=
                      (2 + Cardinality(StalledWithin(ip, end)')) * loginMaxAttempts - 1
  OBVIOUS
<1>1. /\ clock \in Nat /\ clock' \in Nat /\ loginWindow \in Nat /\ loginMaxAttempts \in Nat
      /\ end \in Nat
  BY LoginAssumption DEF LoginTypeOK
<1>2. ASSUME end <= clock, Within(ip, end)' = Within(ip, end),
             \A r \in Within(ip, end) : passes'[r] = passes[r]
      PROVE  Cardinality(Within(ip, end)') <=
               (2 + Cardinality(StalledWithin(ip, end)')) * loginMaxAttempts - 1
  <2>1. StalledWithin(ip, end)' = StalledWithin(ip, end)  BY <1>2 DEF StalledWithin
  <2>2. end \in 0 .. clock  BY <1>1, <1>2
  <2>3. Cardinality(Within(ip, end)) <=
          (2 + Cardinality(StalledWithin(ip, end))) * loginMaxAttempts - 1
    BY <2>2 DEF LoginWindowBounded
  <2> QED  BY <1>2, <2>1, <2>3
<1>3. CASE end = clock'
  <2>1. Within(ip, end)' = PassedSince(ip, end - loginWindow)'
    BY <1>3 DEF Within, ClocksPast, PassedSince
  <2>2. StalledWithin(ip, end)' = Stalled(ip, end - loginWindow)'
    BY <2>1 DEF StalledWithin, Stalled
  <2>3. end \in clock' .. clock' + loginWindow
    <3>1. end \in end .. end + loginWindow  BY <1>1
    <3> QED  BY <1>3, <3>1
  <2>4. Cardinality(PassedSince(ip, end - loginWindow)') + Left(loginBuckets'[ip], end)
          <= (2 + Cardinality(Stalled(ip, end - loginWindow)')) * loginMaxAttempts - 1
    BY <2>3 DEF StretchBounded, Fits
  <2>5. Left(loginBuckets'[ip], end) \in Nat
    <3>1. loginBuckets'[ip] \in Bucket \cup {NULL}  BY DEF LoginTypeOK
    <3>2. loginBuckets'[ip] # NULL => loginBuckets'[ip].count \in 1 .. loginMaxAttempts
      BY DEF CountsWithin
    <3> QED  BY <1>1, <3>1, <3>2, LeftType
  <2>6. /\ Cardinality(PassedSince(ip, end - loginWindow)') \in Nat
        /\ (2 + Cardinality(Stalled(ip, end - loginWindow)')) * loginMaxAttempts \in Nat
    <3>1. IsFiniteSet(Logins)  BY LoginAssumption
    <3>2. /\ PassedSince(ip, end - loginWindow)' \subseteq Logins
          /\ Stalled(ip, end - loginWindow)' \subseteq Logins
      BY DEF Stalled, PassedSince
    <3>3. /\ Cardinality(PassedSince(ip, end - loginWindow)') \in Nat
          /\ Cardinality(Stalled(ip, end - loginWindow)') \in Nat
      BY <3>1, <3>2, FS_Subset, FS_CardinalityType
    <3> QED  BY <1>1, <3>3, OneWindowMore
  <2>7. Cardinality(PassedSince(ip, end - loginWindow)')
          <= (2 + Cardinality(Stalled(ip, end - loginWindow)')) * loginMaxAttempts - 1
    BY <2>4, <2>5, <2>6
  <2> QED  BY <2>1, <2>2, <2>7
<1>4. CASE end # clock'
  <2>0. end < clock'  BY <1>1, <1>4
  <2>1. ASSUME UNCHANGED passes, clock' = clock \/ clock' = clock + 1
        PROVE  Cardinality(Within(ip, end)') <=
                 (2 + Cardinality(StalledWithin(ip, end)')) * loginMaxAttempts - 1
    <3>1. end <= clock  BY <1>1, <2>0, <2>1
    <3>2. Within(ip, end)' = Within(ip, end)  BY <2>1 DEF Within, PassedSince
    <3> QED  BY <1>2, <2>1, <3>1, <3>2
  <2>2. ASSUME NEW r \in Logins, LetThrough(r)
        PROVE  Cardinality(Within(ip, end)') <=
                 (2 + Cardinality(StalledWithin(ip, end)')) * loginMaxAttempts - 1
    <3>1. stamps[r] \in Stamp /\ passes[r] = NULL /\ clock' = clock
      BY <2>2 DEF LoginTypeOK, StampsPast, LetThrough
    <3>2. /\ passes'[r].taken = clock
          /\ \A q \in Logins \ {r} : passes'[q] = passes[q]
      BY <2>2 DEF LoginTypeOK, LetThrough
    <3>3. r \notin Within(ip, end) /\ r \notin Within(ip, end)'
      BY <1>1, <2>0, <3>1, <3>2 DEF Within, PassedSince
    <3>4. Within(ip, end)' = Within(ip, end)
      BY <3>2, <3>3 DEF Within, PassedSince
    <3>5. \A q \in Within(ip, end) : passes'[q] = passes[q]
      BY <3>2, <3>3 DEF Within, PassedSince
    <3> QED  BY <1>1, <1>2, <2>0, <3>1, <3>4, <3>5
  <2>3. ASSUME LoginRestart
        PROVE  Cardinality(Within(ip, end)') <=
                 (2 + Cardinality(StalledWithin(ip, end)')) * loginMaxAttempts - 1
    <3>1. Within(ip, end)' = {} /\ StalledWithin(ip, end)' = {}
      BY <2>3 DEF LoginRestart, Within, StalledWithin, PassedSince
    <3>2. Cardinality({}) = 0  BY FS_EmptySet
    <3>3. loginMaxAttempts \in Nat \ {0}  BY LoginAssumption
    <3> QED  BY <3>1, <3>2, <3>3
  <2> QED  BY <2>1, <2>2, <2>3
        DEF LoginNext, Arrive, TurnAway, SweepStarts, SweepEnds, LoginTick, loginVars
<1> QED  BY <1>3, <1>4

(* The whole invariant, WindowInv, holds in every state.                   *)
THEOREM WindowInvariant == LoginSpec => []WindowInv
<1>1. LoginInit => WindowInv
  <2> SUFFICES ASSUME LoginInit PROVE WindowInv
    OBVIOUS
  <2> USE LoginAssumption
  <2>1. LoginInv /\ ClocksPast /\ CountsWithin
    BY DEF LoginInit, LoginInv, LoginTypeOK, StampsPast, CountsBacked, ClocksPast, CountsWithin
  <2>2. \A ip \in Addresses, time \in Int : PassedSince(ip, time) = {}
    BY DEF LoginInit, PassedSince
  <2>3. StretchBounded
    <3> SUFFICES ASSUME NEW ip \in Addresses, NEW end \in clock .. clock + loginWindow
                 PROVE  Fits(ip, end)
      BY DEF StretchBounded
    <3>1. end \in Nat /\ end - loginWindow \in Int  BY DEF LoginInit
    <3> QED  BY <2>1, <2>2, <3>1, EmptyStretchFits DEF LoginInv
  <2>4. LoginWindowBounded
    <3> SUFFICES ASSUME NEW ip \in Addresses, NEW end \in 0 .. clock
                 PROVE  Cardinality(Within(ip, end)) <=
                          (2 + Cardinality(StalledWithin(ip, end))) * loginMaxAttempts - 1
      BY DEF LoginWindowBounded
    <3>1. Within(ip, end) = {} /\ StalledWithin(ip, end) = {}
      BY DEF LoginInit, Within, StalledWithin, PassedSince
    <3>2. Cardinality({}) = 0 /\ loginMaxAttempts \in Nat \ {0}  BY FS_EmptySet
    <3> QED  BY <3>1, <3>2
  <2> QED  BY <2>1, <2>3, <2>4 DEF WindowInv
<1>2. WindowInv /\ [LoginNext]_loginVars => WindowInv'
  <2> SUFFICES ASSUME WindowInv, [LoginNext]_loginVars PROVE WindowInv'
    OBVIOUS
  <2>1. LoginTypeOK' /\ StampsPast' /\ CountsBacked' /\ ClocksPast' /\ CountsWithin'
    BY LoginTypeStep, StampsPastStep, CountsBackedStep, ClocksPastStep, CountsWithinStep
       DEF WindowInv, LoginInv
  <2>2. StretchBounded'  BY StretchBoundedStep DEF WindowInv
  <2>3. LoginWindowBounded'
    BY <2>1, <2>2, WindowBoundedStep DEF WindowInv, LoginInv
  <2> QED  BY <2>1, <2>2, <2>3 DEF WindowInv, LoginInv
<1> QED  BY <1>1, <1>2, PTL DEF LoginSpec

(* LoginWindowBounded (router.go:223-257), for any number of requests and  *)
(* addresses and any limit and window: no stretch of loginWindow sees more *)
(* than twice loginMaxAttempts less one, and one window more for each      *)
(* request that read the clock before the stretch.                         *)
THEOREM WindowsBounded == LoginSpec => []LoginWindowBounded
<1>1. WindowInv => LoginWindowBounded
  BY DEF WindowInv
<1> QED  BY <1>1, WindowInvariant, PTL
=============================================================================
