----------------------------- MODULE LoginLimiter -----------------------------
(***************************************************************************)
(* The limiter in front of POST /admin/login, loginRateLimit in            *)
(* internal/httpserver/router.go: one bucket per client address, with a    *)
(* count and the time it lapses.  A request reads the clock before it      *)
(* takes the mutex, and so does the goroutine that sweeps lapsed buckets   *)
(* away: time may pass, and others may go first, in between.  The map of   *)
(* buckets is a variable of the process, so a restart empties it.          *)
(***************************************************************************)
EXTENDS Integers, FiniteSets

CONSTANTS
  Logins,               \* login requests, each made once
  Addresses,            \* client addresses
  loginMaxAttempts,
  loginWindow,          \* in ticks of the clock
  NULL,                 \* no bucket, no request, no sweep
  MaxTime               \* bound of the model: the last tick

Bucket == [count : Nat, resetAt : Nat]
Stamp == [ip : Addresses, at : Nat]
Pass == [ip : Addresses, at : Nat, taken : Nat]

ASSUME LoginAssumption ==
  /\ IsFiniteSet(Logins)
  /\ loginMaxAttempts \in Nat \ {0} /\ loginWindow \in Nat \ {0} /\ MaxTime \in Nat
  /\ NULL \notin Bucket \cup Stamp \cup Pass \cup Nat

VARIABLES
  clock,
  loginBuckets,     \* address -> its bucket
  stamps,           \* request -> its address and the clock it read, on its way to the mutex
  sweep,            \* the clock the sweeper read, on its way to the mutex
  passes            \* history: request -> how it was let through by this process

loginVars == <<clock, loginBuckets, stamps, sweep, passes>>

LoginTypeOK ==
  /\ clock \in Nat
  /\ loginBuckets \in [Addresses -> Bucket \cup {NULL}]
  /\ stamps \in [Logins -> Stamp \cup {NULL}]
  /\ sweep \in Nat \cup {NULL}
  /\ passes \in [Logins -> Pass \cup {NULL}]

LoginInit ==
  /\ clock = 0
  /\ loginBuckets = [ip \in Addresses |-> NULL]
  /\ stamps = [r \in Logins |-> NULL]
  /\ sweep = NULL
  /\ passes = [r \in Logins |-> NULL]

-----------------------------------------------------------------------------
Arrive(r, ip) ==
  /\ stamps[r] = NULL /\ passes[r] = NULL
  /\ stamps' = [stamps EXCEPT ![r] = [ip |-> ip, at |-> clock]]
  /\ UNCHANGED <<clock, loginBuckets, sweep, passes>>

(* Mutant: !now.Before(b.resetAt). *)
LapsedAtReset(bucket, time) == IF bucket = NULL THEN TRUE ELSE time >= bucket.resetAt

(* No bucket, or now.After(b.resetAt). *)
Lapsed(bucket, time) == IF bucket = NULL THEN TRUE ELSE time > bucket.resetAt

(* Mutant: the window lies before the request. *)
LetThroughBackwards(r) ==
  LET ip == stamps[r].ip
      at == stamps[r].at
  IN  /\ stamps[r] # NULL
      /\ IF Lapsed(loginBuckets[ip], at)
         THEN loginBuckets' = [loginBuckets EXCEPT ![ip] =
                                 [count |-> 1, resetAt |-> at - loginWindow]]
         ELSE /\ loginBuckets[ip].count < loginMaxAttempts
              /\ loginBuckets' = [loginBuckets EXCEPT ![ip].count = @ + 1]
      /\ passes' = [passes EXCEPT ![r] = [ip |-> ip, at |-> at, taken |-> clock]]
      /\ stamps' = [stamps EXCEPT ![r] = NULL]
      /\ UNCHANGED <<clock, sweep>>

LetThrough(r) ==
  LET ip == stamps[r].ip
      at == stamps[r].at
  IN  /\ stamps[r] # NULL
      /\ IF Lapsed(loginBuckets[ip], at)
         THEN loginBuckets' = [loginBuckets EXCEPT ![ip] =
                                 [count |-> 1, resetAt |-> at + loginWindow]]
         ELSE /\ loginBuckets[ip].count < loginMaxAttempts
              /\ loginBuckets' = [loginBuckets EXCEPT ![ip].count = @ + 1]
      /\ passes' = [passes EXCEPT ![r] = [ip |-> ip, at |-> at, taken |-> clock]]
      /\ stamps' = [stamps EXCEPT ![r] = NULL]
      /\ UNCHANGED <<clock, sweep>>

Spent(ip, time) ==
  ~Lapsed(loginBuckets[ip], time) /\ loginBuckets[ip].count >= loginMaxAttempts

(* Mutant: a refused request starts the window anew. *)
TurnAwayExtends(r) ==
  LET ip == stamps[r].ip
  IN  /\ stamps[r] # NULL
      /\ Spent(ip, stamps[r].at)
      /\ loginBuckets' = [loginBuckets EXCEPT ![ip].resetAt = stamps[r].at + loginWindow]
      /\ stamps' = [stamps EXCEPT ![r] = NULL]
      /\ UNCHANGED <<clock, sweep, passes>>

(* 429.  The bucket is left as it is. *)
TurnAway(r) ==
  /\ stamps[r] # NULL
  /\ Spent(stamps[r].ip, stamps[r].at)
  /\ stamps' = [stamps EXCEPT ![r] = NULL]
  /\ UNCHANGED <<clock, loginBuckets, sweep, passes>>

(* The cleanup goroutine, every five minutes. *)
SweepStarts ==
  /\ sweep = NULL
  /\ sweep' = clock
  /\ UNCHANGED <<clock, loginBuckets, stamps, passes>>

SweepEnds ==
  /\ sweep # NULL
  /\ loginBuckets' = [ip \in Addresses |->
                        IF Lapsed(loginBuckets[ip], sweep) THEN NULL ELSE loginBuckets[ip]]
  /\ sweep' = NULL
  /\ UNCHANGED <<clock, stamps, passes>>

LoginTick ==
  /\ clock < MaxTime
  /\ clock' = clock + 1
  /\ UNCHANGED <<loginBuckets, stamps, sweep, passes>>

(* A new process: no buckets, no requests, a history of its own. *)
LoginRestart ==
  /\ loginBuckets' = [ip \in Addresses |-> NULL]
  /\ stamps' = [r \in Logins |-> NULL]
  /\ sweep' = NULL
  /\ passes' = [r \in Logins |-> NULL]
  /\ UNCHANGED clock

LoginNext ==
  \/ \E r \in Logins, ip \in Addresses : Arrive(r, ip)
  \/ \E r \in Logins : LetThrough(r) \/ TurnAway(r)
  \/ SweepStarts \/ SweepEnds \/ LoginTick \/ LoginRestart

LoginSpec == LoginInit /\ [][LoginNext]_loginVars

-----------------------------------------------------------------------------
(* The requests of an address the limiter let through from a time on. *)
PassedSince(ip, time) ==
  {r \in Logins : passes[r] # NULL /\ passes[r].ip = ip /\ passes[r].taken >= time}

(* Those of a stretch of loginWindow, and those of them that had read the  *)
(* clock before it began.                                                  *)
Within(ip, end) == {r \in PassedSince(ip, end - loginWindow) : passes[r].taken <= end}

StalledWithin(ip, end) == {r \in Within(ip, end) : passes[r].at < end - loginWindow}

(* "Exceeding loginMaxAttempts within loginWindow returns 429"             *)
(* (router.go:224), one way: nobody is turned away unless loginMaxAttempts *)
(* requests of that address did go through in the window before it read    *)
(* the clock, whatever the sweeper and stale clock readings do.            *)
TurnedAwayOnlyWhenSpent ==
  [][\A r \in Logins : TurnAway(r) =>
        Cardinality(PassedSince(stamps[r].ip, stamps[r].at - loginWindow)) >= loginMaxAttempts]_loginVars

(* The other way, what the limiter is there for.  The windows are fixed    *)
(* and not sliding as router.go:223 has it: one may be all but used up at  *)
(* its end and the next one at its start, so a stretch of loginWindow      *)
(* holds up to twice loginMaxAttempts less one; and each request that read *)
(* the clock before the stretch and reached the mutex in it can open one   *)
(* window more.  Never more than that.                                     *)
LoginWindowBounded ==
  \A ip \in Addresses : \A end \in 0 .. clock :
     Cardinality(Within(ip, end))
       <= (2 + Cardinality(StalledWithin(ip, end))) * loginMaxAttempts - 1
=============================================================================
