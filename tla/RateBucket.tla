------------------------------ MODULE RateBucket ------------------------------
(***************************************************************************)
(* The relay's in-memory request limiter, internal/relay/service.go: one   *)
(* rateBucket per API key, holding the times of the requests it let        *)
(* through in the last minute.  The map of buckets lives in the Service    *)
(* and nowhere else, so a restart of the process empties it.               *)
(*                                                                         *)
(* allow() reads the clock, prunes and appends while it holds the bucket's *)
(* mutex, so each of its outcomes is one step.  The slice of timestamps is *)
(* a set of stamps: allow() uses its length only, and two requests of one  *)
(* instant are told apart by their request number.                         *)
(***************************************************************************)
EXTENDS Integers, FiniteSets

CONSTANTS
  Keys,         \* ids of downstream API keys
  Requests,     \* request numbers, one per call ever made
  RateLimits,   \* values the rate_limit column may hold
  Window,       \* ticks of the clock in a minute
  MaxTime       \* bound of the model: the last tick

ASSUME RateAssumption ==
  /\ RateLimits \subseteq Int
  /\ Window \in Nat \ {0}
  /\ MaxTime \in Nat

VARIABLES
  now,          \* the server's clock
  buckets,      \* key -> the stamps its bucket holds
  admissions    \* history: key -> every stamp recorded since the process started

rateVars == <<now, buckets, admissions>>

(* "under" is the limit the request was admitted under: history, which no *)
(* action reads.                                                          *)
Stamp == [req : Requests, at : Nat, under : RateLimits]

RateTypeOK ==
  /\ now \in Nat
  /\ buckets \in [Keys -> SUBSET Stamp]
  /\ admissions \in [Keys -> SUBSET Stamp]

-----------------------------------------------------------------------------
(* Mutant: !t.Before(cutoff). *)
RecentKeepsBoundary(stamps) == {s \in stamps : s.at >= now - Window}

(* t.After(cutoff): a stamp exactly one window old is already out. *)
Recent(stamps) == {s \in stamps : s.at > now - Window}

(* Mutant: len(b.timestamps) > rpmLimit refuses. *)
HasRoomAtLimit(k, limit) == Cardinality(Recent(buckets[k])) <= limit

(* len(b.timestamps) >= rpmLimit refuses: so a negative limit always does. *)
HasRoom(k, limit) == Cardinality(Recent(buckets[k])) < limit

RateInit ==
  /\ now = 0
  /\ buckets = [k \in Keys |-> {}]
  /\ admissions = [k \in Keys |-> {}]

(* Mutant: appends the cutoff instead of the time. *)
AllowStampsCutoff(k, limit, r) ==
  LET stamp == [req |-> r, at |-> now - Window, under |-> limit]
  IN  /\ limit # 0
      /\ HasRoom(k, limit)
      /\ buckets' = [buckets EXCEPT ![k] = Recent(@) \cup {stamp}]
      /\ admissions' = [admissions EXCEPT ![k] = @ \cup {stamp}]
      /\ UNCHANGED now

(* A limit of 0 never gets here: the callers return before the bucket. *)
Allow(k, limit, r) ==
  LET stamp == [req |-> r, at |-> now, under |-> limit]
  IN  /\ limit # 0
      /\ HasRoom(k, limit)
      /\ buckets' = [buckets EXCEPT ![k] = Recent(@) \cup {stamp}]
      /\ admissions' = [admissions EXCEPT ![k] = @ \cup {stamp}]
      /\ UNCHANGED now

(* A refused request is not recorded, but the pruning it did stays. *)
Refuse(k, limit) ==
  /\ limit # 0
  /\ ~HasRoom(k, limit)
  /\ buckets' = [buckets EXCEPT ![k] = Recent(@)]
  /\ UNCHANGED <<now, admissions>>

Tick ==
  /\ now < MaxTime
  /\ now' = now + 1
  /\ UNCHANGED <<buckets, admissions>>

(* A new process starts with an empty sync.Map. *)
Restart ==
  /\ buckets' = [k \in Keys |-> {}]
  /\ admissions' = [k \in Keys |-> {}]
  /\ UNCHANGED now

Unused(r) == \A k \in Keys : \A s \in admissions[k] : s.req # r

RateNext ==
  \/ \E k \in Keys, limit \in RateLimits, r \in Requests :
        Unused(r) /\ Allow(k, limit, r)
  \/ \E k \in Keys, limit \in RateLimits : Refuse(k, limit)
  \/ Tick
  \/ Restart

RateSpec == RateInit /\ [][RateNext]_rateVars

-----------------------------------------------------------------------------
(* The pruned bucket decides exactly as the whole history of admissions    *)
(* would: a limited request gets through if and only if fewer than its     *)
(* limit were admitted in the window that ends now.  Pruning too much      *)
(* would let more through, pruning too little would refuse within the      *)
(* limit (allow, service.go:25).                                           *)
DecidesExactly ==
  \A k \in Keys : \A limit \in RateLimits :
     HasRoom(k, limit)
     <=> Cardinality({s \in admissions[k] : now - s.at < Window}) < limit

(* Whatever order requests, refusals, limit changes and clock ticks come   *)
(* in, no window of one minute, wherever it ends, holds more admitted      *)
(* requests of a key than the highest limit they were admitted under       *)
(* (README.md:214, "Max requests per minute").                             *)
NoWindowOverfull ==
  \A k \in Keys : \A limit \in RateLimits \cap Nat : \A end \in 0 .. now :
     (\A s \in admissions[k] : s.under <= limit)
     => Cardinality({s \in admissions[k] : end - Window < s.at /\ s.at <= end}) <= limit
=============================================================================
