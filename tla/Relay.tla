--------------------------------- MODULE Relay ---------------------------------
(***************************************************************************)
(* One relay call, from the bearer key to the charge: downstreamKeyAuth in *)
(* internal/httpserver, the handlers of internal/publicapi and the Service *)
(* of internal/relay.                                                      *)
(*                                                                         *)
(* A worker is one of the goroutines that serve calls at the same time.    *)
(* Every query, the mutex of the rate limiter and the upstream exchange    *)
(* are steps of their own, so that other calls and admins come in between. *)
(* What a call read once it keeps: the key row of Authenticate ("snap")    *)
(* decides the rate limit, the quota and the provider pin to its end.      *)
(*                                                                         *)
(* Every query runs under the request's context.  When the client is gone  *)
(* the context is cancelled, and each later query fails.                   *)
(***************************************************************************)
EXTENDS Store

CONSTANTS
  Workers,      \* calls that can be in progress at the same time
  Endpoints,    \* the relay endpoints in use
  TokenCounts,  \* usage.total_tokens an upstream may report
  Window,       \* ticks of the clock in a minute
  MaxTime, MaxRequests, MaxChunks, MaxFaults   \* bounds of the model

ASSUME RelayAssumption ==
  /\ IsFiniteSet(Workers)
  /\ Endpoints \subseteq {"chat", "stream", "embeddings", "images"}
  /\ TokenCounts \subseteq Nat /\ IsFiniteSet(TokenCounts)   \* an int
  /\ Window \in Nat \ {0}
  /\ {MaxTime, MaxRequests, MaxChunks, MaxFaults} \subseteq Nat
  /\ NULL \notin Models

VARIABLES
  pc,           \* worker -> where its call is
  call,         \* worker -> what the client asked
  snap,         \* worker -> its copy of the api_keys row
  target,       \* worker -> the model and provider it resolved
  result,       \* worker -> the outcome of the upstream exchange
  gone,         \* workers whose client has disconnected
  now, buckets, admissions,      \* the rate limiter
  arrived, faults,               \* calls received, failed queries
  served, unlogged, uncharged    \* history, see below

workVars == <<pc, call, snap, target, result, gone>>
rateVars == <<now, buckets, admissions>>
historyVars == <<served, unlogged, uncharged>>
relayVars == <<workVars, rateVars, historyVars, arrived, faults>>

Requests == 1 .. MaxRequests
Limiter == INSTANCE RateBucket

-----------------------------------------------------------------------------
Locations == {"idle", "auth", "bind", "resolve", "rules", "adapter", "upstream",
              "streaming", "record", "charge"}

Call == [id : Requests, key : Keys, name : Names, endpoint : Endpoints]
Target == [model : Models, provider : Providers, adapter : AdapterTypes \cup {NULL}]
Tokens == TokenCounts \cup 0 .. MaxChunks
Result == [ok : BOOLEAN, tokens : Tokens]

(* History: the calls an upstream answered with 200, and the numbers of    *)
(* those whose usage entry or whose charge a failure named in the model    *)
(* (a failed query, a client gone, a crash) kept from being written.       *)
Receipt == [id : Requests, key : Keys, tokens : Tokens]

WorkTypeOK ==
  /\ pc \in [Workers -> Locations]
  /\ call \in [Workers -> Call \cup {NULL}]
  /\ snap \in [Workers -> KeyRow \cup {NULL}]
  /\ target \in [Workers -> Target \cup {NULL}]
  /\ result \in [Workers -> Result \cup {NULL}]
  /\ gone \subseteq Workers
  /\ \A w \in Workers :
       /\ pc[w] # "idle" => call[w] \in Call
       /\ pc[w] \notin {"idle", "auth"} => snap[w] \in KeyRow
       /\ pc[w] \notin {"idle", "auth", "bind", "resolve"} => target[w] \in Target
       /\ pc[w] \in {"streaming", "record", "charge"} => result[w] \in Result
       /\ pc[w] = "streaming" => result[w].ok

RelayTypeOK ==
  /\ WorkTypeOK
  /\ Limiter!RateTypeOK
  /\ arrived \in 0 .. MaxRequests /\ faults \in Nat
  /\ served \subseteq Receipt /\ unlogged \subseteq Requests /\ uncharged \subseteq Requests

RelayInit ==
  /\ pc = [w \in Workers |-> "idle"]
  /\ call = [w \in Workers |-> NULL]
  /\ snap = [w \in Workers |-> NULL]
  /\ target = [w \in Workers |-> NULL]
  /\ result = [w \in Workers |-> NULL]
  /\ gone = {}
  /\ Limiter!RateInit
  /\ arrived = 0 /\ faults = 0
  /\ served = {} /\ unlogged = {} /\ uncharged = {}

-----------------------------------------------------------------------------
Goto(w, location) == pc' = [pc EXCEPT ![w] = location]

(* The handler returns: its response is written, its worker is free. *)
Finish(w) ==
  /\ Goto(w, "idle")
  /\ call' = [call EXCEPT ![w] = NULL]
  /\ snap' = [snap EXCEPT ![w] = NULL]
  /\ target' = [target EXCEPT ![w] = NULL]
  /\ result' = [result EXCEPT ![w] = NULL]
  /\ gone' = gone \ {w}

(* A query of w fails, because its context is cancelled or for a reason of *)
(* the database's own.                                                     *)
QueryFails(w) ==
  \/ w \in gone /\ UNCHANGED faults
  \/ w \notin gone /\ faults < MaxFaults /\ faults' = faults + 1

QueryRuns(w) == w \notin gone /\ UNCHANGED faults

(* A query before the upstream exchange fails, or what it returned cannot  *)
(* be used (a bcrypt hash, a secret to decrypt): the call ends with an     *)
(* error and nothing is recorded.                                          *)
Abort(w) ==
  /\ pc[w] \in {"auth", "resolve", "rules", "adapter"}
  /\ QueryFails(w)
  /\ Finish(w)
  /\ UNCHANGED <<storeVars, rateVars, historyVars, arrived>>

-----------------------------------------------------------------------------
Receive(w) ==
  /\ pc[w] = "idle"
  /\ arrived < MaxRequests
  /\ arrived' = arrived + 1
  /\ \E k \in Keys, n \in Names, e \in Endpoints :
       call' = [call EXCEPT ![w] = [id |-> arrived', key |-> k, name |-> n, endpoint |-> e]]
  /\ Goto(w, "auth")
  /\ UNCHANGED <<storeVars, snap, target, result, gone, rateVars, historyVars, faults>>

(* The client closes the connection.  The server notices once the handler  *)
(* has read the whole body, and cancels the request's context.             *)
ClientGone(w) ==
  /\ pc[w] \notin {"idle", "auth", "bind"}
  /\ w \notin gone
  /\ gone' = gone \cup {w}
  /\ UNCHANGED <<storeVars, pc, call, snap, target, result, rateVars, historyVars,
                 arrived, faults>>

(* time.Now().After(expires_at): the instant of expiry itself still works. *)
Usable(row) ==
  /\ row.status = "active"
  /\ row.expiresAt # NULL => now <= row.expiresAt

Authenticate(w) ==
  LET k == call[w].key
      known == k \in DOMAIN apiKeys
  IN  /\ pc[w] = "auth"
      /\ QueryRuns(w)
      /\ \/ /\ known /\ Usable(apiKeys[k])
            /\ snap' = [snap EXCEPT ![w] = apiKeys[k]]
            /\ Goto(w, "bind")
            /\ UNCHANGED <<call, target, result, gone>>
         \/ /\ ~(known /\ Usable(apiKeys[k]))
            /\ Finish(w)
      /\ UNCHANGED <<storeVars, rateVars, historyVars, arrived>>

(* ShouldBindJSON refuses the body. *)
BindFails(w) ==
  /\ pc[w] = "bind"
  /\ Finish(w)
  /\ UNCHANGED <<storeVars, rateVars, historyVars, arrived, faults>>

(* Mutant: > in place of >=. *)
WithinQuotaInclusive(row) ==
  /\ row.quotaTokens > 0 => row.usedTokens <= row.quotaTokens
  /\ row.quotaReqs > 0 => row.usedReqs <= row.quotaReqs

(* Mutant: the token quota is never looked at. *)
WithinRequestsOnly(row) == row.quotaReqs > 0 => row.usedReqs < row.quotaReqs

(* 0 and negative quotas are no quotas. *)
WithinQuota(row) ==
  /\ row.quotaTokens > 0 => row.usedTokens < row.quotaTokens
  /\ row.quotaReqs > 0 => row.usedReqs < row.quotaReqs

(* CheckRateLimit, then CheckQuota, which looks at the copy only: a call   *)
(* over its quota has taken its place in the rate window.                  *)
Admit(w) ==
  /\ pc[w] = "bind"
  /\ \/ snap[w].rateLimit = 0 /\ UNCHANGED rateVars
     \/ Limiter!Allow(call[w].key, snap[w].rateLimit, call[w].id)
  /\ IF WithinQuota(snap[w])
     THEN Goto(w, "resolve") /\ UNCHANGED <<call, snap, target, result, gone>>
     ELSE Finish(w)
  /\ UNCHANGED <<storeVars, historyVars, arrived, faults>>

(* Mutant: a refused request takes a place in the window too. *)
RateLimitedCounts(w) ==
  LET k == call[w].key
  IN  /\ pc[w] = "bind"
      /\ snap[w].rateLimit # 0 /\ ~Limiter!HasRoom(k, snap[w].rateLimit)
      /\ buckets' = [buckets EXCEPT ![k] = Limiter!Recent(@) \cup
                       {[req |-> call[w].id, at |-> now, under |-> snap[w].rateLimit]}]
      /\ Finish(w)
      /\ UNCHANGED <<storeVars, historyVars, arrived, faults, now, admissions>>

RateLimited(w) ==
  /\ pc[w] = "bind"
  /\ Limiter!Refuse(call[w].key, snap[w].rateLimit)
  /\ Finish(w)
  /\ UNCHANGED <<storeVars, historyVars, arrived, faults>>

-----------------------------------------------------------------------------
(* ResolveModel, first query.  ORDER BY name leaves the order of models    *)
(* with one name open: the loop stops at any one of them.  A key pinned    *)
(* elsewhere is then refused without a look at the others.                 *)
Candidates(name) == {m \in ListAll : models[m].name = name}

PinAllows(row, m) == row.providerId # NULL => models[m].provider = row.providerId

(* Mutant: the key's provider override replaces the model's provider. *)
FindModelOverrides(w) ==
  /\ pc[w] = "resolve"
  /\ QueryRuns(w)
  /\ \E m \in Candidates(call[w].name) :
       target' = [target EXCEPT ![w] =
          [model |-> m, adapter |-> NULL,
           provider |-> IF snap[w].providerId = NULL THEN models[m].provider
                                                     ELSE snap[w].providerId]]
  /\ Goto(w, "rules")
  /\ UNCHANGED <<storeVars, call, snap, result, gone, rateVars, historyVars, arrived>>

FindModel(w) ==
  /\ pc[w] = "resolve"
  /\ QueryRuns(w)
  /\ \E m \in Candidates(call[w].name) :
       /\ PinAllows(snap[w], m)
       /\ target' = [target EXCEPT ![w] =
                       [model |-> m, provider |-> models[m].provider, adapter |-> NULL]]
  /\ Goto(w, "rules")
  /\ UNCHANGED <<storeVars, call, snap, result, gone, rateVars, historyVars, arrived>>

ModelNotFound(w) ==
  /\ pc[w] = "resolve"
  /\ QueryRuns(w)
  /\ \/ Candidates(call[w].name) = {}
     \/ \E m \in Candidates(call[w].name) : ~PinAllows(snap[w], m)
  /\ Finish(w)
  /\ UNCHANGED <<storeVars, rateVars, historyVars, arrived>>

(* ResolveModel, second query.  A deny rule wins; allow rules, if the key  *)
(* has any, must name the model.                                           *)
RulesAllow(k, m) ==
  LET mine == RulesOf(k)
      allowed == {r \in mine : r.allow}
  IN  /\ ~\E r \in mine \ allowed : r.model = m
      /\ allowed # {} => \E r \in allowed : r.model = m

CheckRules(w) ==
  /\ pc[w] = "rules"
  /\ QueryRuns(w)
  /\ IF RulesAllow(call[w].key, target[w].model)
     THEN Goto(w, "adapter") /\ UNCHANGED <<call, snap, target, result, gone>>
     ELSE Finish(w)
  /\ UNCHANGED <<storeVars, rateVars, historyVars, arrived>>

(* GetAdapter reads the provider again: it may be gone or disabled by now. *)
GetAdapter(w) ==
  LET p == target[w].provider
  IN  /\ pc[w] = "adapter"
      /\ QueryRuns(w)
      /\ \/ /\ p \in DOMAIN providers /\ providers[p].enabled
            /\ target' = [target EXCEPT ![w].adapter = providers[p].adapter]
            /\ Goto(w, "upstream")
            /\ UNCHANGED <<call, snap, result, gone>>
         \/ /\ ~(p \in DOMAIN providers /\ providers[p].enabled)
            /\ Finish(w)
      /\ UNCHANGED <<storeVars, rateVars, historyVars, arrived>>

-----------------------------------------------------------------------------
Supports(adapter, endpoint) ==
  /\ endpoint = "embeddings" => adapter # "anthropic"
  /\ endpoint = "images" => adapter = "openai_compatible"

Serve(w, tokens) ==
  served' = served \cup {[id |-> call[w].id, key |-> call[w].key, tokens |-> tokens]}

(* The upstream's answer is decoded.  Images report no tokens. *)
UpstreamAnswers(w) ==
  /\ pc[w] = "upstream"
  /\ w \notin gone
  /\ call[w].endpoint # "stream"
  /\ Supports(target[w].adapter, call[w].endpoint)
  /\ \E t \in IF call[w].endpoint = "images" THEN {0} ELSE TokenCounts :
       /\ result' = [result EXCEPT ![w] = [ok |-> TRUE, tokens |-> t]]
       /\ Serve(w, t)
  /\ Goto(w, "record")
  /\ UNCHANGED <<storeVars, call, snap, target, gone, rateVars, unlogged, uncharged,
                 arrived, faults>>

(* An error, a timeout, a cancelled context, an endpoint the adapter lacks. *)
UpstreamFails(w) ==
  /\ pc[w] = "upstream"
  /\ result' = [result EXCEPT ![w] = [ok |-> FALSE, tokens |-> 0]]
  /\ Goto(w, "record")
  /\ UNCHANGED <<storeVars, call, snap, target, gone, rateVars, historyVars,
                 arrived, faults>>

(* Mutant: the counters of a stream are not set to 0. *)
StreamOpensUncounted(w) ==
  /\ pc[w] = "upstream"
  /\ w \notin gone
  /\ call[w].endpoint = "stream"
  /\ Goto(w, "streaming")
  /\ UNCHANGED <<storeVars, call, snap, target, result, gone, rateVars, historyVars,
                 arrived, faults>>

StreamOpens(w) ==
  /\ pc[w] = "upstream"
  /\ w \notin gone
  /\ call[w].endpoint = "stream"
  /\ result' = [result EXCEPT ![w] = [ok |-> TRUE, tokens |-> 0]]
  /\ Goto(w, "streaming")
  /\ UNCHANGED <<storeVars, call, snap, target, gone, rateVars, historyVars,
                 arrived, faults>>

(* Each "data:" line that is not [DONE] counts as one token. *)
StreamChunk(w) ==
  /\ pc[w] = "streaming"
  /\ result[w].tokens < MaxChunks
  /\ result' = [result EXCEPT ![w].tokens = @ + 1]
  /\ UNCHANGED <<storeVars, pc, call, snap, target, gone, rateVars, historyVars,
                 arrived, faults>>

(* The scanner stops: end of the stream, a broken upstream, a line too     *)
(* long, a cancelled context.  The handler does not ask which.             *)
StreamEnds(w) ==
  /\ pc[w] = "streaming"
  /\ Serve(w, result[w].tokens)
  /\ Goto(w, "record")
  /\ UNCHANGED <<storeVars, call, snap, target, result, gone, rateVars, unlogged,
                 uncharged, arrived, faults>>

-----------------------------------------------------------------------------
(* Mutant: an INSERT that fails is tried again until it goes through. *)
RecordUsageRetries(w) ==
  LET k == call[w].key
      ok == result[w].ok
  IN  /\ pc[w] = "record"
      /\ \/ /\ QueryRuns(w) /\ CanAppend(k)
            /\ UsageAppend(k, ok, result[w].tokens)
            /\ IF ok THEN Goto(w, "charge") /\ UNCHANGED <<call, snap, target, result, gone>>
                     ELSE Finish(w)
         \/ /\ \/ QueryRuns(w) /\ ~CanAppend(k)
               \/ QueryFails(w)
            /\ UNCHANGED <<workVars, usageLogs>>
      /\ UNCHANGED <<apiKeys, providers, models, rules, issued, rateVars, served,
                     unlogged, uncharged, arrived>>

(* Mutant: a call that failed upstream is charged like the others. *)
RecordUsageChargesAll(w) ==
  LET k == call[w].key
      ok == result[w].ok
  IN  /\ pc[w] = "record"
      /\ \/ /\ QueryRuns(w) /\ CanAppend(k)
            /\ UsageAppend(k, ok, result[w].tokens)
            /\ UNCHANGED unlogged
         \/ /\ \/ QueryRuns(w) /\ ~CanAppend(k)
               \/ QueryFails(w)
            /\ unlogged' = IF ok THEN unlogged \cup {call[w].id} ELSE unlogged
            /\ UNCHANGED usageLogs
      /\ Goto(w, "charge")
      /\ UNCHANGED <<call, snap, target, result, gone, apiKeys, providers, models, rules, issued,
                     rateVars, served, uncharged, arrived>>

(* recordUsage: an entry with 200 or 502.  When the INSERT fails the call  *)
(* goes on as if it had not.                                               *)
RecordUsage(w) ==
  LET k == call[w].key
      ok == result[w].ok
  IN  /\ pc[w] = "record"
      /\ \/ /\ QueryRuns(w) /\ CanAppend(k)
            /\ UsageAppend(k, ok, result[w].tokens)
            /\ UNCHANGED unlogged
         \/ /\ \/ QueryRuns(w) /\ ~CanAppend(k)
               \/ QueryFails(w)
            /\ unlogged' = IF ok THEN unlogged \cup {call[w].id} ELSE unlogged
            /\ UNCHANGED usageLogs
      /\ IF ok THEN Goto(w, "charge") /\ UNCHANGED <<call, snap, target, result, gone>>
               ELSE Finish(w)
      /\ UNCHANGED <<apiKeys, providers, models, rules, issued, rateVars, served,
                     uncharged, arrived>>

(* incrementQuota: again an error is logged and no more. *)
IncrementQuota(w) ==
  LET k == call[w].key
  IN  /\ pc[w] = "charge"
      /\ \/ /\ QueryRuns(w)
            /\ IncrementUsage(k, result[w].tokens, 1)
            /\ UNCHANGED uncharged
         \/ /\ QueryFails(w)
            /\ uncharged' = uncharged \cup {call[w].id}
            /\ UNCHANGED apiKeys
      /\ Finish(w)
      /\ UNCHANGED <<providers, models, rules, usageLogs, issued, rateVars, served,
                     unlogged, arrived>>

-----------------------------------------------------------------------------
Tick ==
  /\ Limiter!Tick
  /\ UNCHANGED <<storeVars, workVars, historyVars, arrived, faults>>

(* The steps the handler takes by itself: fairness is about these. *)
Handler(w) ==
  \/ Abort(w) \/ Authenticate(w) \/ BindFails(w) \/ Admit(w) \/ RateLimited(w)
  \/ FindModel(w) \/ ModelNotFound(w) \/ CheckRules(w) \/ GetAdapter(w)
  \/ UpstreamAnswers(w) \/ UpstreamFails(w) \/ StreamOpens(w) \/ StreamEnds(w)
  \/ RecordUsage(w) \/ IncrementQuota(w)

(* Calls whose outcome is known and whose entry, or whose charge, is still *)
(* to be written.                                                          *)
ToLog == {w \in Workers : pc[w] = "record" /\ result[w].ok}
ToCharge == ToLog \cup {w \in Workers : pc[w] = "charge"}

(* The process stops; the calls in progress stop where they are. *)
RelayCrash ==
  /\ pc' = [w \in Workers |-> "idle"]
  /\ call' = [w \in Workers |-> NULL]
  /\ snap' = [w \in Workers |-> NULL]
  /\ target' = [w \in Workers |-> NULL]
  /\ result' = [w \in Workers |-> NULL]
  /\ gone' = {}
  /\ Limiter!Restart
  /\ unlogged' = unlogged \cup {call[w].id : w \in ToLog}
  /\ uncharged' = uncharged \cup {call[w].id : w \in ToCharge}
  /\ UNCHANGED <<storeVars, served, arrived, faults>>
=============================================================================
