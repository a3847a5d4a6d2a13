--------------------------------- MODULE Store ---------------------------------
(***************************************************************************)
(* The PostgreSQL database as the server uses it: the tables of            *)
(* migrations/001_initial_schema.up.sql that the relay reads and writes,   *)
(* and one operator for each statement of internal/store/postgres that     *)
(* changes or selects rows.  A statement is atomic.                        *)
(*                                                                         *)
(* A table is a function from the ids of its rows to the rows.  Ids come   *)
(* from gen_random_uuid(), so an id is used once: "issued" remembers.      *)
(* usage_logs is kept as what the system's properties tell apart, a tally  *)
(* per key of the entries with status 200, of those with status 502, and   *)
(* of their tokens.                                                        *)
(*                                                                         *)
(* Each operator says what the statement does to the tables it names and   *)
(* nothing of the others.                                                  *)
(***************************************************************************)
EXTENDS Integers, FiniteSets

CONSTANTS
  Keys,         \* ids of api_keys
  Providers,    \* ids of providers
  Models,       \* ids of models
  Names,        \* canonical model names
  ProviderNames, \* names of providers; a preset's provider has its slug
  RateLimits,   \* values the rate_limit column may hold
  NULL          \* the SQL NULL, the nil pointer, the absent JSON field

ASSUME StoreAssumption ==
  /\ RateLimits \subseteq Int /\ 0 \in RateLimits     \* 0 is the column default
  /\ NULL \notin Int
  /\ NULL \notin Providers
  /\ NULL \notin BOOLEAN
  /\ NULL \notin {"active", "disabled", "expired"}
  /\ NULL \notin Names
  /\ Keys \cap (Providers \cup Models) = {}       \* ids are UUIDs

VARIABLES
  apiKeys, providers, models,   \* id -> row
  rules,                        \* api_key_model_rules
  usageLogs,                    \* key -> tally of its usage_logs rows
  issued                        \* every id a row ever had

storeVars == <<apiKeys, providers, models, rules, usageLogs, issued>>

-----------------------------------------------------------------------------
KeyStatus == {"active", "disabled", "expired"}
AdapterTypes == {"openai_compatible", "anthropic", "gemini"}

KeyRow == [status : KeyStatus, expiresAt : Nat \cup {NULL}, rateLimit : RateLimits,
           quotaTokens : Int, usedTokens : Nat, quotaReqs : Int, usedReqs : Nat,
           providerId : Providers \cup {NULL}]
ProviderRow == [name : ProviderNames, adapter : AdapterTypes, enabled : BOOLEAN, secret : Nat]
ModelRow == [provider : Providers, name : Names, enabled : BOOLEAN]
Rule == [key : Keys, model : Models, allow : BOOLEAN]
Tally == [ok : Nat, failed : Nat, tokens : Nat]

NoEntries == [ok |-> 0, failed |-> 0, tokens |-> 0]

StoreTypeOK ==
  /\ DOMAIN apiKeys \subseteq Keys /\ apiKeys \in [DOMAIN apiKeys -> KeyRow]
  /\ DOMAIN providers \subseteq Providers /\ providers \in [DOMAIN providers -> ProviderRow]
  /\ DOMAIN models \subseteq Models /\ models \in [DOMAIN models -> ModelRow]
  /\ rules \subseteq Rule
  /\ usageLogs \in [Keys -> Tally]
  /\ issued \subseteq Keys \cup Providers \cup Models

-----------------------------------------------------------------------------
(* INSERT of a row under a fresh id, and DELETE of rows. *)
With(table, id, row) == [i \in DOMAIN table \cup {id} |-> IF i = id THEN row ELSE table[i]]
Only(table, ids) == [i \in DOMAIN table \cap ids |-> table[i]]

(* A foreign key that may be NULL. *)
RefersTo(id, table) == id = NULL \/ id \in DOMAIN table

-----------------------------------------------------------------------------
(* APIKeyStore.  The usage counters start at the column default. *)
KeyCreate(k, row) ==
  /\ k \notin issued
  /\ RefersTo(row.providerId, providers)
  /\ apiKeys' = With(apiKeys, k, [row EXCEPT !.usedTokens = 0, !.usedReqs = 0])
  /\ issued' = issued \cup {k}

(* Mutant: the counters are written back with the rest. *)
KeyUpdateWritesCounters(k, copy) ==
  /\ k \in DOMAIN apiKeys
  /\ RefersTo(copy.providerId, providers)
  /\ apiKeys' = [apiKeys EXCEPT ![k] = copy]

(* Mutant: INSERT ... ON CONFLICT DO UPDATE in place of UPDATE. *)
KeyUpdateUpserts(k, copy) ==
  /\ RefersTo(copy.providerId, providers)
  /\ apiKeys' = With(apiKeys, k, copy)

(* UPDATE ... SET of the mutable columns from the caller's copy of the row. *)
(* The counters are not among them.                                         *)
KeyUpdate(k, copy) ==
  /\ k \in DOMAIN apiKeys
  /\ RefersTo(copy.providerId, providers)
  /\ apiKeys' = [apiKeys EXCEPT ![k] =
        [copy EXCEPT !.usedTokens = apiKeys[k].usedTokens, !.usedReqs = apiKeys[k].usedReqs]]

(* ON DELETE CASCADE reaches the key's rules and its usage log. *)
KeyDelete(k) ==
  /\ apiKeys' = Only(apiKeys, Keys \ {k})
  /\ rules' = {r \in rules : r.key # k}
  /\ usageLogs' = [usageLogs EXCEPT ![k] = NoEntries]

(* Mutant: SET used = n, for the tokens. *)
IncrementUsageSets(k, tokens, reqs) ==
  apiKeys' = IF k \in DOMAIN apiKeys
             THEN [apiKeys EXCEPT ![k].usedTokens = tokens, ![k].usedReqs = @ + reqs]
             ELSE apiKeys

(* SET used = used + n ... WHERE id: no row, no effect, no error. *)
IncrementUsage(k, tokens, reqs) ==
  apiKeys' = IF k \in DOMAIN apiKeys
             THEN [apiKeys EXCEPT ![k].usedTokens = @ + tokens, ![k].usedReqs = @ + reqs]
             ELSE apiKeys

RulesOf(k) == {r \in rules : r.key = k}

(* One transaction: DELETE all, INSERT each; (api_key_id, model_id) is UNIQUE. *)
SetModelRules(k, new) ==
  /\ k \in DOMAIN apiKeys
  /\ \A r \in new : r.key = k /\ r.model \in DOMAIN models
  /\ \A r, s \in new : r.model = s.model => r = s
  /\ rules' = {r \in rules : r.key # k} \cup new

(* Mutant: api_key_id is a plain column. *)
CanAppendUnchecked(k) == TRUE

(* UsageStore.  api_key_id is a foreign key: the INSERT fails without the key. *)
CanAppend(k) == k \in DOMAIN apiKeys

(* Mutant: the status column keeps its default of 200. *)
UsageAppendDefaultStatus(k, ok, tokens) ==
  usageLogs' = [usageLogs EXCEPT ![k].ok = @ + 1, ![k].tokens = @ + tokens]

UsageAppend(k, ok, tokens) ==
  usageLogs' = [usageLogs EXCEPT
                  ![k].ok = IF ok THEN @ + 1 ELSE @,
                  ![k].failed = IF ok THEN @ ELSE @ + 1,
                  ![k].tokens = @ + tokens]

-----------------------------------------------------------------------------
(* ProviderStore.  The name is UNIQUE.  Neither it nor adapter_type is      *)
(* among the columns Update sets.                                          *)
ProviderCreate(p, row) ==
  /\ p \notin issued
  /\ \A q \in DOMAIN providers : providers[q].name # row.name
  /\ providers' = With(providers, p, row)
  /\ issued' = issued \cup {p}

ProviderUpdate(p, copy) ==
  /\ p \in DOMAIN providers
  /\ providers' = [providers EXCEPT ![p].enabled = copy.enabled, ![p].secret = copy.secret]

(* Its models go with it, their rules with them; keys pinned to it are unpinned. *)
ProviderDelete(p) ==
  LET lost == {m \in DOMAIN models : models[m].provider = p}
  IN  /\ providers' = Only(providers, Providers \ {p})
      /\ models' = Only(models, Models \ lost)
      /\ rules' = {r \in rules : r.model \notin lost}
      /\ apiKeys' = [k \in DOMAIN apiKeys |->
                       IF apiKeys[k].providerId = p
                       THEN [apiKeys[k] EXCEPT !.providerId = NULL] ELSE apiKeys[k]]

(* ModelStore.  (provider_id, name) is UNIQUE; provider_id never changes. *)
NameTaken(m, p, name) ==
  \E other \in DOMAIN models \ {m} : models[other].provider = p /\ models[other].name = name

ModelCreate(m, row) ==
  /\ m \notin issued
  /\ row.provider \in DOMAIN providers
  /\ ~NameTaken(m, row.provider, row.name)
  /\ models' = With(models, m, row)
  /\ issued' = issued \cup {m}

ModelUpdate(m, copy) ==
  /\ m \in DOMAIN models
  /\ ~NameTaken(m, models[m].provider, copy.name)
  /\ models' = [models EXCEPT ![m].name = copy.name, ![m].enabled = copy.enabled]

ModelDelete(m) ==
  /\ models' = Only(models, Models \ {m})
  /\ rules' = {r \in rules : r.model # m}

(* The enabled models of the enabled providers, joined in one query. *)
ListAll == {m \in DOMAIN models : models[m].enabled /\ providers[models[m].provider].enabled}

-----------------------------------------------------------------------------
(* Referential integrity as the schema declares it: no model without its   *)
(* provider, no rule without its key and its model, no usage entry without *)
(* its key, no key pinned to a provider that is gone - whatever statements *)
(* of admins and of requests in flight come in between.                    *)
ForeignKeysHold ==
  /\ \A m \in DOMAIN models : models[m].provider \in DOMAIN providers
  /\ \A r \in rules : r.key \in DOMAIN apiKeys /\ r.model \in DOMAIN models
  /\ \A k \in Keys : usageLogs[k] # NoEntries => k \in DOMAIN apiKeys
  /\ \A k \in DOMAIN apiKeys : RefersTo(apiKeys[k].providerId, providers)
=============================================================================
