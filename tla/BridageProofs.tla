--------------------------- MODULE BridageProofs ----------------------------
(***************************************************************************)
(* Type correctness of the server, and what its tables keep.               *)
(***************************************************************************)
EXTENDS Bridage, FiniteSetTheorems, TLAPS

(* Laying one record over a table keeps the table's type. *)
LEMMA WithTyped ==
  ASSUME NEW Ids, NEW Row, NEW t, DOMAIN t \subseteq Ids, t \in [DOMAIN t -> Row],
         NEW id \in Ids, NEW row \in Row
  PROVE  /\ DOMAIN With(t, id, row) \subseteq Ids
         /\ With(t, id, row) \in [DOMAIN With(t, id, row) -> Row]
BY DEF With

(* Deleting rows keeps the type of the rows that stay. *)
LEMMA OnlyTyped ==
  ASSUME NEW Ids, NEW Row, NEW t, DOMAIN t \subseteq Ids, t \in [DOMAIN t -> Row], NEW S
  PROVE  /\ DOMAIN Only(t, S) \subseteq Ids
         /\ Only(t, S) \in [DOMAIN Only(t, S) -> Row]
BY DEF Only

(* What the setup leaves behind is well typed. *)
LEMMA InitTyped == Init => TypeOK
<1> SUFFICES ASSUME Init PROVE TypeOK
  OBVIOUS
<1> USE StoreAssumption, RelayAssumption, AdminAssumption, SetupAssumption
<1>1. StoreTypeOK
  BY DEF Init, StoreTypeOK, NoEntries, Tally
<1>2. WorkTypeOK
  BY DEF Init, RelayInit, WorkTypeOK, Locations
<1>3. Limiter!RateTypeOK
  BY DEF Init, RelayInit, Limiter!RateInit, Limiter!RateTypeOK, Limiter!Stamp
<1>4. RelayTypeOK
  BY <1>2, <1>3 DEF Init, RelayInit, RelayTypeOK
<1>5. AdminTypeOK
  <2>1. \A k \in DOMAIN apiKeys : apiKeys[k].quotaReqs \in Int /\ apiKeys[k].quotaTokens \in Int
    BY DEF Init, AdminInit, KeyRow
  <2> QED BY <2>1 DEF Init, AdminInit, AdminTypeOK, QuotaOf
<1> QED BY <1>1, <1>4, <1>5 DEF Init, TypeOK

(* What a call may cost is a number. *)
LEMMA TokensTyped == Tokens \subseteq Nat /\ 0 \in Tokens
<1>1. MaxChunks \in Nat /\ TokenCounts \subseteq Nat
  BY RelayAssumption
<1>2. 0 .. MaxChunks \subseteq Nat /\ 0 \in 0 .. MaxChunks
  BY <1>1
<1> QED BY <1>1, <1>2 DEF Tokens

-----------------------------------------------------------------------------
(* A worker that finishes, and every other worker, is well typed. *)
LEMMA FinishTyped ==
  ASSUME WorkTypeOK, NEW w \in Workers, Finish(w)
  PROVE  WorkTypeOK'
BY DEF WorkTypeOK, Finish, Goto, Locations

(* A step that leaves the tables alone keeps their types. *)
LEMMA StoreUnchanged ==
  ASSUME StoreTypeOK, UNCHANGED storeVars
  PROVE  StoreTypeOK'
BY DEF StoreTypeOK, storeVars

(* A step that leaves the limiter alone keeps its types. *)
LEMMA LimiterUnchanged ==
  ASSUME Limiter!RateTypeOK, UNCHANGED rateVars
  PROVE  Limiter!RateTypeOK'
BY DEF Limiter!RateTypeOK, rateVars

(* A query that runs or fails leaves the count of faults a number. *)
LEMMA FaultsTyped ==
  ASSUME NEW w, faults \in Nat, QueryFails(w) \/ QueryRuns(w)
  PROVE  faults' \in Nat
BY DEF QueryFails, QueryRuns

(* The steps of one relay call. *)
LEMMA HandlerTyped ==
  ASSUME TypeOK, NEW w \in Workers, Handler(w)
  PROVE  StoreTypeOK' /\ RelayTypeOK'
<1> USE DEF TypeOK, RelayTypeOK
<1>1. CASE Abort(w)
  BY <1>1, FinishTyped, StoreUnchanged, LimiterUnchanged, FaultsTyped
  DEF Abort, historyVars
<1>2. CASE Authenticate(w)
  <2>1. WorkTypeOK'
    <3>1. CASE Finish(w)
      BY <3>1, FinishTyped
    <3>2. CASE ~Finish(w)
      <4>1. apiKeys[call[w].key] \in KeyRow
        BY <1>2, <3>2 DEF Authenticate, StoreTypeOK
      <4> QED BY <1>2, <3>2, <4>1 DEF Authenticate, WorkTypeOK, Goto, Locations
    <3> QED BY <3>1, <3>2
  <2> QED BY <1>2, <2>1, StoreUnchanged, LimiterUnchanged, FaultsTyped
      DEF Authenticate, historyVars
<1>3. CASE BindFails(w)
  BY <1>3, FinishTyped, StoreUnchanged, LimiterUnchanged DEF BindFails, historyVars
<1>4. CASE Admit(w)
  <2>1. WorkTypeOK'
    <3>1. CASE WithinQuota(snap[w])
      BY <1>4, <3>1 DEF Admit, WorkTypeOK, Goto, Locations
    <3>2. CASE ~WithinQuota(snap[w])
      BY <1>4, <3>2, FinishTyped DEF Admit
    <3> QED BY <3>1, <3>2
  <2>2. Limiter!RateTypeOK'
    <3>1. CASE UNCHANGED rateVars
      BY <3>1, LimiterUnchanged
    <3>2. CASE Limiter!Allow(call[w].key, snap[w].rateLimit, call[w].id)
      <4> DEFINE stamp == [req |-> call[w].id, at |-> now, under |-> snap[w].rateLimit]
      <4>1. call[w] \in Call /\ snap[w] \in KeyRow
        BY <1>4 DEF Admit, WorkTypeOK
      <4>2. stamp \in Limiter!Stamp
        BY <4>1 DEF Call, KeyRow, Limiter!Stamp, Limiter!RateTypeOK
      <4> QED BY <3>2, <4>1, <4>2 DEF Limiter!Allow, Limiter!RateTypeOK, Limiter!Recent
    <3> QED BY <1>4, <3>1, <3>2 DEF Admit
  <2> QED BY <1>4, <2>1, <2>2, StoreUnchanged DEF Admit, historyVars
<1>5. CASE RateLimited(w)
  <2>1. Limiter!RateTypeOK'
    BY <1>5 DEF RateLimited, Limiter!Refuse, Limiter!RateTypeOK, Limiter!Recent
  <2> QED BY <1>5, <2>1, FinishTyped, StoreUnchanged DEF RateLimited, historyVars
<1>6. CASE FindModel(w)
  <2>1. PICK m \in Candidates(call[w].name) :
            target' = [target EXCEPT ![w] =
                         [model |-> m, provider |-> models[m].provider, adapter |-> NULL]]
    BY <1>6 DEF FindModel
  <2>2. [model |-> m, provider |-> models[m].provider, adapter |-> NULL] \in Target
    BY DEF Candidates, ListAll, StoreTypeOK, ModelRow, Target
  <2>3. WorkTypeOK'
    BY <1>6, <2>1, <2>2 DEF FindModel, WorkTypeOK, Goto, Locations
  <2> QED BY <1>6, <2>3, StoreUnchanged, LimiterUnchanged, FaultsTyped
      DEF FindModel, historyVars
<1>7. CASE ModelNotFound(w)
  BY <1>7, FinishTyped, StoreUnchanged, LimiterUnchanged, FaultsTyped
  DEF ModelNotFound, historyVars
<1>8. CASE CheckRules(w)
  <2>1. WorkTypeOK'
    <3>1. CASE Finish(w)
      BY <3>1, FinishTyped
    <3>2. CASE ~Finish(w)
      BY <1>8, <3>2 DEF CheckRules, WorkTypeOK, Goto, Locations
    <3> QED BY <3>1, <3>2
  <2> QED BY <1>8, <2>1, StoreUnchanged, LimiterUnchanged, FaultsTyped
      DEF CheckRules, historyVars
<1>9. CASE GetAdapter(w)
  <2>1. WorkTypeOK'
    <3>1. CASE Finish(w)
      BY <3>1, FinishTyped
    <3>2. CASE ~Finish(w)
      <4> DEFINE p == target[w].provider
      <4>1. /\ pc[w] = "adapter" /\ target[w] \in Target
            /\ p \in DOMAIN providers
            /\ target' = [target EXCEPT ![w].adapter = providers[p].adapter]
            /\ Goto(w, "upstream")
            /\ UNCHANGED <<call, snap, result, gone>>
        BY <1>9, <3>2 DEF GetAdapter, WorkTypeOK
      <4>2. providers[p].adapter \in AdapterTypes
        BY <4>1 DEF StoreTypeOK, ProviderRow
      <4>3. [target[w] EXCEPT !.adapter = providers[p].adapter] \in Target
        BY <4>1, <4>2 DEF Target
      <4> HIDE DEF p
      <4> QED BY <4>1, <4>3 DEF WorkTypeOK, Goto, Locations
    <3> QED BY <3>1, <3>2
  <2> QED BY <1>9, <2>1, StoreUnchanged, LimiterUnchanged, FaultsTyped
      DEF GetAdapter, historyVars
<1>10. CASE UpstreamAnswers(w)
  <2>1. PICK t \in IF call[w].endpoint = "images" THEN {0} ELSE TokenCounts :
            /\ result' = [result EXCEPT ![w] = [ok |-> TRUE, tokens |-> t]]
            /\ Serve(w, t)
    BY <1>10 DEF UpstreamAnswers
  <2>2. t \in Tokens /\ call[w] \in Call
    BY <1>10, TokensTyped DEF UpstreamAnswers, WorkTypeOK, Tokens
  <2>3. WorkTypeOK'
    BY <1>10, <2>1, <2>2 DEF UpstreamAnswers, WorkTypeOK, Goto, Locations, Result
  <2>4. served' \subseteq Receipt
    BY <2>1, <2>2 DEF Serve, Receipt, Call
  <2> QED BY <1>10, <2>3, <2>4, StoreUnchanged, LimiterUnchanged DEF UpstreamAnswers
<1>11. CASE UpstreamFails(w)
  <2>1. WorkTypeOK'
    BY <1>11, TokensTyped DEF UpstreamFails, WorkTypeOK, Goto, Locations, Result
  <2> QED BY <1>11, <2>1, StoreUnchanged, LimiterUnchanged DEF UpstreamFails, historyVars
<1>12. CASE StreamOpens(w)
  <2>1. WorkTypeOK'
    BY <1>12, TokensTyped DEF StreamOpens, WorkTypeOK, Goto, Locations, Result
  <2> QED BY <1>12, <2>1, StoreUnchanged, LimiterUnchanged DEF StreamOpens, historyVars
<1>13. CASE StreamEnds(w)
  <2>1. call[w] \in Call /\ result[w] \in Result
    BY <1>13 DEF StreamEnds, WorkTypeOK
  <2>2. served' \subseteq Receipt
    BY <1>13, <2>1 DEF StreamEnds, Serve, Receipt, Call, Result
  <2>3. WorkTypeOK'
    BY <1>13 DEF StreamEnds, WorkTypeOK, Goto, Locations
  <2> QED BY <1>13, <2>2, <2>3, StoreUnchanged, LimiterUnchanged DEF StreamEnds
<1>14. CASE RecordUsage(w)
  <2>1. call[w] \in Call /\ result[w] \in Result
    BY <1>14 DEF RecordUsage, WorkTypeOK
  <2>2. StoreTypeOK'
    <3>1. usageLogs' \in [Keys -> Tally]
      <4>1. usageLogs[call[w].key] \in Tally /\ call[w].key \in Keys
            /\ result[w].tokens \in Nat
        BY <2>1, TokensTyped DEF Call, Result, StoreTypeOK
      <4>2. CASE UsageAppend(call[w].key, result[w].ok, result[w].tokens)
        BY <4>1, <4>2 DEF UsageAppend, StoreTypeOK, Tally
      <4>3. CASE UNCHANGED usageLogs
        BY <4>3 DEF StoreTypeOK
      <4> QED BY <1>14, <4>2, <4>3 DEF RecordUsage
    <3> QED BY <1>14, <3>1 DEF RecordUsage, StoreTypeOK
  <2>3. WorkTypeOK'
    <3>1. CASE result[w].ok
      BY <1>14, <3>1 DEF RecordUsage, WorkTypeOK, Goto, Locations
    <3>2. CASE ~result[w].ok
      BY <1>14, <3>2, FinishTyped DEF RecordUsage
    <3> QED BY <3>1, <3>2
  <2>4. unlogged' \subseteq Requests /\ faults' \in Nat
    BY <1>14, <2>1 DEF RecordUsage, Call, QueryRuns, QueryFails
  <2> QED BY <1>14, <2>2, <2>3, <2>4, LimiterUnchanged DEF RecordUsage
<1>15. CASE IncrementQuota(w)
  <2>1. call[w] \in Call /\ result[w] \in Result
    BY <1>15 DEF IncrementQuota, WorkTypeOK
  <2>2. StoreTypeOK'
    <3>1. DOMAIN apiKeys' = DOMAIN apiKeys /\ apiKeys' \in [DOMAIN apiKeys -> KeyRow]
      BY <1>15, <2>1, TokensTyped
      DEF IncrementQuota, IncrementUsage, StoreTypeOK, KeyRow, Result
    <3> QED BY <1>15, <3>1 DEF IncrementQuota, StoreTypeOK
  <2>3. uncharged' \subseteq Requests /\ faults' \in Nat
    BY <1>15, <2>1 DEF IncrementQuota, Call, QueryRuns, QueryFails
  <2> QED BY <1>15, <2>2, <2>3, FinishTyped, LimiterUnchanged DEF IncrementQuota
<1> QED BY <1>1, <1>2, <1>3, <1>4, <1>5, <1>6, <1>7, <1>8, <1>9, <1>10, <1>11, <1>12,
          <1>13, <1>14, <1>15 DEF Handler

(* What the client does, the clock and a crash. *)
LEMMA EnvironmentTyped ==
  ASSUME TypeOK,
         \/ \E w \in Workers : Receive(w) \/ ClientGone(w) \/ StreamChunk(w)
         \/ Tick \/ RelayCrash
  PROVE  StoreTypeOK' /\ RelayTypeOK'
<1> USE DEF TypeOK, RelayTypeOK
<1>1. ASSUME NEW w \in Workers, Receive(w) PROVE StoreTypeOK' /\ RelayTypeOK'
  <2>1. arrived' \in Requests
    BY <1>1, RelayAssumption DEF Receive, Requests
  <2>2. \E c \in Call : call' = [call EXCEPT ![w] = c]
    BY <1>1, <2>1 DEF Receive, Call
  <2>3. WorkTypeOK'
    BY <1>1, <2>2 DEF Receive, WorkTypeOK, Goto, Locations
  <2> QED BY <1>1, <2>1, <2>3, StoreUnchanged, LimiterUnchanged DEF Receive, historyVars, Requests
<1>2. ASSUME NEW w \in Workers, ClientGone(w) PROVE StoreTypeOK' /\ RelayTypeOK'
  BY <1>2, StoreUnchanged, LimiterUnchanged DEF ClientGone, WorkTypeOK, historyVars
<1>3. ASSUME NEW w \in Workers, StreamChunk(w) PROVE StoreTypeOK' /\ RelayTypeOK'
  <2>1. result[w] \in Result
    BY <1>3 DEF StreamChunk, WorkTypeOK
  <2>2. [result[w] EXCEPT !.tokens = @ + 1] \in Result
    <3>1. result[w].tokens + 1 \in 0 .. MaxChunks
      BY <1>3, <2>1, TokensTyped, RelayAssumption DEF StreamChunk, Result
    <3> QED BY <2>1, <3>1 DEF Result, Tokens
  <2>3. WorkTypeOK'
    BY <1>3, <2>2 DEF StreamChunk, WorkTypeOK
  <2> QED BY <1>3, <2>3, StoreUnchanged, LimiterUnchanged DEF StreamChunk, historyVars
<1>4. CASE Tick
  <2>1. Limiter!RateTypeOK'
    BY <1>4 DEF Tick, Limiter!Tick, Limiter!RateTypeOK
  <2>2. WorkTypeOK'
    BY <1>4 DEF Tick, workVars, WorkTypeOK
  <2> QED BY <1>4, <2>1, <2>2, StoreUnchanged DEF Tick, historyVars
<1>5. CASE RelayCrash
  <2>1. \A w \in ToCharge : call[w] \in Call
    BY DEF ToCharge, ToLog, WorkTypeOK
  <2>2. unlogged' \subseteq Requests /\ uncharged' \subseteq Requests
    BY <1>5, <2>1 DEF RelayCrash, ToCharge, Call
  <2>3. WorkTypeOK'
    BY <1>5 DEF RelayCrash, WorkTypeOK, Locations
  <2>4. Limiter!RateTypeOK'
    BY <1>5 DEF RelayCrash, Limiter!Restart, Limiter!RateTypeOK
  <2> QED BY <1>5, <2>2, <2>3, <2>4, StoreUnchanged DEF RelayCrash
<1> QED BY <1>1, <1>2, <1>3, <1>4, <1>5

-----------------------------------------------------------------------------
(* Patched copies are rows again. *)
LEMMA PatchTyped ==
  /\ \A row \in KeyRow, b \in KeyBody : PatchKey(row, b) \in KeyRow
  /\ \A row \in ProviderRow, b \in ProviderBody : PatchProvider(row, b) \in ProviderRow
  /\ \A row \in ModelRow, b \in ModelBody : PatchModel(row, b) \in ModelRow
<1>1. ASSUME NEW row \in KeyRow, NEW b \in KeyBody PROVE PatchKey(row, b) \in KeyRow
  <2>1. /\ Field(b.status, row.status) \in KeyStatus
        /\ Field(b.expiresAt, row.expiresAt) \in Nat \cup {NULL}
        /\ Field(b.rateLimit, row.rateLimit) \in RateLimits
    BY DEF Field, KeyRow, KeyBody
  <2>2. /\ Field(b.quotaTokens, row.quotaTokens) \in Int
        /\ Field(b.quotaReqs, row.quotaReqs) \in Int
        /\ Field(b.providerId, row.providerId) \in Providers \cup {NULL}
    BY DEF Field, KeyRow, KeyBody
  <2>3. row.usedTokens \in Nat /\ row.usedReqs \in Nat
    BY DEF KeyRow
  <2> QED BY <2>1, <2>2, <2>3 DEF PatchKey, KeyRow
<1>2. ASSUME NEW row \in ProviderRow, NEW b \in ProviderBody
      PROVE  PatchProvider(row, b) \in ProviderRow
  BY DEF PatchProvider, Field, ProviderRow, ProviderBody
<1>3. ASSUME NEW row \in ModelRow, NEW b \in ModelBody PROVE PatchModel(row, b) \in ModelRow
  BY DEF PatchModel, Field, ModelRow, ModelBody
<1> QED BY <1>1, <1>2, <1>3

(* The write halves find in a draft what the read halves put there. *)
LEMMA DraftTyped ==
  ASSUME AdminTypeOK, NEW a \in Admins, draft[a] # NULL
  PROVE  /\ draft[a].kind = "key" => draft[a] \in KeyDraft
         /\ draft[a].kind = "provider" => draft[a] \in ProviderDraft
         /\ draft[a].kind = "model" => draft[a] \in ModelDraft
         /\ draft[a].kind = "preset" => draft[a] \in PresetDraft
BY DEF AdminTypeOK, KeyDraft, ProviderDraft, ModelDraft, PresetDraft

(* The history of quotas is of natural numbers. *)
LEMMA HistoryTyped ==
  ASSUME NEW high \in Nat, NEW n \in Int
  PROVE  QuotaOf(n) \in Nat /\ Higher(high, n) \in Nat
BY DEF QuotaOf, Higher

(* A new key, made by the API or by bridagectl. *)
LEMMA AddKeyTyped ==
  ASSUME TypeOK, NEW k \in Keys, NEW row \in KeyRow, AddKey(k, row), edits' \in Nat
  PROVE  StoreTypeOK' /\ AdminTypeOK'
<1> USE DEF TypeOK
<1>1. [row EXCEPT !.usedTokens = 0, !.usedReqs = 0] \in KeyRow
  BY DEF KeyRow
<1>2. DOMAIN apiKeys' \subseteq Keys /\ apiKeys' \in [DOMAIN apiKeys' -> KeyRow]
  BY <1>1, WithTyped DEF AddKey, KeyCreate, StoreTypeOK
<1>3. QuotaOf(row.quotaReqs) \in Nat /\ QuotaOf(row.quotaTokens) \in Nat
  BY HistoryTyped DEF KeyRow
<1>4. highQuota' \in [Keys -> Nat] /\ highTokens' \in [Keys -> Nat]
  BY <1>3 DEF AddKey, AdminTypeOK
<1> QED BY <1>2, <1>4 DEF AddKey, KeyCreate, StoreTypeOK, AdminTypeOK

(* Going on to the next default model of a preset. *)
LEMMA NextDefaultTyped ==
  ASSUME AdminTypeOK, NEW a \in Admins, Editing(a, "preset"), NextDefaultModel(a),
         UNCHANGED <<edits, quotaHistory>>
  PROVE  AdminTypeOK'
<1>1. draft[a] \in PresetDraft
  BY DraftTyped DEF Editing
<1>2. draft[a].id \in Providers /\ draft[a].left \in Seq(Names) /\ draft[a].left # <<>>
  BY <1>1 DEF PresetDraft
<1>3. CASE Len(draft[a].left) = 1
  BY <1>3 DEF NextDefaultModel, AdminTypeOK, quotaHistory
<1>4. CASE Len(draft[a].left) # 1
  <2> DEFINE rest == [kind |-> "preset", id |-> draft[a].id, left |-> Tail(draft[a].left)]
  <2>1. Tail(draft[a].left) \in Seq(Names) /\ Len(Tail(draft[a].left)) # 0
    BY <1>2, <1>4
  <2>2. Tail(draft[a].left) # <<>>
    <3>1. Len(<<>>) = 0
      OBVIOUS
    <3> QED BY <2>1, <3>1, Zenon
  <2>3. rest \in PresetDraft
    BY <1>2, <2>1, <2>2 DEF PresetDraft
  <2>4. draft' = [draft EXCEPT ![a] = rest]
    BY <1>4 DEF NextDefaultModel
  <2> HIDE DEF rest
  <2> QED BY <2>3, <2>4 DEF AdminTypeOK, quotaHistory
<1> QED BY <1>3, <1>4

(* The steps of the management API. *)
LEMMA AdminTyped ==
  ASSUME TypeOK, AdminNext
  PROVE  StoreTypeOK' /\ AdminTypeOK'
<1> USE AdminAssumption DEF TypeOK, quotaHistory
<1>1. ASSUME NEW k \in Keys, CreateAPIKey(k) PROVE StoreTypeOK' /\ AdminTypeOK'
  BY <1>1, AddKeyTyped DEF CreateAPIKey, Edit, AdminTypeOK
<1>2. ASSUME NEW k \in Keys, DeleteAPIKey(k) PROVE StoreTypeOK' /\ AdminTypeOK'
  <2>1. DOMAIN apiKeys' \subseteq Keys /\ apiKeys' \in [DOMAIN apiKeys' -> KeyRow]
    BY <1>2, OnlyTyped DEF DeleteAPIKey, KeyDelete, StoreTypeOK
  <2>2. usageLogs' \in [Keys -> Tally]
    BY <1>2 DEF DeleteAPIKey, KeyDelete, StoreTypeOK, Tally, NoEntries
  <2>3. rules' \subseteq Rule
    BY <1>2 DEF DeleteAPIKey, KeyDelete, StoreTypeOK
  <2>4. UNCHANGED <<providers, models, issued, draft, quotaHistory>> /\ edits' = edits + 1
    BY <1>2 DEF DeleteAPIKey, Edit
  <2> QED BY <2>1, <2>2, <2>3, <2>4 DEF StoreTypeOK, AdminTypeOK
<1>3. ASSUME NEW k \in Keys, ReplaceRules(k) PROVE StoreTypeOK' /\ AdminTypeOK'
  BY <1>3 DEF ReplaceRules, SetModelRules, Edit, StoreTypeOK, AdminTypeOK
<1>4. ASSUME NEW p \in Providers, CreateProvider(p) PROVE StoreTypeOK' /\ AdminTypeOK'
  <2>1. DOMAIN providers' \subseteq Providers /\ providers' \in [DOMAIN providers' -> ProviderRow]
    <3>1. PICK row \in NewProviders : ProviderCreate(p, row)
      BY <1>4 DEF CreateProvider
    <3>2. providers' = With(providers, p, row) /\ row \in ProviderRow
      BY <3>1 DEF ProviderCreate
    <3> QED BY <3>2, WithTyped DEF StoreTypeOK
  <2> QED BY <1>4, <2>1 DEF CreateProvider, ProviderCreate, Edit, StoreTypeOK, AdminTypeOK
<1>5. ASSUME NEW p \in Providers, DeleteProvider(p) PROVE StoreTypeOK' /\ AdminTypeOK'
  <2> DEFINE lost == {m \in DOMAIN models : models[m].provider = p}
  <2>0. /\ providers' = Only(providers, Providers \ {p})
        /\ models' = Only(models, Models \ lost)
    BY <1>5 DEF DeleteProvider, ProviderDelete
  <2> HIDE DEF lost
  <2>1. DOMAIN providers' \subseteq Providers /\ providers' \in [DOMAIN providers' -> ProviderRow]
    BY <2>0, OnlyTyped DEF StoreTypeOK
  <2>2. DOMAIN models' \subseteq Models /\ models' \in [DOMAIN models' -> ModelRow]
    BY <2>0, OnlyTyped DEF StoreTypeOK
  <2>3. \A k \in DOMAIN apiKeys : [apiKeys[k] EXCEPT !.providerId = NULL] \in KeyRow
    BY DEF StoreTypeOK, KeyRow
  <2>4. DOMAIN apiKeys' \subseteq Keys /\ apiKeys' \in [DOMAIN apiKeys' -> KeyRow]
    BY <1>5, <2>3 DEF DeleteProvider, ProviderDelete, StoreTypeOK
  <2>5. rules' \subseteq Rule
    BY <1>5 DEF DeleteProvider, ProviderDelete, StoreTypeOK
  <2>6. UNCHANGED <<usageLogs, issued, draft, quotaHistory>> /\ edits' = edits + 1
    BY <1>5 DEF DeleteProvider, Edit
  <2> QED BY <2>1, <2>2, <2>4, <2>5, <2>6 DEF StoreTypeOK, AdminTypeOK
<1>6. ASSUME NEW m \in Models, CreateModel(m) PROVE StoreTypeOK' /\ AdminTypeOK'
  <2>1. DOMAIN models' \subseteq Models /\ models' \in [DOMAIN models' -> ModelRow]
    <3>1. PICK row \in NewModels : ModelCreate(m, row)
      BY <1>6 DEF CreateModel
    <3>2. models' = With(models, m, row) /\ row \in ModelRow
      BY <3>1 DEF ModelCreate
    <3> QED BY <3>2, WithTyped DEF StoreTypeOK
  <2> QED BY <1>6, <2>1 DEF CreateModel, ModelCreate, Edit, StoreTypeOK, AdminTypeOK
<1>7. ASSUME NEW m \in Models, DeleteModel(m) PROVE StoreTypeOK' /\ AdminTypeOK'
  <2>1. DOMAIN models' \subseteq Models /\ models' \in [DOMAIN models' -> ModelRow]
    <3>1. models' = Only(models, Models \ {m})
      BY <1>7 DEF DeleteModel, ModelDelete
    <3> QED BY <3>1, OnlyTyped DEF StoreTypeOK
  <2>2. rules' \subseteq Rule
    BY <1>7 DEF DeleteModel, ModelDelete, StoreTypeOK
  <2>3. UNCHANGED <<apiKeys, providers, usageLogs, issued, draft, quotaHistory>>
        /\ edits' = edits + 1
    BY <1>7 DEF DeleteModel, Edit
  <2> QED BY <2>1, <2>2, <2>3 DEF StoreTypeOK, AdminTypeOK
<1>8. ASSUME NEW a \in Admins, NEW k \in Keys, Begin(a, "key", k, apiKeys, KeyBodies)
      PROVE  StoreTypeOK' /\ AdminTypeOK'
  BY <1>8, StoreUnchanged DEF Begin, Edit, StoreTypeOK, AdminTypeOK, KeyDraft
<1>9. ASSUME NEW a \in Admins, NEW p \in Providers,
             Begin(a, "provider", p, providers, ProviderBodies)
      PROVE  StoreTypeOK' /\ AdminTypeOK'
  BY <1>9, StoreUnchanged DEF Begin, Edit, StoreTypeOK, AdminTypeOK, ProviderDraft
<1>10. ASSUME NEW a \in Admins, NEW m \in Models, Begin(a, "model", m, models, ModelBodies)
       PROVE  StoreTypeOK' /\ AdminTypeOK'
  BY <1>10, StoreUnchanged DEF Begin, Edit, StoreTypeOK, AdminTypeOK, ModelDraft
<1>11. ASSUME NEW a \in Admins, UpdateAPIKey(a) PROVE StoreTypeOK' /\ AdminTypeOK'
  <2> DEFINE copy == PatchKey(draft[a].row, draft[a].body)
  <2>1. draft[a] \in KeyDraft
    BY <1>11, DraftTyped DEF UpdateAPIKey, Editing
  <2>2. copy \in KeyRow
    BY <2>1, PatchTyped DEF KeyDraft
  <2>3. \A k \in DOMAIN apiKeys :
           [copy EXCEPT !.usedTokens = apiKeys[k].usedTokens,
                        !.usedReqs = apiKeys[k].usedReqs] \in KeyRow
    BY <2>2 DEF KeyRow, StoreTypeOK
  <2> HIDE DEF copy
  <2>4. KeyUpdate(draft[a].id, copy)
    BY <1>11 DEF UpdateAPIKey, copy
  <2>5. DOMAIN apiKeys' = DOMAIN apiKeys /\ apiKeys' \in [DOMAIN apiKeys -> KeyRow]
    BY <2>3, <2>4 DEF KeyUpdate, StoreTypeOK
  <2>6. copy.quotaReqs \in Int /\ copy.quotaTokens \in Int /\ draft[a].id \in Keys
    BY <2>1, <2>2 DEF KeyRow, KeyDraft
  <2>7. /\ highQuota' = [highQuota EXCEPT ![draft[a].id] = Higher(@, copy.quotaReqs)]
        /\ highTokens' = [highTokens EXCEPT ![draft[a].id] = Higher(@, copy.quotaTokens)]
    BY <1>11 DEF UpdateAPIKey, copy
  <2>8. highQuota' \in [Keys -> Nat] /\ highTokens' \in [Keys -> Nat]
    BY <2>6, <2>7, HistoryTyped DEF AdminTypeOK
  <2> QED BY <1>11, <2>5, <2>8 DEF UpdateAPIKey, Done, StoreTypeOK, AdminTypeOK
<1>12. ASSUME NEW a \in Admins, UpdateProvider(a) PROVE StoreTypeOK' /\ AdminTypeOK'
  <2> DEFINE copy == PatchProvider(draft[a].row, draft[a].body)
  <2>1. draft[a] \in ProviderDraft
    BY <1>12, DraftTyped DEF UpdateProvider, Editing
  <2>2. copy \in ProviderRow
    BY <2>1, PatchTyped DEF ProviderDraft
  <2> HIDE DEF copy
  <2>3. ProviderUpdate(draft[a].id, copy)
    BY <1>12 DEF UpdateProvider, copy
  <2>4. DOMAIN providers' = DOMAIN providers /\ providers' \in [DOMAIN providers -> ProviderRow]
    BY <2>2, <2>3 DEF ProviderUpdate, StoreTypeOK, ProviderRow
  <2> QED BY <1>12, <2>4 DEF UpdateProvider, Done, StoreTypeOK, AdminTypeOK
<1>13. ASSUME NEW a \in Admins, UpdateModel(a) PROVE StoreTypeOK' /\ AdminTypeOK'
  <2> DEFINE copy == PatchModel(draft[a].row, draft[a].body)
  <2>1. draft[a] \in ModelDraft
    BY <1>13, DraftTyped DEF UpdateModel, Editing
  <2>2. copy \in ModelRow
    BY <2>1, PatchTyped DEF ModelDraft
  <2> HIDE DEF copy
  <2>3. ModelUpdate(draft[a].id, copy)
    BY <1>13 DEF UpdateModel, copy
  <2>4. DOMAIN models' = DOMAIN models /\ models' \in [DOMAIN models -> ModelRow]
    BY <2>2, <2>3 DEF ModelUpdate, StoreTypeOK, ModelRow
  <2> QED BY <1>13, <2>4 DEF UpdateModel, Done, StoreTypeOK, AdminTypeOK
<1>14. ASSUME NEW a \in Admins, UpdateFails(a) PROVE StoreTypeOK' /\ AdminTypeOK'
  BY <1>14, StoreUnchanged DEF UpdateFails, Done, AdminTypeOK
<1>15. ASSUME NEW k \in Keys, CtlCreateKey(k) PROVE StoreTypeOK' /\ AdminTypeOK'
  <2>1. CtlKey \in KeyRow
    BY StoreAssumption DEF CtlKey, KeyRow, KeyStatus
  <2> QED BY <1>15, <2>1, AddKeyTyped DEF CtlCreateKey, Edit, AdminTypeOK
<1>16. ASSUME NEW a \in Admins, NEW p \in Providers, BootstrapPreset(a, p)
       PROVE  StoreTypeOK' /\ AdminTypeOK'
  <2>1. PICK preset \in Presets, on \in BOOLEAN :
           /\ ProviderCreate(p, [name |-> preset.slug, adapter |-> preset.adapter,
                                 enabled |-> on, secret |-> 0])
           /\ draft' = [draft EXCEPT ![a] = [kind |-> "preset", id |-> p, left |-> preset.models]]
    BY <1>16 DEF BootstrapPreset
  <2> DEFINE row == [name |-> preset.slug, adapter |-> preset.adapter, enabled |-> on, secret |-> 0]
  <2>2. row \in ProviderRow /\ [kind |-> "preset", id |-> p, left |-> preset.models] \in PresetDraft
    BY DEF ProviderRow, PresetDraft
  <2> HIDE DEF row
  <2>3. ProviderCreate(p, row)
    BY <2>1 DEF row
  <2>4. DOMAIN providers' \subseteq Providers /\ providers' \in [DOMAIN providers' -> ProviderRow]
    BY <2>2, <2>3, WithTyped DEF ProviderCreate, StoreTypeOK
  <2>5. issued' = issued \cup {p} /\ UNCHANGED <<apiKeys, models, rules, usageLogs>>
    BY <1>16, <2>3 DEF BootstrapPreset, ProviderCreate
  <2>6. StoreTypeOK'
    BY <2>4, <2>5 DEF StoreTypeOK
  <2>7. edits' = edits + 1 /\ UNCHANGED quotaHistory
    BY <1>16 DEF BootstrapPreset, Edit
  <2>8. draft' \in [Admins -> KeyDraft \cup ProviderDraft \cup ModelDraft \cup PresetDraft \cup {NULL}]
    BY <2>1, <2>2 DEF AdminTypeOK
  <2> QED BY <2>6, <2>7, <2>8 DEF AdminTypeOK
<1>17. ASSUME NEW a \in Admins, NEW m \in Models, DefaultModel(a, m)
       PROVE  StoreTypeOK' /\ AdminTypeOK'
  <2> DEFINE row == [provider |-> draft[a].id, name |-> Head(draft[a].left), enabled |-> TRUE]
  <2>1. draft[a] \in PresetDraft
    BY <1>17, DraftTyped DEF DefaultModel, Editing
  <2>2. row \in ModelRow
    BY <2>1 DEF PresetDraft, ModelRow
  <2> HIDE DEF row
  <2>3. ModelCreate(m, row)
    BY <1>17 DEF DefaultModel, row
  <2>4. DOMAIN models' \subseteq Models /\ models' \in [DOMAIN models' -> ModelRow]
    BY <2>2, <2>3, WithTyped DEF ModelCreate, StoreTypeOK
  <2>5. AdminTypeOK'
    BY <1>17, NextDefaultTyped DEF DefaultModel
  <2> QED BY <1>17, <2>3, <2>4, <2>5 DEF DefaultModel, ModelCreate, StoreTypeOK
<1>18. ASSUME NEW a \in Admins, DefaultModelFails(a) PROVE StoreTypeOK' /\ AdminTypeOK'
  BY <1>18, NextDefaultTyped, StoreUnchanged DEF DefaultModelFails
<1> QED BY <1>1, <1>2, <1>3, <1>4, <1>5, <1>6, <1>7, <1>8, <1>9, <1>10, <1>11, <1>12,
          <1>13, <1>14, <1>15, <1>16, <1>17, <1>18 DEF AdminNext

-----------------------------------------------------------------------------
(* Every variable of the server keeps its type, a call has its copy of the *)
(* key row, its route and its result at each step that reads them, and no  *)
(* update works on a draft of another table: for any number of workers,    *)
(* admins, keys and calls.                                                 *)
THEOREM TypeCorrect == Spec => []TypeOK
<1>1. TypeOK /\ [Next]_vars => TypeOK'
  <2> SUFFICES ASSUME TypeOK, [Next]_vars PROVE TypeOK'
    OBVIOUS
  <2>1. CASE RelayNext /\ UNCHANGED <<adminVars, crashes>>
    <3>1. StoreTypeOK' /\ RelayTypeOK'
      BY <2>1, HandlerTyped, EnvironmentTyped DEF RelayNext
    <3> QED BY <2>1, <3>1 DEF adminVars, quotaHistory, AdminTypeOK, TypeOK
  <2>2. CASE AdminNext /\ UNCHANGED <<relayVars, crashes>>
    <3>1. StoreTypeOK' /\ AdminTypeOK'
      BY <2>2, AdminTyped
    <3>2. RelayTypeOK'
      BY <2>2, LimiterUnchanged
      DEF TypeOK, RelayTypeOK, WorkTypeOK, relayVars, workVars, historyVars
    <3> QED BY <2>2, <3>1, <3>2 DEF TypeOK
  <2>3. CASE Crash
    <3>1. StoreTypeOK' /\ RelayTypeOK'
      BY <2>3, EnvironmentTyped DEF Crash
    <3> QED BY <2>3, <3>1 DEF Crash, quotaHistory, AdminTypeOK, TypeOK
  <2>4. CASE UNCHANGED vars
    <3>1. StoreTypeOK' /\ Limiter!RateTypeOK'
      BY <2>4, StoreUnchanged, LimiterUnchanged DEF TypeOK, RelayTypeOK, vars, relayVars
    <3> QED BY <2>4, <3>1 DEF vars, relayVars, workVars, historyVars, adminVars, quotaHistory, TypeOK,
              RelayTypeOK, WorkTypeOK, AdminTypeOK
  <2> QED BY <2>1, <2>2, <2>3, <2>4 DEF Next
<1> QED BY <1>1, InitTyped, PTL DEF Spec
-----------------------------------------------------------------------------
(* The catalog under edits: what is deleted stays deleted, no reference    *)
(* dangles, and a call keeps to one route.  All three rest on one fact     *)
(* about a step of the server, CatalogStep: rows appear only under ids     *)
(* that were never used, and a row that stays keeps its owner and adapter. *)

RowsIssued ==
  /\ DOMAIN apiKeys \subseteq issued
  /\ DOMAIN providers \subseteq issued
  /\ DOMAIN models \subseteq issued

CatalogStep ==
  /\ issued \subseteq issued'
  /\ DOMAIN apiKeys' \subseteq DOMAIN apiKeys \cup (issued' \ issued)
  /\ DOMAIN providers' \subseteq DOMAIN providers \cup (issued' \ issued)
  /\ DOMAIN models' \subseteq DOMAIN models \cup (issued' \ issued)
  /\ \A p \in DOMAIN providers \cap DOMAIN providers' :
        providers'[p].adapter = providers[p].adapter
  /\ \A m \in DOMAIN models \cap DOMAIN models' :
        models'[m].provider = models[m].provider

(* A statement that changes the rows of keys, or of no table of these. *)
LEMMA CatalogUnchanged ==
  ASSUME UNCHANGED <<providers, models, issued>>, DOMAIN apiKeys' \subseteq DOMAIN apiKeys
  PROVE  CatalogStep
BY DEF CatalogStep

(* INSERT of a key, of a provider, of a model. *)
LEMMA KeyCreateStep ==
  ASSUME NEW k, NEW row, KeyCreate(k, row), UNCHANGED <<providers, models>>
  PROVE  CatalogStep
BY DEF CatalogStep, KeyCreate, With

LEMMA ProviderCreateStep ==
  ASSUME RowsIssued, NEW p, NEW row, ProviderCreate(p, row), UNCHANGED <<apiKeys, models>>
  PROVE  CatalogStep
BY DEF CatalogStep, ProviderCreate, With, RowsIssued

LEMMA ModelCreateStep ==
  ASSUME RowsIssued, NEW m, NEW row, ModelCreate(m, row), UNCHANGED <<apiKeys, providers>>
  PROVE  CatalogStep
BY DEF CatalogStep, ModelCreate, With, RowsIssued

(* UPDATE of a provider or a model sets neither adapter_type nor provider_id. *)
LEMMA ProviderUpdateStep ==
  ASSUME NEW p, NEW copy, ProviderUpdate(p, copy), TypeOK, UNCHANGED <<apiKeys, models, issued>>
  PROVE  CatalogStep
BY DEF CatalogStep, ProviderUpdate, TypeOK, StoreTypeOK, ProviderRow

LEMMA ModelUpdateStep ==
  ASSUME NEW m, NEW copy, ModelUpdate(m, copy), TypeOK, UNCHANGED <<apiKeys, providers, issued>>
  PROVE  CatalogStep
BY DEF CatalogStep, ModelUpdate, TypeOK, StoreTypeOK, ModelRow

(* A relay call touches no row of the catalog and creates no key. *)
LEMMA RelayCatalogStep ==
  ASSUME RelayNext \/ RelayCrash
  PROVE  UNCHANGED <<providers, models, rules, issued>> /\ DOMAIN apiKeys' = DOMAIN apiKeys
<1>1. ASSUME NEW w \in Workers, Handler(w)
      PROVE  UNCHANGED <<providers, models, rules, issued>> /\ DOMAIN apiKeys' = DOMAIN apiKeys
  <2>1. CASE IncrementQuota(w)
    BY <2>1 DEF IncrementQuota, IncrementUsage
  <2>2. CASE RecordUsage(w)
    BY <2>2 DEF RecordUsage
  <2>3. CASE ~IncrementQuota(w) /\ ~RecordUsage(w)
    <3>1. UNCHANGED storeVars
      BY <1>1, <2>3 DEF Handler, Abort, Authenticate, BindFails, Admit, RateLimited, FindModel,
         ModelNotFound, CheckRules, GetAdapter, UpstreamAnswers, UpstreamFails, StreamOpens,
         StreamEnds
    <3> QED BY <3>1 DEF storeVars
  <2> QED BY <2>1, <2>2, <2>3
<1>2. ASSUME NEW w \in Workers, Receive(w) \/ ClientGone(w) \/ StreamChunk(w)
      PROVE  UNCHANGED storeVars
  BY <1>2 DEF Receive, ClientGone, StreamChunk
<1>3. ASSUME Tick \/ RelayCrash PROVE UNCHANGED storeVars
  BY <1>3 DEF Tick, RelayCrash
<1> QED BY <1>1, <1>2, <1>3 DEF RelayNext, storeVars

(* The management API. *)
LEMMA AdminCatalogStep ==
  ASSUME TypeOK, RowsIssued, AdminNext
  PROVE  CatalogStep
<1>1. ASSUME NEW k \in Keys, CreateAPIKey(k) \/ CtlCreateKey(k) PROVE CatalogStep
  BY <1>1, KeyCreateStep DEF CreateAPIKey, CtlCreateKey, AddKey
<1>2. ASSUME NEW k \in Keys, DeleteAPIKey(k) PROVE CatalogStep
  BY <1>2 DEF DeleteAPIKey, KeyDelete, Only, CatalogStep
<1>3. ASSUME NEW k \in Keys, ReplaceRules(k) PROVE CatalogStep
  BY <1>3, CatalogUnchanged DEF ReplaceRules
<1>4. ASSUME NEW p \in Providers, CreateProvider(p) PROVE CatalogStep
  BY <1>4, ProviderCreateStep DEF CreateProvider
<1>5. ASSUME NEW p \in Providers, DeleteProvider(p) PROVE CatalogStep
  BY <1>5 DEF DeleteProvider, ProviderDelete, Only, CatalogStep
<1>6. ASSUME NEW m \in Models, CreateModel(m) PROVE CatalogStep
  BY <1>6, ModelCreateStep DEF CreateModel
<1>7. ASSUME NEW m \in Models, DeleteModel(m) PROVE CatalogStep
  BY <1>7 DEF DeleteModel, ModelDelete, Only, CatalogStep
<1>8. ASSUME NEW a \in Admins, UpdateAPIKey(a) PROVE CatalogStep
  BY <1>8, CatalogUnchanged DEF UpdateAPIKey, KeyUpdate
<1>9. ASSUME NEW a \in Admins, UpdateProvider(a) PROVE CatalogStep
  BY <1>9, ProviderUpdateStep DEF UpdateProvider
<1>10. ASSUME NEW a \in Admins, UpdateModel(a) PROVE CatalogStep
  BY <1>10, ModelUpdateStep DEF UpdateModel
<1>11. ASSUME NEW a \in Admins, NEW p \in Providers, BootstrapPreset(a, p) PROVE CatalogStep
  BY <1>11, ProviderCreateStep DEF BootstrapPreset
<1>12. ASSUME NEW a \in Admins, NEW m \in Models, DefaultModel(a, m) PROVE CatalogStep
  BY <1>12, ModelCreateStep DEF DefaultModel
<1>13. ASSUME NEW a \in Admins,
              \/ \E k \in Keys : Begin(a, "key", k, apiKeys, KeyBodies)
              \/ \E p \in Providers : Begin(a, "provider", p, providers, ProviderBodies)
              \/ \E m \in Models : Begin(a, "model", m, models, ModelBodies)
              \/ UpdateFails(a) \/ DefaultModelFails(a)
       PROVE  CatalogStep
  <2>1. UNCHANGED storeVars
    BY <1>13 DEF Begin, UpdateFails, DefaultModelFails
  <2> QED BY <2>1, CatalogUnchanged DEF storeVars
<1> QED BY <1>1, <1>2, <1>3, <1>4, <1>5, <1>6, <1>7, <1>8, <1>9, <1>10, <1>11, <1>12, <1>13
        DEF AdminNext

(* Every step of the server. *)
LEMMA ServerCatalogStep ==
  ASSUME TypeOK, RowsIssued, [Next]_vars
  PROVE  CatalogStep
<1>1. CASE RelayNext \/ Crash
  BY <1>1, RelayCatalogStep, CatalogUnchanged DEF Crash
<1>2. CASE AdminNext
  BY <1>2, AdminCatalogStep
<1>3. CASE UNCHANGED vars
  BY <1>3, CatalogUnchanged DEF vars, storeVars
<1> QED BY <1>1, <1>2, <1>3 DEF Next

(* No row is there whose id was not given out. *)
THEOREM IdsIssued == Spec => []RowsIssued
<1>1. Init => RowsIssued
  BY DEF Init, RowsIssued
<1>2. TypeOK /\ RowsIssued /\ [Next]_vars => RowsIssued'
  BY ServerCatalogStep DEF CatalogStep, RowsIssued
<1> QED BY <1>1, <1>2, TypeCorrect, PTL DEF Spec

(* What is deleted stays deleted, whatever updates, charges and entries    *)
(* were already on their way when it was.                                  *)
THEOREM NothingComesBack == Spec => DeletedStaysDeleted
<1>1. ASSUME TypeOK, RowsIssued, [Next]_vars
      PROVE  issued \ (DOMAIN apiKeys \cup DOMAIN providers \cup DOMAIN models)
               \subseteq issued' \ (DOMAIN apiKeys' \cup DOMAIN providers' \cup DOMAIN models')
  BY <1>1, ServerCatalogStep DEF CatalogStep
<1> QED BY <1>1, TypeCorrect, IdsIssued, PTL DEF Spec, DeletedStaysDeleted

-----------------------------------------------------------------------------
(* The references, table by table. *)
ModelsOwned == \A m \in DOMAIN models : models[m].provider \in DOMAIN providers
RulesBound == \A r \in rules : r.key \in DOMAIN apiKeys /\ r.model \in DOMAIN models
EntriesOwned == \A k \in Keys : usageLogs[k] # NoEntries => k \in DOMAIN apiKeys
PinsHold == \A k \in DOMAIN apiKeys : RefersTo(apiKeys[k].providerId, providers)

LEMMA ForeignKeysParts ==
  ForeignKeysHold <=> ModelsOwned /\ RulesBound /\ EntriesOwned /\ PinsHold
BY DEF ForeignKeysHold, ModelsOwned, RulesBound, EntriesOwned, PinsHold

(* A usage entry is appended for a key that is there, and a charge changes *)
(* neither the ids nor the pins of the keys.                               *)
LEMMA RelayKeepsReferences ==
  ASSUME TypeOK, ForeignKeysHold, RelayNext \/ RelayCrash
  PROVE  ForeignKeysHold'
<1>1. ModelsOwned' /\ RulesBound'
  BY RelayCatalogStep, ForeignKeysParts DEF ModelsOwned, RulesBound
<1>2. EntriesOwned' /\ PinsHold'
  <2>1. ASSUME NEW w \in Workers, RecordUsage(w) PROVE EntriesOwned' /\ PinsHold'
    <3>1. CASE CanAppend(call[w].key) /\ UsageAppend(call[w].key, result[w].ok, result[w].tokens)
      BY <2>1, <3>1, ForeignKeysParts
      DEF RecordUsage, CanAppend, UsageAppend, EntriesOwned, PinsHold, TypeOK, StoreTypeOK
    <3>2. CASE UNCHANGED usageLogs
      BY <2>1, <3>2, ForeignKeysParts DEF RecordUsage, EntriesOwned, PinsHold
    <3> QED BY <2>1, <3>1, <3>2 DEF RecordUsage
  <2>2. ASSUME NEW w \in Workers, IncrementQuota(w) PROVE EntriesOwned' /\ PinsHold'
    <3>1. \A k \in DOMAIN apiKeys : apiKeys'[k].providerId = apiKeys[k].providerId
      BY <2>2 DEF IncrementQuota, IncrementUsage, TypeOK, StoreTypeOK, KeyRow
    <3>2. DOMAIN apiKeys' = DOMAIN apiKeys /\ UNCHANGED <<providers, usageLogs>>
      BY <2>2 DEF IncrementQuota, IncrementUsage
    <3> QED BY <3>1, <3>2, ForeignKeysParts DEF EntriesOwned, PinsHold, RefersTo
  <2>3. ASSUME UNCHANGED storeVars PROVE EntriesOwned' /\ PinsHold'
    BY <2>3, ForeignKeysParts DEF storeVars, EntriesOwned, PinsHold, RefersTo
  <2>4. \/ UNCHANGED storeVars
        \/ \E w \in Workers : RecordUsage(w) \/ IncrementQuota(w)
    <3>1. ASSUME NEW w \in Workers, Handler(w), ~RecordUsage(w), ~IncrementQuota(w)
          PROVE  UNCHANGED storeVars
      BY <3>1 DEF Handler, Abort, Authenticate, BindFails, Admit, RateLimited, FindModel,
         ModelNotFound, CheckRules, GetAdapter, UpstreamAnswers, UpstreamFails, StreamOpens,
         StreamEnds
    <3> QED BY <3>1 DEF RelayNext, Receive, ClientGone, StreamChunk, Tick, RelayCrash
  <2> QED BY <2>1, <2>2, <2>3, <2>4
<1> QED BY <1>1, <1>2, ForeignKeysParts DEF ForeignKeysHold, ModelsOwned, RulesBound, EntriesOwned, PinsHold

(* The statements of the management API, with the cascades of the schema. *)
LEMMA KeyCreateKeeps ==
  ASSUME ForeignKeysHold, NEW k, NEW row, row \in KeyRow, KeyCreate(k, row),
         UNCHANGED <<providers, models, rules, usageLogs>>
  PROVE  ForeignKeysHold'
<1>1. [row EXCEPT !.usedTokens = 0, !.usedReqs = 0].providerId = row.providerId
  BY DEF KeyRow
<1> QED BY <1>1 DEF KeyCreate, With, ForeignKeysHold, RefersTo

LEMMA ProviderCreateKeeps ==
  ASSUME ForeignKeysHold, NEW p, NEW row, ProviderCreate(p, row),
         UNCHANGED <<apiKeys, models, rules, usageLogs>>
  PROVE  ForeignKeysHold'
BY DEF ProviderCreate, With, ForeignKeysHold, RefersTo

LEMMA ModelCreateKeeps ==
  ASSUME ForeignKeysHold, NEW m, NEW row, ModelCreate(m, row),
         UNCHANGED <<apiKeys, providers, rules, usageLogs>>
  PROVE  ForeignKeysHold'
BY DEF ModelCreate, With, ForeignKeysHold, RefersTo

LEMMA KeyDeleteKeeps ==
  ASSUME TypeOK, ForeignKeysHold, NEW k \in Keys, KeyDelete(k), UNCHANGED <<providers, models>>
  PROVE  ForeignKeysHold'
<1>1. DOMAIN apiKeys' = DOMAIN apiKeys \ {k}
      /\ \A i \in DOMAIN apiKeys' : apiKeys'[i] = apiKeys[i]
  BY DEF KeyDelete, Only, TypeOK, StoreTypeOK
<1>2. rules' = {r \in rules : r.key # k}
      /\ usageLogs' = [usageLogs EXCEPT ![k] = NoEntries] /\ usageLogs \in [Keys -> Tally]
  BY DEF KeyDelete, TypeOK, StoreTypeOK
<1> QED BY <1>1, <1>2 DEF ForeignKeysHold, RefersTo

LEMMA ModelDeleteKeeps ==
  ASSUME TypeOK, ForeignKeysHold, NEW m \in Models, ModelDelete(m),
         UNCHANGED <<apiKeys, providers, usageLogs>>
  PROVE  ForeignKeysHold'
<1>1. DOMAIN models' = DOMAIN models \ {m}
      /\ \A i \in DOMAIN models' : models'[i] = models[i]
  BY DEF ModelDelete, Only, TypeOK, StoreTypeOK
<1> QED BY <1>1 DEF ModelDelete, ForeignKeysHold, RefersTo

LEMMA ProviderDeleteKeeps ==
  ASSUME TypeOK, ForeignKeysHold, NEW p \in Providers, ProviderDelete(p), UNCHANGED usageLogs
  PROVE  ForeignKeysHold'
<1>1. DOMAIN providers' = DOMAIN providers \ {p}
  BY DEF ProviderDelete, Only, TypeOK, StoreTypeOK
<1>2. /\ DOMAIN models' = {m \in DOMAIN models : models[m].provider # p}
      /\ \A m \in DOMAIN models' : models'[m] = models[m]
  BY DEF ProviderDelete, Only, TypeOK, StoreTypeOK
<1>3. rules' = {r \in rules : ~(r.model \in DOMAIN models /\ models[r.model].provider = p)}
  BY DEF ProviderDelete
<1>4. /\ DOMAIN apiKeys' = DOMAIN apiKeys
      /\ \A k \in DOMAIN apiKeys :
            apiKeys'[k].providerId = IF apiKeys[k].providerId = p THEN NULL ELSE apiKeys[k].providerId
  BY DEF ProviderDelete, TypeOK, StoreTypeOK, KeyRow
<1> QED BY <1>1, <1>2, <1>3, <1>4 DEF ForeignKeysHold, RefersTo

LEMMA UpdatesKeep ==
  ASSUME TypeOK, ForeignKeysHold, NEW a \in Admins,
         UpdateAPIKey(a) \/ UpdateProvider(a) \/ UpdateModel(a)
  PROVE  ForeignKeysHold'
<1>1. CASE UpdateAPIKey(a)
  <2> DEFINE copy == PatchKey(draft[a].row, draft[a].body)
  <2>1. /\ DOMAIN apiKeys' = DOMAIN apiKeys /\ draft[a].id \in DOMAIN apiKeys
        /\ \A k \in DOMAIN apiKeys : k # draft[a].id => apiKeys'[k] = apiKeys[k]
        /\ apiKeys'[draft[a].id].providerId = copy.providerId
        /\ RefersTo(copy.providerId, providers)
        /\ UNCHANGED <<providers, models, rules, usageLogs>>
    BY <1>1 DEF UpdateAPIKey, KeyUpdate, PatchKey
  <2> HIDE DEF copy
  <2> QED BY <2>1 DEF ForeignKeysHold, RefersTo
<1>2. CASE UpdateProvider(a)
  <2>1. DOMAIN providers' = DOMAIN providers /\ UNCHANGED <<apiKeys, models, rules, usageLogs>>
    BY <1>2 DEF UpdateProvider, ProviderUpdate
  <2> QED BY <2>1 DEF ForeignKeysHold, RefersTo
<1>3. CASE UpdateModel(a)
  <2>1. DOMAIN models' = DOMAIN models /\ UNCHANGED <<apiKeys, providers, rules, usageLogs>>
    BY <1>3 DEF UpdateModel, ModelUpdate
  <2>2. \A m \in DOMAIN models : models'[m].provider = models[m].provider
    BY <1>3 DEF UpdateModel, ModelUpdate, TypeOK, StoreTypeOK, ModelRow
  <2> QED BY <2>1, <2>2 DEF ForeignKeysHold, RefersTo
<1> QED BY <1>1, <1>2, <1>3

LEMMA AdminKeepsReferences ==
  ASSUME TypeOK, ForeignKeysHold, AdminNext
  PROVE  ForeignKeysHold'
<1>1. ASSUME NEW k \in Keys, CreateAPIKey(k) \/ CtlCreateKey(k) PROVE ForeignKeysHold'
  <2>1. \A row \in NewKeys : row \in KeyRow
    BY AdminAssumption
  <2>2. CtlKey \in KeyRow
    BY StoreAssumption DEF CtlKey, KeyRow, KeyStatus
  <2> QED BY <1>1, <2>1, <2>2, KeyCreateKeeps DEF CreateAPIKey, CtlCreateKey, AddKey
<1>2. ASSUME NEW k \in Keys, DeleteAPIKey(k) PROVE ForeignKeysHold'
  BY <1>2, KeyDeleteKeeps DEF DeleteAPIKey
<1>3. ASSUME NEW k \in Keys, ReplaceRules(k) PROVE ForeignKeysHold'
  BY <1>3 DEF ReplaceRules, SetModelRules, ForeignKeysHold, RefersTo
<1>4. ASSUME NEW p \in Providers, CreateProvider(p) PROVE ForeignKeysHold'
  BY <1>4, ProviderCreateKeeps DEF CreateProvider
<1>5. ASSUME NEW p \in Providers, DeleteProvider(p) PROVE ForeignKeysHold'
  BY <1>5, ProviderDeleteKeeps DEF DeleteProvider
<1>6. ASSUME NEW m \in Models, CreateModel(m) PROVE ForeignKeysHold'
  BY <1>6, ModelCreateKeeps DEF CreateModel
<1>7. ASSUME NEW m \in Models, DeleteModel(m) PROVE ForeignKeysHold'
  BY <1>7, ModelDeleteKeeps DEF DeleteModel
<1>8. ASSUME NEW a \in Admins, UpdateAPIKey(a) \/ UpdateProvider(a) \/ UpdateModel(a)
      PROVE  ForeignKeysHold'
  BY <1>8, UpdatesKeep
<1>9. ASSUME NEW a \in Admins, NEW p \in Providers, BootstrapPreset(a, p) PROVE ForeignKeysHold'
  BY <1>9, ProviderCreateKeeps DEF BootstrapPreset
<1>10. ASSUME NEW a \in Admins, NEW m \in Models, DefaultModel(a, m) PROVE ForeignKeysHold'
  BY <1>10, ModelCreateKeeps DEF DefaultModel
<1>11. ASSUME UNCHANGED storeVars PROVE ForeignKeysHold'
  BY <1>11 DEF storeVars, ForeignKeysHold, RefersTo
<1>12. ASSUME NEW a \in Admins,
              \/ \E k \in Keys : Begin(a, "key", k, apiKeys, KeyBodies)
              \/ \E p \in Providers : Begin(a, "provider", p, providers, ProviderBodies)
              \/ \E m \in Models : Begin(a, "model", m, models, ModelBodies)
              \/ UpdateFails(a) \/ DefaultModelFails(a)
       PROVE  ForeignKeysHold'
  BY <1>11, <1>12 DEF Begin, UpdateFails, DefaultModelFails
<1> QED BY <1>1, <1>2, <1>3, <1>4, <1>5, <1>6, <1>7, <1>8, <1>9, <1>10, <1>12 DEF AdminNext

(* The references of the schema hold after every sequence of edits and     *)
(* around every call in flight, with any number of each.                   *)
THEOREM NoDanglingReference == Spec => []ForeignKeysHold
<1>1. Init => ForeignKeysHold
  BY SetupAssumption DEF Init, ForeignKeysHold, RefersTo
<1>2. TypeOK /\ ForeignKeysHold /\ [Next]_vars => ForeignKeysHold'
  <2> SUFFICES ASSUME TypeOK, ForeignKeysHold, [Next]_vars PROVE ForeignKeysHold'
    OBVIOUS
  <2>1. CASE RelayNext \/ Crash
    BY <2>1, RelayKeepsReferences DEF Crash
  <2>2. CASE AdminNext
    BY <2>2, AdminKeepsReferences
  <2>3. CASE UNCHANGED vars
    BY <2>3 DEF vars, storeVars, ForeignKeysHold, RefersTo
  <2> QED BY <2>1, <2>2, <2>3 DEF Next
<1> QED BY <1>1, <1>2, TypeCorrect, PTL DEF Spec

-----------------------------------------------------------------------------
(* What a call has resolved stays true of the catalog as long as the rows  *)
(* exist.  It is inductive once the ids are known to be given out: a row   *)
(* that is gone cannot come back with another owner or adapter.            *)
Routed == {"rules", "adapter", "upstream", "streaming", "record", "charge"}

RouteHolds(w) ==
  LET m == target[w].model
      p == target[w].provider
  IN  /\ snap[w].providerId # NULL => p = snap[w].providerId
      /\ m \in DOMAIN models => models[m].provider = p
      /\ (p \in DOMAIN providers /\ target[w].adapter # NULL)
           => target[w].adapter = providers[p].adapter

RouteInv ==
  \A w \in Workers : pc[w] \in Routed =>
     target[w].model \in issued /\ target[w].provider \in issued /\ RouteHolds(w)

(* A call that keeps its route keeps it right, whatever the step did to    *)
(* the catalog.                                                            *)
LEMMA RouteKept ==
  ASSUME RouteInv, CatalogStep, NEW w \in Workers, pc[w] \in Routed,
         target'[w] = target[w], snap'[w] = snap[w]
  PROVE  target'[w].model \in issued' /\ target'[w].provider \in issued' /\ RouteHolds(w)'
<1> DEFINE m == target[w].model
           p == target[w].provider
<1>1. m \in issued /\ p \in issued /\ RouteHolds(w)
  BY DEF RouteInv
<1>2. m \in DOMAIN models' => m \in DOMAIN models /\ models'[m].provider = models[m].provider
  BY <1>1 DEF CatalogStep
<1>3. p \in DOMAIN providers'
        => p \in DOMAIN providers /\ providers'[p].adapter = providers[p].adapter
  BY <1>1 DEF CatalogStep
<1>4. issued \subseteq issued'
  BY DEF CatalogStep
<1> QED BY <1>1, <1>2, <1>3, <1>4 DEF RouteHolds

(* Two steps give a call a route; the others keep it or end the call. *)
LEMMA HandlerRoutes ==
  ASSUME TypeOK, NEW v \in Workers, Handler(v), ~FindModel(v), ~GetAdapter(v),
         NEW w \in Workers, pc'[w] \in Routed
  PROVE  pc[w] \in Routed /\ target'[w] = target[w] /\ snap'[w] = snap[w]
<1> USE DEF TypeOK, RelayTypeOK, WorkTypeOK, Goto, Routed
<1>1. CASE Finish(v)
  BY <1>1 DEF Finish
<1>2. CASE ~Finish(v)
  <2>1. CASE Authenticate(v)
    BY <1>2, <2>1 DEF Authenticate
  <2>2. CASE Admit(v)
    BY <1>2, <2>2 DEF Admit
  <2>3. CASE CheckRules(v)
    BY <1>2, <2>3 DEF CheckRules
  <2>4. CASE RecordUsage(v)
    BY <1>2, <2>4 DEF RecordUsage
  <2>5. CASE UpstreamAnswers(v) \/ UpstreamFails(v) \/ StreamOpens(v) \/ StreamEnds(v)
    BY <2>5 DEF UpstreamAnswers, UpstreamFails, StreamOpens, StreamEnds
  <2> QED BY <1>2, <2>1, <2>2, <2>3, <2>4, <2>5
      DEF Handler, Abort, BindFails, RateLimited, ModelNotFound, IncrementQuota
<1> QED BY <1>1, <1>2

(* The first query of a route: the model is there, and its provider too. *)
LEMMA FindModelRoutes ==
  ASSUME TypeOK, RowsIssued, ForeignKeysHold, RouteInv, NEW v \in Workers, FindModel(v)
  PROVE  RouteInv'
<1>1. PICK m \in Candidates(call[v].name) :
         /\ PinAllows(snap[v], m)
         /\ target' = [target EXCEPT ![v] =
                         [model |-> m, provider |-> models[m].provider, adapter |-> NULL]]
  BY DEF FindModel
<1>2. m \in DOMAIN models /\ models[m].provider \in DOMAIN providers
  BY <1>1 DEF Candidates, ListAll, ForeignKeysHold
<1>3. m \in issued /\ models[m].provider \in issued
  BY <1>2 DEF RowsIssued
<1>4. UNCHANGED <<snap, models, providers, issued>> /\ DOMAIN apiKeys' = DOMAIN apiKeys
      /\ pc' = [pc EXCEPT ![v] = "rules"]
  BY DEF FindModel, Goto, storeVars
<1>5. target \in [Workers -> Target \cup {NULL}] /\ pc \in [Workers -> Locations]
  BY DEF TypeOK, RelayTypeOK, WorkTypeOK
<1>6. target'[v] = [model |-> m, provider |-> models[m].provider, adapter |-> NULL]
  BY <1>1, <1>5
<1>7. /\ target'[v].model \in issued' /\ target'[v].provider \in issued'
      /\ RouteHolds(v)'
  BY <1>1, <1>2, <1>3, <1>4, <1>6 DEF RouteHolds, PinAllows
<1>8. ASSUME NEW w \in Workers, w # v, pc'[w] \in Routed
      PROVE  target'[w].model \in issued' /\ target'[w].provider \in issued' /\ RouteHolds(w)'
  <2>1. pc[w] \in Routed /\ target'[w] = target[w] /\ snap'[w] = snap[w]
    BY <1>1, <1>4, <1>5, <1>8
  <2> QED BY <1>4, <2>1, CatalogUnchanged, RouteKept
<1> QED BY <1>7, <1>8 DEF RouteInv

(* The last one: the adapter is the one of the provider's row. *)
LEMMA GetAdapterRoutes ==
  ASSUME TypeOK, RouteInv, NEW v \in Workers, GetAdapter(v)
  PROVE  RouteInv'
<1>1. UNCHANGED <<models, providers, issued>> /\ DOMAIN apiKeys' = DOMAIN apiKeys
  BY DEF GetAdapter, storeVars
<1>2. /\ target \in [Workers -> Target \cup {NULL}] /\ pc \in [Workers -> Locations]
      /\ snap \in [Workers -> KeyRow \cup {NULL}]
  BY DEF TypeOK, RelayTypeOK, WorkTypeOK
<1>3. ASSUME NEW w \in Workers, w # v, pc'[w] \in Routed
      PROVE  target'[w].model \in issued' /\ target'[w].provider \in issued' /\ RouteHolds(w)'
  <2>1. pc[w] \in Routed /\ target'[w] = target[w] /\ snap'[w] = snap[w]
    BY <1>2, <1>3 DEF GetAdapter, Finish, Goto
  <2> QED BY <1>1, <2>1, CatalogUnchanged, RouteKept
<1>4. ASSUME pc'[v] \in Routed
      PROVE  target'[v].model \in issued' /\ target'[v].provider \in issued' /\ RouteHolds(v)'
  <2> DEFINE p == target[v].provider
  <2>1. /\ p \in DOMAIN providers
        /\ target' = [target EXCEPT ![v].adapter = providers[p].adapter]
        /\ snap' = snap /\ pc[v] = "adapter"
    BY <1>2, <1>4 DEF GetAdapter, Finish, Goto, Routed
  <2>2. target[v] \in Target
    BY <2>1 DEF TypeOK, RelayTypeOK, WorkTypeOK
  <2>3. /\ target'[v].adapter = providers[p].adapter
        /\ target'[v].model = target[v].model /\ target'[v].provider = p
    BY <1>2, <2>1, <2>2 DEF Target
  <2>4. target[v].model \in issued /\ p \in issued /\ RouteHolds(v)
    BY <2>1 DEF RouteInv, Routed
  <2> HIDE DEF p
  <2>5. RouteHolds(v)'
    BY <1>1, <2>1, <2>3, <2>4 DEF RouteHolds, p
  <2> QED BY <1>1, <2>3, <2>4, <2>5
<1> QED BY <1>3, <1>4 DEF RouteInv

(* Calls follow the catalog as they read it: to the provider that owns the *)
(* model, through that provider's adapter, within the pin of the key,      *)
(* however the catalog is edited between and after the queries.            *)
THEOREM RoutesFollowCatalog == Spec => []CallFollowsCatalog
<1>1. Init => RouteInv
  BY DEF Init, RelayInit, RouteInv, Routed
<1>2. TypeOK /\ RowsIssued /\ ForeignKeysHold /\ RouteInv /\ [Next]_vars => RouteInv'
  <2> SUFFICES ASSUME TypeOK, RowsIssued, ForeignKeysHold, RouteInv, [Next]_vars PROVE RouteInv'
    OBVIOUS
  <2>1. CatalogStep
    BY ServerCatalogStep
  <2>2. ASSUME NEW v \in Workers, FindModel(v) \/ GetAdapter(v) PROVE RouteInv'
    BY <2>2, FindModelRoutes, GetAdapterRoutes
  <2>3. ASSUME NEW v \in Workers, Handler(v), ~FindModel(v), ~GetAdapter(v) PROVE RouteInv'
    <3> SUFFICES ASSUME NEW w \in Workers, pc'[w] \in Routed
                 PROVE  target'[w].model \in issued' /\ target'[w].provider \in issued'
                        /\ RouteHolds(w)'
      BY DEF RouteInv
    <3> QED BY <2>1, <2>3, HandlerRoutes, RouteKept
  <2>4. ASSUME NEW v \in Workers, Receive(v) \/ ClientGone(v) \/ StreamChunk(v) PROVE RouteInv'
    <3> SUFFICES ASSUME NEW w \in Workers, pc'[w] \in Routed
                 PROVE  target'[w].model \in issued' /\ target'[w].provider \in issued'
                        /\ RouteHolds(w)'
      BY DEF RouteInv
    <3>1. pc[w] \in Routed /\ target'[w] = target[w] /\ snap'[w] = snap[w]
      BY <2>4 DEF Receive, ClientGone, StreamChunk, Goto, Routed, TypeOK, RelayTypeOK, WorkTypeOK
    <3> QED BY <2>1, <3>1, RouteKept
  <2>5. ASSUME UNCHANGED workVars PROVE RouteInv'
    <3>1. ASSUME NEW w \in Workers, pc'[w] \in Routed
          PROVE  target'[w].model \in issued' /\ target'[w].provider \in issued'
                 /\ RouteHolds(w)'
      BY <2>1, <2>5, <3>1, RouteKept DEF workVars
    <3> QED BY <3>1 DEF RouteInv
  <2>6. CASE Crash
    BY <2>6 DEF Crash, RelayCrash, RouteInv, Routed
  <2>7. UNCHANGED workVars \/ Crash \/ \E v \in Workers :
           Receive(v) \/ ClientGone(v) \/ StreamChunk(v) \/ Handler(v)
    BY DEF Next, RelayNext, Tick, vars, relayVars
  <2> QED BY <2>2, <2>3, <2>4, <2>5, <2>6, <2>7
<1>3. RouteInv => CallFollowsCatalog
  BY DEF RouteInv, RouteHolds, Routed, CallFollowsCatalog
<1> QED BY <1>1, <1>2, <1>3, TypeCorrect, IdsIssued, NoDanglingReference, PTL DEF Spec
=============================================================================
