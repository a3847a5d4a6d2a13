--------------------------------- MODULE Admin ---------------------------------
(***************************************************************************)
(* The management API, internal/admin/handlers.go, for API keys, providers *)
(* and models.  A create or a delete is one statement.  An update reads    *)
(* the row, lays the fields the body names over the copy, and writes every *)
(* mutable column back: two statements, outside any transaction, with      *)
(* whatever else happens to the row in between.                            *)
(***************************************************************************)
EXTENDS Store, Sequences

CONSTANTS
  Admins,           \* admin requests that can be in progress at the same time
  NewKeys,          \* rows POST /keys may ask for
  NewProviders,     \* rows POST /providers may ask for
  NewModels,        \* rows POST /models may ask for
  Presets,          \* built-in presets: [slug, adapter, models]
  KeyBodies,        \* bodies of PUT /keys/:id, absent fields NULL
  ProviderBodies,   \* bodies of PUT /providers/:id
  ModelBodies,      \* bodies of PUT /models/:id
  RuleSets,         \* rule sets an operator may give a key
  MaxEdits          \* bound of the model: management requests

KeyBody == [status : KeyStatus \cup {NULL}, expiresAt : Nat \cup {NULL},
            rateLimit : RateLimits \cup {NULL}, quotaTokens : Int \cup {NULL},
            quotaReqs : Int \cup {NULL}, providerId : Providers \cup {NULL}]
ProviderBody == [enabled : BOOLEAN \cup {NULL}, secret : Nat \cup {NULL}]
ModelBody == [name : Names \cup {NULL}, enabled : BOOLEAN \cup {NULL}]

ASSUME AdminAssumption ==
  /\ NewKeys \subseteq KeyRow /\ \A row \in NewKeys : row.status = "active"
  /\ NewProviders \subseteq ProviderRow
  /\ NewModels \subseteq ModelRow
  /\ Presets \subseteq [slug : ProviderNames, adapter : AdapterTypes, models : Seq(Names) \ {<<>>}]
  /\ KeyBodies \subseteq KeyBody
  /\ ProviderBodies \subseteq ProviderBody
  /\ ModelBodies \subseteq ModelBody
  /\ RuleSets \subseteq SUBSET Rule
  /\ MaxEdits \in Nat

VARIABLES
  draft,        \* admin request -> the update, or preset, it is in the middle of
  edits,        \* management requests received
  highQuota,    \* history: key -> highest request quota it ever had, 0 if it ever had none
  highTokens    \* history: the same of its token quota

quotaHistory == <<highQuota, highTokens>>
adminVars == <<draft, edits, quotaHistory>>

KeyDraft == [kind : {"key"}, id : Keys, row : KeyRow, body : KeyBody]
ProviderDraft == [kind : {"provider"}, id : Providers, row : ProviderRow, body : ProviderBody]
ModelDraft == [kind : {"model"}, id : Models, row : ModelRow, body : ModelBody]
PresetDraft == [kind : {"preset"}, id : Providers, left : Seq(Names) \ {<<>>}]

AdminTypeOK ==
  /\ draft \in [Admins -> KeyDraft \cup ProviderDraft \cup ModelDraft \cup PresetDraft \cup {NULL}]
  /\ edits \in Nat
  /\ highQuota \in [Keys -> Nat] /\ highTokens \in [Keys -> Nat]

(* What the history keeps of a quota: 0 and below are no quota. *)
QuotaOf(n) == IF n > 0 THEN n ELSE 0
Higher(high, n) == IF high = 0 \/ n <= 0 THEN 0 ELSE IF n > high THEN n ELSE high

AdminInit ==
  /\ draft = [a \in Admins |-> NULL]
  /\ edits = 0
  /\ highQuota = [k \in Keys |-> IF k \in DOMAIN apiKeys THEN QuotaOf(apiKeys[k].quotaReqs) ELSE 0]
  /\ highTokens = [k \in Keys |-> IF k \in DOMAIN apiKeys THEN QuotaOf(apiKeys[k].quotaTokens) ELSE 0]

-----------------------------------------------------------------------------
Edit == edits < MaxEdits /\ edits' = edits + 1

(* A field the body leaves out, or sets to null, keeps the copy's value. *)
Field(new, old) == IF new = NULL THEN old ELSE new

PatchKey(row, b) ==
  [status |-> Field(b.status, row.status),
   expiresAt |-> Field(b.expiresAt, row.expiresAt),
   rateLimit |-> Field(b.rateLimit, row.rateLimit),
   quotaTokens |-> Field(b.quotaTokens, row.quotaTokens), usedTokens |-> row.usedTokens,
   quotaReqs |-> Field(b.quotaReqs, row.quotaReqs), usedReqs |-> row.usedReqs,
   providerId |-> Field(b.providerId, row.providerId)]
PatchProvider(row, b) ==
  [row EXCEPT !.enabled = Field(b.enabled, @), !.secret = Field(b.secret, @)]
PatchModel(row, b) ==
  [row EXCEPT !.name = Field(b.name, @), !.enabled = Field(b.enabled, @)]

(* The read half of an update.  A row that is not there answers 404. *)
Begin(a, kind, id, table, bodies) ==
  /\ draft[a] = NULL
  /\ Edit
  /\ id \in DOMAIN table
  /\ \E b \in bodies :
       draft' = [draft EXCEPT ![a] = [kind |-> kind, id |-> id, row |-> table[id], body |-> b]]
  /\ UNCHANGED <<storeVars, quotaHistory>>

Editing(a, kind) == draft[a] # NULL /\ draft[a].kind = kind

Done(a) == draft' = [draft EXCEPT ![a] = NULL]

(* The write half fails: the body does not bind, the row is gone, a        *)
(* constraint refuses it, the database does not answer.                    *)
UpdateFails(a) ==
  /\ Editing(a, "key") \/ Editing(a, "provider") \/ Editing(a, "model")
  /\ Done(a)
  /\ UNCHANGED <<storeVars, edits, quotaHistory>>

-----------------------------------------------------------------------------
(* API keys. *)
AddKey(k, row) ==
  /\ KeyCreate(k, row)
  /\ highQuota' = [highQuota EXCEPT ![k] = QuotaOf(row.quotaReqs)]
  /\ highTokens' = [highTokens EXCEPT ![k] = QuotaOf(row.quotaTokens)]
  /\ UNCHANGED <<providers, models, rules, usageLogs, draft>>

CreateAPIKey(k) == Edit /\ \E row \in NewKeys : AddKey(k, row)

(* "bridagectl keys create", a process of its own: no limit, no quota, no pin. *)
CtlKey == [status |-> "active", expiresAt |-> NULL, rateLimit |-> 0, quotaTokens |-> 0,
           usedTokens |-> 0, quotaReqs |-> 0, usedReqs |-> 0, providerId |-> NULL]
CtlCreateKey(k) == Edit /\ AddKey(k, CtlKey)

UpdateAPIKey(a) ==
  LET k == draft[a].id
      copy == PatchKey(draft[a].row, draft[a].body)
  IN  /\ Editing(a, "key")
      /\ KeyUpdate(k, copy)
      /\ highQuota' = [highQuota EXCEPT ![k] = Higher(@, copy.quotaReqs)]
      /\ highTokens' = [highTokens EXCEPT ![k] = Higher(@, copy.quotaTokens)]
      /\ Done(a)
      /\ UNCHANGED <<providers, models, rules, usageLogs, issued, edits>>

DeleteAPIKey(k) ==
  /\ Edit
  /\ k \in DOMAIN apiKeys
  /\ KeyDelete(k)
  /\ UNCHANGED <<providers, models, issued, draft, quotaHistory>>

(* No handler calls SetModelRules: rules come from an operator's hand. *)
ReplaceRules(k) ==
  /\ Edit
  /\ \E new \in RuleSets : SetModelRules(k, new)
  /\ UNCHANGED <<apiKeys, providers, models, usageLogs, issued, draft, quotaHistory>>

-----------------------------------------------------------------------------
(* Providers and models. *)
CreateProvider(p) ==
  /\ Edit
  /\ \E row \in NewProviders : ProviderCreate(p, row)
  /\ UNCHANGED <<apiKeys, models, rules, usageLogs, draft, quotaHistory>>

UpdateProvider(a) ==
  /\ Editing(a, "provider")
  /\ ProviderUpdate(draft[a].id, PatchProvider(draft[a].row, draft[a].body))
  /\ Done(a)
  /\ UNCHANGED <<apiKeys, models, rules, usageLogs, issued, edits, quotaHistory>>

DeleteProvider(p) ==
  /\ Edit
  /\ p \in DOMAIN providers
  /\ ProviderDelete(p)
  /\ UNCHANGED <<usageLogs, issued, draft, quotaHistory>>

CreateModel(m) ==
  /\ Edit
  /\ \E row \in NewModels : ModelCreate(m, row)
  /\ UNCHANGED <<apiKeys, providers, rules, usageLogs, draft, quotaHistory>>

UpdateModel(a) ==
  /\ Editing(a, "model")
  /\ ModelUpdate(draft[a].id, PatchModel(draft[a].row, draft[a].body))
  /\ Done(a)
  /\ UNCHANGED <<apiKeys, providers, rules, usageLogs, issued, edits, quotaHistory>>

DeleteModel(m) ==
  /\ Edit
  /\ m \in DOMAIN models
  /\ ModelDelete(m)
  /\ UNCHANGED <<apiKeys, providers, usageLogs, issued, draft, quotaHistory>>

-----------------------------------------------------------------------------
(* BootstrapPreset.  The provider is one INSERT, each default model another, *)
(* outside any transaction.  A model that fails, for whatever reason, is     *)
(* logged and passed over, and the answer is 201 all the same.               *)
BootstrapPreset(a, p) ==
  /\ draft[a] = NULL
  /\ Edit
  /\ \E preset \in Presets, on \in BOOLEAN :
       /\ ProviderCreate(p, [name |-> preset.slug, adapter |-> preset.adapter,
                             enabled |-> on, secret |-> 0])
       /\ draft' = [draft EXCEPT ![a] = [kind |-> "preset", id |-> p, left |-> preset.models]]
  /\ UNCHANGED <<apiKeys, models, rules, usageLogs, quotaHistory>>

NextDefaultModel(a) ==
  draft' = [draft EXCEPT ![a] = IF Len(@.left) = 1 THEN NULL
                                ELSE [kind |-> "preset", id |-> @.id, left |-> Tail(@.left)]]

DefaultModel(a, m) ==
  /\ Editing(a, "preset")
  /\ ModelCreate(m, [provider |-> draft[a].id, name |-> Head(draft[a].left), enabled |-> TRUE])
  /\ NextDefaultModel(a)
  /\ UNCHANGED <<apiKeys, providers, rules, usageLogs, edits, quotaHistory>>

DefaultModelFails(a) ==
  /\ Editing(a, "preset")
  /\ NextDefaultModel(a)
  /\ UNCHANGED <<storeVars, edits, quotaHistory>>

-----------------------------------------------------------------------------
AdminNext ==
  \/ \E k \in Keys : CreateAPIKey(k) \/ CtlCreateKey(k) \/ DeleteAPIKey(k) \/ ReplaceRules(k)
  \/ \E p \in Providers : CreateProvider(p) \/ DeleteProvider(p)
  \/ \E m \in Models : CreateModel(m) \/ DeleteModel(m)
  \/ \E a \in Admins :
       \/ \E k \in Keys : Begin(a, "key", k, apiKeys, KeyBodies)
       \/ \E p \in Providers : Begin(a, "provider", p, providers, ProviderBodies)
       \/ \E m \in Models : Begin(a, "model", m, models, ModelBodies)
       \/ UpdateAPIKey(a) \/ UpdateProvider(a) \/ UpdateModel(a) \/ UpdateFails(a)
       \/ \E p \in Providers : BootstrapPreset(a, p)
       \/ \E m \in Models : DefaultModel(a, m)
       \/ DefaultModelFails(a)
=============================================================================
