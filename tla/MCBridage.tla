------------------------------- MODULE MCBridage -------------------------------
(* Small instances of the server: what was set up before, what admins may  *)
(* ask for.  Each .cfg picks from these.                                   *)
EXTENDS Bridage, TLC

CONSTANTS k1, k2, p1, p2, m1, m2, m3, n1, n2, first, second, third

Key == [status |-> "active", expiresAt |-> NULL, rateLimit |-> 0, quotaTokens |-> 0,
        usedTokens |-> 0, quotaReqs |-> 0, usedReqs |-> 0, providerId |-> NULL]
OpenAI == [name |-> first, adapter |-> "openai_compatible", enabled |-> TRUE, secret |-> 0]
Anthropic == [OpenAI EXCEPT !.name = second, !.adapter = "anthropic"]
Model(p) == [provider |-> p, name |-> n1, enabled |-> TRUE]

OneProvider(key) ==
  [keys |-> k1 :> key, providers |-> p1 :> OpenAI, models |-> m1 :> Model(p1), rules |-> {}]
TwoProviders(key) ==
  [keys |-> k1 :> key, providers |-> p1 :> OpenAI @@ p2 :> Anthropic,
   models |-> m1 :> Model(p1) @@ m2 :> Model(p2), rules |-> {}]

NoKeyChange == [status |-> NULL, expiresAt |-> NULL, rateLimit |-> NULL,
                quotaTokens |-> NULL, quotaReqs |-> NULL, providerId |-> NULL]
NoProviderChange == [enabled |-> NULL, secret |-> NULL]
NoModelChange == [name |-> NULL, enabled |-> NULL]

(* Metering: one key with quotas, one provider, updates of its quota. *)
MeteredSetup == OneProvider([Key EXCEPT !.quotaReqs = 1, !.quotaTokens = 2])
QuotaSetup == OneProvider([Key EXCEPT !.quotaReqs = 1])
QuotaBodies == {[NoKeyChange EXCEPT !.quotaReqs = 2]}

(* Catalog: two providers offer the model k1 asks for; everything may be   *)
(* edited, created and deleted while calls are routed.                     *)
CatalogSetup == [TwoProviders(Key) EXCEPT
                   !.rules = {[key |-> k1, model |-> m1, allow |-> TRUE]}]
CatalogNewKeys == {[Key EXCEPT !.providerId = p2]}
CatalogNewProviders == {Anthropic}
CatalogPresets == {[slug |-> third, adapter |-> "openai_compatible", models |-> <<n2, n1>>]}
CatalogNewModels == {Model(p1)}
CatalogKeyBodies == {[NoKeyChange EXCEPT !.providerId = p1]}
CatalogProviderBodies == {[NoProviderChange EXCEPT !.enabled = FALSE]}
CatalogModelBodies == {[NoModelChange EXCEPT !.enabled = FALSE]}
CatalogRuleSets == {{[key |-> k1, model |-> m2, allow |-> FALSE]}}

(* Calls: a key with a rate limit and a quota, which expires.                        *)
LimitSetup == OneProvider([Key EXCEPT !.rateLimit = 1, !.quotaReqs = 1, !.expiresAt = 2])

(* Pinned: the key may use p1 only, and both providers offer the model.    *)
PinnedSetup == TwoProviders([Key EXCEPT !.providerId = p1])

(* Two admins update one provider, one its secret and one its switch.      *)
PlainSetup == OneProvider(Key)
SecretBodies == {[NoProviderChange EXCEPT !.secret = 1], [NoProviderChange EXCEPT !.enabled = FALSE]}

WorkerSymmetry == Permutations(Workers)
=============================================================================
