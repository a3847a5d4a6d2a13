--------------------------- MODULE AccountingProofs ---------------------------
(***************************************************************************)
(* The server implements Billing: its accounts move as the abstract books  *)
(* say, whatever calls, admins, failures and crashes do.                   *)
(*                                                                         *)
(* A step that answers a call must be the first answer of its number, and  *)
(* to a key that was issued; a charge must take away one receipt and not   *)
(* two.  So the refinement rests on ServedInv, what the calls in progress  *)
(* have to do with the receipts already there, and on CallsDiffer.         *)
(***************************************************************************)
EXTENDS AdmissionProofs

BeforeAnswer == {"auth", "bind", "resolve", "rules", "adapter", "upstream", "streaming"}

NotYetServed ==
  \A w \in Workers : pc[w] \in BeforeAnswer => \A r \in served : r.id # call[w].id
ServedArrived == \A r \in served : r.id <= arrived
KeysIssued == \A w \in Workers : pc[w] \notin {"idle", "auth"} => call[w].key \in issued
KnownIssued == DOMAIN apiKeys \subseteq issued

ServedInv == NotYetServed /\ ServedArrived /\ KeysIssued /\ KnownIssued

-----------------------------------------------------------------------------
(* Ids are only ever added to those issued, and no key appears without. *)
LEMMA IssuedGrows ==
  ASSUME TypeOK, KnownIssued, [Next]_vars
  PROVE  issued \subseteq issued' /\ KnownIssued'
<1> USE DEF TypeOK, StoreTypeOK, KnownIssued
<1>1. ASSUME UNCHANGED <<apiKeys, issued>> PROVE issued \subseteq issued' /\ KnownIssued'
  BY <1>1
<1>2. ASSUME NEW w \in Workers, Handler(w) PROVE issued \subseteq issued' /\ KnownIssued'
  <2>1. issued' = issued /\ DOMAIN apiKeys' = DOMAIN apiKeys
    BY <1>2 DEF Handler, Abort, Authenticate, BindFails, Admit, RateLimited, FindModel,
       ModelNotFound, CheckRules, GetAdapter, UpstreamAnswers, UpstreamFails, StreamOpens,
       StreamEnds, RecordUsage, IncrementQuota, IncrementUsage, storeVars
  <2> QED BY <2>1
<1>3. CASE RelayNext
  <2>1. ASSUME NEW w \in Workers, Receive(w) \/ ClientGone(w) \/ StreamChunk(w)
        PROVE  issued \subseteq issued' /\ KnownIssued'
    BY <2>1, <1>1 DEF Receive, ClientGone, StreamChunk, storeVars
  <2>2. CASE Tick
    BY <2>2, <1>1 DEF Tick, storeVars
  <2> QED BY <1>2, <1>3, <2>1, <2>2 DEF RelayNext
<1>4. CASE AdminNext
  <2>1. ASSUME NEW k \in Keys, NEW row, AddKey(k, row)
        PROVE  issued \subseteq issued' /\ KnownIssued'
    BY <2>1 DEF AddKey, KeyCreate, With
  <2>2. ASSUME NEW k \in Keys, CreateAPIKey(k) \/ CtlCreateKey(k)
        PROVE  issued \subseteq issued' /\ KnownIssued'
    BY <2>1, <2>2 DEF CreateAPIKey, CtlCreateKey
  <2>3. ASSUME NEW k \in Keys, DeleteAPIKey(k) PROVE issued \subseteq issued' /\ KnownIssued'
    BY <2>3 DEF DeleteAPIKey, KeyDelete, Only
  <2>4. ASSUME NEW k \in Keys, ReplaceRules(k) PROVE issued \subseteq issued' /\ KnownIssued'
    BY <2>4 DEF ReplaceRules
  <2>5. ASSUME NEW p \in Providers, CreateProvider(p)
        PROVE  issued \subseteq issued' /\ KnownIssued'
    BY <2>5 DEF CreateProvider, ProviderCreate
  <2>6. ASSUME NEW p \in Providers, DeleteProvider(p)
        PROVE  issued \subseteq issued' /\ KnownIssued'
    BY <2>6 DEF DeleteProvider, ProviderDelete
  <2>7. ASSUME NEW m \in Models, CreateModel(m) \/ DeleteModel(m)
        PROVE  issued \subseteq issued' /\ KnownIssued'
    BY <2>7 DEF CreateModel, ModelCreate, DeleteModel
  <2>8. ASSUME NEW a \in Admins, UpdateAPIKey(a)
        PROVE  issued \subseteq issued' /\ KnownIssued'
    BY <2>8 DEF UpdateAPIKey, KeyUpdate
  <2>9. ASSUME NEW a \in Admins,
               \/ UpdateProvider(a) \/ UpdateModel(a) \/ UpdateFails(a) \/ DefaultModelFails(a)
               \/ \E k \in Keys : Begin(a, "key", k, apiKeys, KeyBodies)
               \/ \E p \in Providers : Begin(a, "provider", p, providers, ProviderBodies)
               \/ \E m \in Models : Begin(a, "model", m, models, ModelBodies)
        PROVE  issued \subseteq issued' /\ KnownIssued'
    BY <2>9, <1>1 DEF UpdateProvider, UpdateModel, UpdateFails, DefaultModelFails, Begin, storeVars
  <2>10. ASSUME NEW a \in Admins, \/ \E p \in Providers : BootstrapPreset(a, p)
                                  \/ \E m \in Models : DefaultModel(a, m)
         PROVE  issued \subseteq issued' /\ KnownIssued'
    BY <2>10 DEF BootstrapPreset, ProviderCreate, DefaultModel, ModelCreate
  <2> QED BY <1>4, <2>2, <2>3, <2>4, <2>5, <2>6, <2>7, <2>8, <2>9, <2>10 DEF AdminNext
<1>5. CASE Crash
  BY <1>5, <1>1 DEF Crash, RelayCrash, storeVars
<1>6. CASE UNCHANGED vars
  BY <1>6, <1>1 DEF vars, storeVars
<1> QED BY <1>3, <1>4, <1>5, <1>6 DEF Next

-----------------------------------------------------------------------------
(* A step in which no call is answered, none arrives, none comes back      *)
(* before its answer and none is let in by Authenticate.                   *)
CallsOnTheirWay ==
  /\ UNCHANGED <<arrived, served>>
  /\ \A w \in Workers :
       \/ pc'[w] = "idle"
       \/ /\ pc[w] # "idle" /\ call'[w] = call[w]
          /\ pc'[w] \in BeforeAnswer => pc[w] \in BeforeAnswer
          /\ pc[w] = "auth" => pc'[w] = "auth" \/ call[w].key \in issued

(* Such a step keeps what is known of the receipts. *)
LEMMA OnTheirWayKeeps ==
  ASSUME TypeOK, ServedInv, CallsOnTheirWay, issued \subseteq issued', KnownIssued'
  PROVE  ServedInv'
<1>1. NotYetServed' /\ ServedArrived'
  BY DEF ServedInv, NotYetServed, ServedArrived, CallsOnTheirWay, BeforeAnswer
<1>2. KeysIssued'
  BY DEF ServedInv, KeysIssued, CallsOnTheirWay
<1> QED BY <1>1, <1>2 DEF ServedInv

(* Every step of a handler but the two that answer. *)
LEMMA HandlerOnItsWay ==
  ASSUME TypeOK, KnownIssued, NEW w \in Workers, Handler(w),
         ~UpstreamAnswers(w), ~StreamEnds(w)
  PROVE  CallsOnTheirWay
<1> USE DEF TypeOK, RelayTypeOK, WorkTypeOK, CallsOnTheirWay, BeforeAnswer, Goto, historyVars
<1>0. ASSUME Finish(w), UNCHANGED <<arrived, served>> PROVE CallsOnTheirWay
  BY <1>0 DEF Finish
<1>1. CASE Abort(w)
  BY <1>1, <1>0 DEF Abort
<1>2. CASE Authenticate(w)
  <2>1. CASE Finish(w)
    BY <1>2, <2>1, <1>0 DEF Authenticate
  <2>2. CASE ~Finish(w)
    BY <1>2, <2>2 DEF Authenticate, KnownIssued
  <2> QED BY <2>1, <2>2
<1>3. CASE BindFails(w)
  BY <1>3, <1>0 DEF BindFails
<1>4. CASE RateLimited(w)
  BY <1>4, <1>0 DEF RateLimited
<1>5. CASE FindModel(w)
  BY <1>5 DEF FindModel
<1>6. CASE ModelNotFound(w)
  BY <1>6, <1>0 DEF ModelNotFound
<1>7. CASE CheckRules(w)
  <2>1. CASE Finish(w)
    BY <1>7, <2>1, <1>0 DEF CheckRules
  <2>2. CASE ~Finish(w)
    BY <1>7, <2>2 DEF CheckRules
  <2> QED BY <2>1, <2>2
<1>8. CASE GetAdapter(w)
  <2>1. CASE Finish(w)
    BY <1>8, <2>1, <1>0 DEF GetAdapter
  <2>2. CASE ~Finish(w)
    BY <1>8, <2>2 DEF GetAdapter
  <2> QED BY <2>1, <2>2
<1>9. CASE Admit(w)
  <2>1. CASE Finish(w)
    BY <1>9, <2>1, <1>0 DEF Admit
  <2>2. CASE ~Finish(w)
    BY <1>9, <2>2 DEF Admit
  <2> QED BY <2>1, <2>2
<1>10. CASE UpstreamFails(w)
  BY <1>10 DEF UpstreamFails
<1>11. CASE StreamOpens(w)
  BY <1>11 DEF StreamOpens
<1>12. CASE RecordUsage(w)
  <2>1. CASE Finish(w)
    BY <1>12, <2>1, <1>0 DEF RecordUsage
  <2>2. CASE ~Finish(w)
    BY <1>12, <2>2 DEF RecordUsage
  <2> QED BY <2>1, <2>2
<1>13. CASE IncrementQuota(w)
  BY <1>13, <1>0 DEF IncrementQuota
<1> QED BY <1>1, <1>2, <1>3, <1>4, <1>5, <1>6, <1>7, <1>8, <1>9, <1>10, <1>11, <1>12,
           <1>13 DEF Handler

(* An answer puts one receipt there, with the number of its own call. *)
LEMMA AnswerServes ==
  ASSUME TypeOK, NEW w \in Workers, UpstreamAnswers(w) \/ StreamEnds(w)
  PROVE  \E t \in Tokens :
            /\ pc[w] \in {"upstream", "streaming"} /\ pc' = [pc EXCEPT ![w] = "record"]
            /\ call' = call /\ arrived' = arrived
            /\ result' = [result EXCEPT ![w] = [ok |-> TRUE, tokens |-> t]]
            /\ served' = served \cup {[id |-> call[w].id, key |-> call[w].key, tokens |-> t]}
            /\ UNCHANGED <<apiKeys, issued, uncharged>>
<1> USE DEF TypeOK, RelayTypeOK, WorkTypeOK
<1>1. CASE UpstreamAnswers(w)
  <2>1. PICK t \in IF call[w].endpoint = "images" THEN {0} ELSE TokenCounts :
            /\ result' = [result EXCEPT ![w] = [ok |-> TRUE, tokens |-> t]]
            /\ Serve(w, t)
    BY <1>1 DEF UpstreamAnswers
  <2>2. t \in Tokens
    BY TokensTyped DEF Tokens
  <2> QED BY <1>1, <2>1, <2>2 DEF UpstreamAnswers, Goto, Serve, storeVars
<1>2. CASE StreamEnds(w)
  <2>1. result[w] \in Result /\ result[w].ok
    BY <1>2 DEF StreamEnds
  <2>2. result[w].tokens \in Tokens /\ result[w] = [ok |-> TRUE, tokens |-> result[w].tokens]
    BY <2>1 DEF Result
  <2>3. result' = [result EXCEPT ![w] = [ok |-> TRUE, tokens |-> result[w].tokens]]
    BY <1>2, <2>2 DEF StreamEnds
  <2> QED BY <1>2, <2>2, <2>3 DEF StreamEnds, Goto, Serve, storeVars
<1> QED BY <1>1, <1>2

(* A call that is answered was not, and no other call has its number. *)
LEMMA AnswerKeepsServed ==
  ASSUME TypeOK, CallsNumbered, ServedInv, NEW w \in Workers,
         UpstreamAnswers(w) \/ StreamEnds(w)
  PROVE  ServedInv'
<1> USE DEF TypeOK, RelayTypeOK, WorkTypeOK
<1>1. PICK t \in Tokens :
            /\ pc[w] \in {"upstream", "streaming"} /\ pc' = [pc EXCEPT ![w] = "record"]
            /\ call' = call /\ arrived' = arrived
            /\ served' = served \cup {[id |-> call[w].id, key |-> call[w].key, tokens |-> t]}
            /\ UNCHANGED <<apiKeys, issued>>
  BY AnswerServes
<1>2. \A v \in Workers : pc'[v] \in BeforeAnswer =>
         v # w /\ pc[v] \in BeforeAnswer /\ call[v].id # call[w].id
  BY <1>1 DEF BeforeAnswer, CallsNumbered, CallsDiffer
<1>3. NotYetServed'
  BY <1>1, <1>2 DEF ServedInv, NotYetServed
<1>4. ServedArrived'
  BY <1>1 DEF ServedInv, ServedArrived, CallsNumbered, CallsArrived
<1>5. KeysIssued' /\ KnownIssued'
  BY <1>1 DEF ServedInv, KeysIssued, KnownIssued
<1> QED BY <1>3, <1>4, <1>5 DEF ServedInv

(* Every step of the server keeps what is known of the receipts. *)
LEMMA StepServed ==
  ASSUME TypeOK, CallsNumbered, ServedInv, [Next]_vars
  PROVE  ServedInv'
<1> USE DEF TypeOK, RelayTypeOK, WorkTypeOK
<1>0. issued \subseteq issued' /\ KnownIssued'
  BY IssuedGrows DEF ServedInv
<1>1. ASSUME CallsOnTheirWay PROVE ServedInv'
  BY <1>0, <1>1, OnTheirWayKeeps
<1>2. ASSUME NEW w \in Workers, Receive(w) PROVE ServedInv'
  <2>1. arrived \in Nat /\ arrived' = arrived + 1 /\ UNCHANGED <<served, apiKeys, issued>>
    BY <1>2, RelayAssumption DEF Receive, historyVars, storeVars
  <2>2. /\ pc'[w] = "auth" /\ call'[w].id = arrived'
        /\ \A v \in Workers \ {w} : call'[v] = call[v] /\ pc'[v] = pc[v]
    BY <1>2 DEF Receive, Goto
  <2>3. \A r \in served : r.id \in Nat /\ r.id <= arrived
    BY RelayAssumption DEF ServedInv, ServedArrived, Receipt, Requests
  <2>4. NotYetServed' /\ ServedArrived'
    BY <2>1, <2>2, <2>3 DEF ServedInv, NotYetServed, ServedArrived
  <2>5. KeysIssued'
    BY <2>1, <2>2 DEF ServedInv, KeysIssued
  <2> QED BY <1>0, <2>4, <2>5 DEF ServedInv
<1>3. ASSUME NEW w \in Workers, ClientGone(w) \/ StreamChunk(w) PROVE ServedInv'
  <2>1. CallsOnTheirWay
    BY <1>3 DEF ClientGone, StreamChunk, CallsOnTheirWay, historyVars, ServedInv, KeysIssued
  <2> QED BY <1>1, <2>1
<1>4. ASSUME NEW w \in Workers, Handler(w) PROVE ServedInv'
  BY <1>1, <1>4, HandlerOnItsWay, AnswerKeepsServed DEF ServedInv
<1>5. CASE UNCHANGED <<workVars, arrived, served>>
  <2>1. CallsOnTheirWay
    BY <1>5 DEF workVars, CallsOnTheirWay, ServedInv, KeysIssued
  <2> QED BY <1>1, <2>1
<1>6. CASE Crash
  <2>1. CallsOnTheirWay
    BY <1>6 DEF Crash, RelayCrash, CallsOnTheirWay
  <2> QED BY <1>1, <2>1
<1>7. Tick \/ UNCHANGED relayVars => UNCHANGED <<workVars, arrived, served>>
  BY DEF Tick, relayVars, historyVars
<1> QED BY <1>2, <1>3, <1>4, <1>5, <1>6, <1>7 DEF Next, RelayNext, vars

-----------------------------------------------------------------------------
(* A step that moves no balance, opens no account, answers no call and     *)
(* leaves the calls to be charged as they are.                             *)
BooksAtRest ==
  /\ Balances' = Balances
  /\ issued' \cap Keys = issued \cap Keys
  /\ UNCHANGED <<served, uncharged>>
  /\ ToCharge' = ToCharge
  /\ \A w \in ToCharge : call'[w] = call[w] /\ result'[w] = result[w]

(* Such a step leaves the books alone. *)
LEMMA AtRestStutters ==
  ASSUME BooksAtRest
  PROVE  UNCHANGED Books!billingVars
<1>1. Due' = Due
  BY DEF BooksAtRest, Due, ReceiptOf
<1> QED BY <1>1 DEF BooksAtRest, Books!billingVars

(* A worker that was not to charge and is not, while nothing else moves. *)
LEMMA OthersAtRest ==
  ASSUME WorkTypeOK, NEW w \in Workers, w \notin ToCharge,
         pc'[w] \notin {"record", "charge"} \/ (pc'[w] = "record" /\ ~result'[w].ok),
         \A v \in Workers \ {w} :
            pc'[v] = pc[v] /\ call'[v] = call[v] /\ result'[v] = result[v],
         UNCHANGED <<apiKeys, issued, served, uncharged>>
  PROVE  BooksAtRest
BY DEF BooksAtRest, ToCharge, ToLog, Balances

(* Every step of a handler but an answer and a charge. *)
LEMMA HandlerAtRest ==
  ASSUME TypeOK, NEW w \in Workers, Handler(w),
         ~UpstreamAnswers(w), ~StreamEnds(w), ~IncrementQuota(w)
  PROVE  BooksAtRest
<1> USE DEF TypeOK, RelayTypeOK, WorkTypeOK, Goto, historyVars, storeVars, ToCharge, ToLog
<1>0. ASSUME Finish(w), w \notin ToCharge, UNCHANGED <<apiKeys, issued, served, uncharged>>
      PROVE  BooksAtRest
  BY <1>0, OthersAtRest DEF Finish
<1>1. CASE Abort(w)
  BY <1>1, <1>0 DEF Abort
<1>2. CASE Authenticate(w)
  <2>1. CASE Finish(w)
    BY <1>2, <2>1, <1>0 DEF Authenticate
  <2>2. CASE ~Finish(w)
    BY <1>2, <2>2, OthersAtRest DEF Authenticate
  <2> QED BY <2>1, <2>2
<1>3. CASE BindFails(w)
  BY <1>3, <1>0 DEF BindFails
<1>4. CASE RateLimited(w)
  BY <1>4, <1>0 DEF RateLimited
<1>5. CASE FindModel(w)
  BY <1>5, OthersAtRest DEF FindModel
<1>6. CASE ModelNotFound(w)
  BY <1>6, <1>0 DEF ModelNotFound
<1>7. CASE CheckRules(w)
  <2>1. CASE Finish(w)
    BY <1>7, <2>1, <1>0 DEF CheckRules
  <2>2. CASE ~Finish(w)
    BY <1>7, <2>2, OthersAtRest DEF CheckRules
  <2> QED BY <2>1, <2>2
<1>8. CASE GetAdapter(w)
  <2>1. CASE Finish(w)
    BY <1>8, <2>1, <1>0 DEF GetAdapter
  <2>2. CASE ~Finish(w)
    BY <1>8, <2>2, OthersAtRest DEF GetAdapter
  <2> QED BY <2>1, <2>2
<1>9. CASE Admit(w)
  <2>1. CASE Finish(w)
    BY <1>9, <2>1, <1>0 DEF Admit
  <2>2. CASE ~Finish(w)
    BY <1>9, <2>2, OthersAtRest DEF Admit
  <2> QED BY <2>1, <2>2
<1>10. CASE UpstreamFails(w)
  BY <1>10, OthersAtRest DEF UpstreamFails
<1>11. CASE StreamOpens(w)
  BY <1>11, OthersAtRest DEF StreamOpens
<1>12. CASE RecordUsage(w)
  <2>1. CASE result[w].ok
    BY <1>12, <2>1 DEF RecordUsage, BooksAtRest, Balances
  <2>2. CASE ~result[w].ok
    BY <1>12, <2>2, <1>0 DEF RecordUsage
  <2> QED BY <2>1, <2>2
<1> QED BY <1>1, <1>2, <1>3, <1>4, <1>5, <1>6, <1>7, <1>8, <1>9, <1>10, <1>11, <1>12
        DEF Handler

(* An answer is an answer in the books. *)
LEMMA AnswerInBooks ==
  ASSUME TypeOK, ServedInv, NEW w \in Workers, UpstreamAnswers(w) \/ StreamEnds(w)
  PROVE  Books!BillingNext
<1> USE DEF TypeOK, RelayTypeOK, WorkTypeOK
<1>1. PICK t \in Tokens :
            /\ pc[w] \in {"upstream", "streaming"} /\ pc' = [pc EXCEPT ![w] = "record"]
            /\ call' = call
            /\ result' = [result EXCEPT ![w] = [ok |-> TRUE, tokens |-> t]]
            /\ served' = served \cup {[id |-> call[w].id, key |-> call[w].key, tokens |-> t]}
            /\ UNCHANGED <<apiKeys, issued, uncharged>>
  BY AnswerServes
<1> DEFINE r == [id |-> call[w].id, key |-> call[w].key, tokens |-> t]
<1>2. call[w] \in Call /\ r \in Books!Receipt /\ r.key = call[w].key /\ r.id = call[w].id
  BY <1>1 DEF Call, Books!Receipt
<1>3. r.key \in issued \cap Keys /\ \A s \in served : s.id # r.id
  BY <1>1, <1>2 DEF ServedInv, NotYetServed, KeysIssued, BeforeAnswer, Call
<1>4. ToCharge' = ToCharge \cup {w} /\ w \notin ToCharge
  BY <1>1 DEF ToCharge, ToLog
<1>5. \A v \in ToCharge : ReceiptOf(v)' = ReceiptOf(v)
  BY <1>1, <1>4 DEF ReceiptOf, ToCharge, ToLog
<1>6. ReceiptOf(w)' = r
  BY <1>1 DEF ReceiptOf
<1> HIDE DEF r
<1>7. Due = {ReceiptOf(v) : v \in ToCharge} /\ Due' = {ReceiptOf(v)' : v \in ToCharge'}
  BY DEF Due, ReceiptOf
<1>8. Due' = Due \cup {r}
  BY <1>4, <1>5, <1>6, <1>7
<1>9. Balances' = Balances
  BY <1>1 DEF Balances
<1>10. Books!Answer(r)
  BY <1>1, <1>3, <1>8, <1>9 DEF Books!Answer, r
<1> QED BY <1>2, <1>10 DEF Books!BillingNext

(* A charge takes away one receipt, because no other call in progress has  *)
(* its number, and goes to the key of the receipt or to nobody.            *)
LEMMA ChargeInBooks ==
  ASSUME TypeOK, CallsNumbered, NEW w \in Workers, IncrementQuota(w)
  PROVE  Books!BillingNext
<1> USE DEF TypeOK, RelayTypeOK, WorkTypeOK
<1> DEFINE r == ReceiptOf(w)
<1>1. /\ pc[w] = "charge" /\ pc' = [pc EXCEPT ![w] = "idle"]
      /\ \A v \in Workers \ {w} : call'[v] = call[v] /\ result'[v] = result[v]
      /\ UNCHANGED <<issued, served>>
  BY DEF IncrementQuota, Finish, Goto
<1>2. call[w] \in Call /\ result[w] \in Result
  BY <1>1
<1>3. w \in ToCharge /\ ToCharge' = ToCharge \ {w}
  BY <1>1 DEF ToCharge, ToLog
<1>4. \A v \in ToCharge \ {w} : ReceiptOf(v)' = ReceiptOf(v) /\ ReceiptOf(v) # r
  BY <1>1 DEF ReceiptOf, ToCharge, ToLog, CallsNumbered, CallsDiffer
<1> HIDE DEF r
<1>5. Due = {ReceiptOf(v) : v \in ToCharge} /\ Due' = {ReceiptOf(v)' : v \in ToCharge'}
  BY DEF Due, ReceiptOf
<1>6. r \in Due /\ Due' = Due \ {r}
  BY <1>3, <1>4, <1>5 DEF r
<1>7. r.id = call[w].id /\ r.key = call[w].key /\ r.tokens = result[w].tokens
  BY DEF r, ReceiptOf
<1>8. CASE UNCHANGED uncharged /\ IncrementUsage(call[w].key, result[w].tokens, 1)
  <2>1. CASE call[w].key \in DOMAIN apiKeys
    <3>1. apiKeys' = [apiKeys EXCEPT ![r.key].usedTokens = @ + r.tokens, ![r.key].usedReqs = @ + 1]
      BY <1>7, <1>8, <2>1 DEF IncrementUsage
    <3>2. \A k \in DOMAIN apiKeys : apiKeys[k] \in KeyRow
      BY DEF StoreTypeOK
    <3>3. Balances' = [Balances EXCEPT ![r.key] =
                         [reqs |-> @.reqs + 1, tokens |-> @.tokens + r.tokens]]
      BY <1>7, <2>1, <3>1, <3>2 DEF Balances, KeyRow
    <3>4. r.key \in DOMAIN Balances
      BY <1>7, <2>1 DEF Balances
    <3>5. Books!Charge(r)
      BY <1>1, <1>6, <1>8, <3>3, <3>4 DEF Books!Charge
    <3> QED BY <1>6, <3>5 DEF Books!BillingNext
  <2>2. CASE call[w].key \notin DOMAIN apiKeys
    <3>1. Balances' = Balances /\ r.key \notin DOMAIN Balances
      BY <1>7, <1>8, <2>2 DEF IncrementUsage, Balances
    <3>2. Books!Charge(r)
      BY <1>1, <1>6, <1>8, <3>1 DEF Books!Charge
    <3> QED BY <1>6, <3>2 DEF Books!BillingNext
  <2> QED BY <2>1, <2>2
<1>9. CASE uncharged' = uncharged \cup {call[w].id} /\ UNCHANGED apiKeys
  <2>1. Balances' = Balances
    BY <1>9 DEF Balances
  <2>2. Due' = Due \ {r} /\ {s.id : s \in {r}} = {r.id} /\ {r} \in SUBSET Due
    BY <1>6
  <2>3. Books!WriteOff({r})
    BY <1>1, <1>7, <1>9, <2>1, <2>2 DEF Books!WriteOff
  <2> QED BY <2>2, <2>3 DEF Books!BillingNext
<1> QED BY <1>8, <1>9 DEF IncrementQuota

(* Admins open and close accounts, and move no balance. *)
LEMMA AdminInBooks ==
  ASSUME TypeOK, KnownIssued, AdminNext, UNCHANGED relayVars
  PROVE  [Books!BillingNext]_(Books!billingVars)
<1> USE DEF TypeOK, StoreTypeOK
<1>1. ToCharge' = ToCharge /\ Due' = Due /\ UNCHANGED <<call, result, served, uncharged>>
  BY DEF relayVars, workVars, historyVars, ToCharge, ToLog, Due, ReceiptOf
<1>2. ASSUME Balances' = Balances, issued' \cap Keys = issued \cap Keys
      PROVE  [Books!BillingNext]_(Books!billingVars)
  BY <1>1, <1>2, AtRestStutters DEF BooksAtRest
<1>3. ASSUME UNCHANGED <<apiKeys, issued>> PROVE [Books!BillingNext]_(Books!billingVars)
  BY <1>2, <1>3 DEF Balances
<1>4. ASSUME NEW k \in Keys, CreateAPIKey(k) \/ CtlCreateKey(k)
      PROVE  [Books!BillingNext]_(Books!billingVars)
  <2>1. CtlKey \in KeyRow
    BY StoreAssumption DEF CtlKey, KeyRow, KeyStatus
  <2>2. PICK row \in KeyRow : KeyCreate(k, row)
    BY <1>4, <2>1, AdminAssumption DEF CreateAPIKey, CtlCreateKey, AddKey
  <2>3. k \notin issued /\ issued' \cap Keys = (issued \cap Keys) \cup {k}
    BY <2>2 DEF KeyCreate
  <2>4. DOMAIN apiKeys' = DOMAIN apiKeys \cup {k} /\ k \notin DOMAIN apiKeys
        /\ \A i \in DOMAIN apiKeys : apiKeys'[i] = apiKeys[i]
    BY <2>2, <2>3 DEF KeyCreate, With, KnownIssued
  <2>5. apiKeys'[k].usedReqs = 0 /\ apiKeys'[k].usedTokens = 0
    BY <2>2 DEF KeyCreate, With, KeyRow
  <2>6. Balances' = [i \in DOMAIN Balances \cup {k} |->
                       IF i = k THEN [reqs |-> 0, tokens |-> 0] ELSE Balances[i]]
    BY <2>4, <2>5 DEF Balances
  <2>7. Books!Open(k)
    BY <1>1, <2>3, <2>6 DEF Books!Open
  <2> QED BY <2>7 DEF Books!BillingNext
<1>5. ASSUME NEW k \in Keys, DeleteAPIKey(k) PROVE [Books!BillingNext]_(Books!billingVars)
  <2>1. k \in DOMAIN apiKeys /\ apiKeys' = Only(apiKeys, Keys \ {k}) /\ issued' = issued
    BY <1>5 DEF DeleteAPIKey, KeyDelete
  <2>2. DOMAIN apiKeys \cap (Keys \ {k}) = DOMAIN apiKeys \ {k}
    OBVIOUS
  <2>3. Balances' = [i \in DOMAIN Balances \ {k} |-> Balances[i]] /\ k \in DOMAIN Balances
    BY <2>1, <2>2 DEF Only, Balances
  <2>4. Books!Close(k)
    BY <1>1, <2>1, <2>3 DEF Books!Close
  <2> QED BY <2>4 DEF Books!BillingNext
<1>6. ASSUME NEW k \in Keys, ReplaceRules(k) PROVE [Books!BillingNext]_(Books!billingVars)
  BY <1>3, <1>6 DEF ReplaceRules, SetModelRules
<1>7. ASSUME NEW p \in Providers, CreateProvider(p)
      PROVE  [Books!BillingNext]_(Books!billingVars)
  <2>1. apiKeys' = apiKeys /\ issued' = issued \cup {p} /\ p \notin Keys
    BY <1>7, StoreAssumption DEF CreateProvider, ProviderCreate
  <2> QED BY <1>2, <2>1 DEF Balances
<1>8. ASSUME NEW p \in Providers, DeleteProvider(p)
      PROVE  [Books!BillingNext]_(Books!billingVars)
  <2>1. \A k \in DOMAIN apiKeys : apiKeys[k] \in KeyRow
    OBVIOUS
  <2>2. Balances' = Balances /\ issued' = issued
    BY <1>8, <2>1 DEF DeleteProvider, ProviderDelete, Balances, KeyRow
  <2> QED BY <1>2, <2>2
<1>9. ASSUME NEW m \in Models, CreateModel(m) \/ DeleteModel(m)
      PROVE  [Books!BillingNext]_(Books!billingVars)
  <2>1. apiKeys' = apiKeys /\ issued' \cap Keys = issued \cap Keys
    BY <1>9, StoreAssumption DEF CreateModel, ModelCreate, DeleteModel
  <2> QED BY <1>2, <2>1 DEF Balances
<1>10. ASSUME NEW a \in Admins, UpdateAPIKey(a) PROVE [Books!BillingNext]_(Books!billingVars)
  <2> DEFINE k == draft[a].id
  <2> DEFINE copy == PatchKey(draft[a].row, draft[a].body)
  <2>1. copy \in KeyRow
    BY <1>10, DraftTyped, PatchTyped DEF UpdateAPIKey, Editing, KeyDraft
  <2>2. /\ k \in DOMAIN apiKeys /\ issued' = issued
        /\ apiKeys' = [apiKeys EXCEPT ![k] =
              [copy EXCEPT !.usedTokens = apiKeys[k].usedTokens,
                           !.usedReqs = apiKeys[k].usedReqs]]
    BY <1>10 DEF UpdateAPIKey, KeyUpdate
  <2> HIDE DEF k, copy
  <2>3. \A i \in DOMAIN apiKeys : /\ apiKeys'[i].usedReqs = apiKeys[i].usedReqs
                                  /\ apiKeys'[i].usedTokens = apiKeys[i].usedTokens
    BY <2>1, <2>2 DEF KeyRow
  <2>4. Balances' = Balances
    BY <2>2, <2>3 DEF Balances
  <2> QED BY <1>2, <2>2, <2>4
<1>11. ASSUME NEW a \in Admins,
              \/ UpdateProvider(a) \/ UpdateModel(a) \/ UpdateFails(a) \/ DefaultModelFails(a)
              \/ \E k \in Keys : Begin(a, "key", k, apiKeys, KeyBodies)
              \/ \E p \in Providers : Begin(a, "provider", p, providers, ProviderBodies)
              \/ \E m \in Models : Begin(a, "model", m, models, ModelBodies)
       PROVE  [Books!BillingNext]_(Books!billingVars)
  BY <1>3, <1>11 DEF UpdateProvider, UpdateModel, UpdateFails, DefaultModelFails, Begin, storeVars
<1>12. ASSUME NEW a \in Admins, \/ \E p \in Providers : BootstrapPreset(a, p)
                                \/ \E m \in Models : DefaultModel(a, m)
       PROVE  [Books!BillingNext]_(Books!billingVars)
  <2>1. apiKeys' = apiKeys /\ issued' \cap Keys = issued \cap Keys
    BY <1>12, StoreAssumption DEF BootstrapPreset, ProviderCreate, DefaultModel, ModelCreate
  <2> QED BY <1>2, <2>1 DEF Balances
<1> QED BY <1>4, <1>5, <1>6, <1>7, <1>8, <1>9, <1>10, <1>11, <1>12 DEF AdminNext

(* A crash writes off everything that was due. *)
LEMMA CrashInBooks ==
  ASSUME TypeOK, Crash
  PROVE  Books!BillingNext
<1>1. Due' = {} /\ Balances' = Balances /\ UNCHANGED <<issued, served>>
  BY DEF Crash, RelayCrash, Due, ToCharge, ToLog, Balances, storeVars
<1>2. {r.id : r \in Due} = {call[w].id : w \in ToCharge}
  <2>1. \A w \in ToCharge : ReceiptOf(w) \in Due /\ ReceiptOf(w).id = call[w].id
    BY DEF Due, ReceiptOf
  <2>2. \A r \in Due : \E w \in ToCharge : r = ReceiptOf(w)
    BY DEF Due, ReceiptOf
  <2> QED BY <2>1, <2>2
<1>3. Books!WriteOff(Due)
  BY <1>1, <1>2 DEF Crash, RelayCrash, Books!WriteOff
<1> QED BY <1>3 DEF Books!BillingNext

(* Every step of the server is a step of the books or leaves them alone. *)
LEMMA StepOfBooks ==
  ASSUME TypeOK, CallsNumbered, ServedInv, [Next]_vars
  PROVE  [Books!BillingNext]_(Books!billingVars)
<1> USE DEF TypeOK, RelayTypeOK, WorkTypeOK
<1>0. ASSUME BooksAtRest PROVE [Books!BillingNext]_(Books!billingVars)
  BY <1>0, AtRestStutters
<1>1. ASSUME NEW w \in Workers, Receive(w) \/ ClientGone(w) \/ StreamChunk(w)
      PROVE  [Books!BillingNext]_(Books!billingVars)
  <2>1. BooksAtRest
    <3>1. CASE Receive(w)
      BY <3>1, OthersAtRest DEF Receive, Goto, ToCharge, ToLog, storeVars, historyVars
    <3>2. CASE ClientGone(w)
      BY <3>2 DEF ClientGone, BooksAtRest, ToCharge, ToLog, Balances, storeVars, historyVars
    <3>3. CASE StreamChunk(w)
      BY <3>3, OthersAtRest DEF StreamChunk, ToCharge, ToLog, storeVars, historyVars
    <3> QED BY <1>1, <3>1, <3>2, <3>3
  <2> QED BY <1>0, <2>1
<1>2. ASSUME NEW w \in Workers, Handler(w) PROVE [Books!BillingNext]_(Books!billingVars)
  BY <1>0, <1>2, HandlerAtRest, AnswerInBooks, ChargeInBooks
<1>3. ASSUME UNCHANGED <<storeVars, workVars, historyVars>>
      PROVE  [Books!BillingNext]_(Books!billingVars)
  BY <1>0, <1>3 DEF BooksAtRest, ToCharge, ToLog, Balances, storeVars, workVars, historyVars
<1>4. CASE AdminNext /\ UNCHANGED <<relayVars, crashes>>
  BY <1>4, AdminInBooks DEF ServedInv
<1>5. CASE Crash
  BY <1>5, CrashInBooks
<1>6. CASE Tick \/ UNCHANGED vars
  BY <1>3, <1>6 DEF Tick, vars, relayVars
<1> QED BY <1>1, <1>2, <1>4, <1>5, <1>6 DEF Next, RelayNext

-----------------------------------------------------------------------------
(* The numbers and receipts of the calls in progress are in order. *)
LEMMA CallsInOrder == Spec => [](CallsNumbered /\ ServedInv)
<1>1. Init => CallsNumbered /\ ServedInv
  BY DEF Init, RelayInit, Limiter!RateInit, CallsNumbered, CallsDiffer, CallsArrived,
         RecordedArrived, NotYetRecorded, BeforeLimiter, ServedInv, NotYetServed,
         ServedArrived, KeysIssued, KnownIssued, BeforeAnswer
<1>2. TypeOK /\ CallsNumbered /\ ServedInv /\ [Next]_vars => (CallsNumbered /\ ServedInv)'
  BY StepNumbered, StepServed
<1> QED BY <1>1, <1>2, TypeCorrect, PTL DEF Spec

(* The server implements the books: for every number of calls, keys and    *)
(* admins, and whatever failures and crashes come in between, a counter of *)
(* api_keys moves only as Billing allows (incrementQuota, service.go:380). *)
THEOREM ServerKeepsBooks == Spec => BillingSpec
<1>1. Init => Books!BillingInit
  <2> SUFFICES ASSUME Init PROVE Books!BillingInit
    OBVIOUS
  <2>1. issued \cap Keys = DOMAIN apiKeys
    BY StoreAssumption, SetupAssumption DEF Init
  <2>2. \A k \in DOMAIN apiKeys : apiKeys[k].usedReqs = 0 /\ apiKeys[k].usedTokens = 0
    BY SetupAssumption DEF Init
  <2>3. Balances = [k \in issued \cap Keys |-> [reqs |-> 0, tokens |-> 0]]
    BY <2>1, <2>2 DEF Balances
  <2>4. Due = {} /\ served = {} /\ uncharged = {}
    BY DEF Init, RelayInit, Due, ToCharge, ToLog
  <2> QED BY <2>3, <2>4 DEF Books!BillingInit
<1>2. TypeOK /\ CallsNumbered /\ ServedInv /\ [Next]_vars
        => [Books!BillingNext]_(Books!billingVars)
  BY StepOfBooks
<1> QED BY <1>1, <1>2, CallsInOrder, TypeCorrect, PTL DEF Spec, BillingSpec, Books!BillingSpec

(* What the two instances of the books have in common. *)
LEMMA BooksAreLedger ==
  /\ Books!BillingSpec => Ledger!BillingSpec
  /\ Ledger!RequestsExact => Books!RequestsExact
  /\ Ledger!TokensExact => Books!TokensExact
<1>0. \A S : Books!Cardinality(S) = Ledger!Cardinality(S)
  BY DEF Books!Cardinality, Ledger!Cardinality
<1>1. Books!BillingInit => Ledger!BillingInit
  BY DEF Books!BillingInit, Ledger!BillingInit
<1>2. [Books!BillingNext]_(Books!billingVars) => [Ledger!BillingNext]_(Ledger!billingVars)
  BY DEF Books!billingVars, Ledger!billingVars, Books!BillingNext, Ledger!BillingNext,
     Books!Open, Ledger!Open, Books!Close, Ledger!Close, Books!Answer, Ledger!Answer,
     Books!Charge, Ledger!Charge, Books!WriteOff, Ledger!WriteOff, Books!Receipt, Ledger!Receipt
<1>3. Ledger!RequestsExact => Books!RequestsExact
  BY <1>0 DEF Ledger!RequestsExact, Books!RequestsExact, Ledger!Charged, Books!Charged
<1>4. ASSUME NEW S PROVE Books!TokensOf(S) = Ledger!TokensOf(S)
  BY DEF Books!TokensOf, Ledger!TokensOf, Books!MapThenSumSet, Ledger!MapThenSumSet,
     Books!MapThenFoldSet, Ledger!MapThenFoldSet
<1>5. Ledger!TokensExact => Books!TokensExact
  BY <1>4 DEF Ledger!TokensExact, Books!TokensExact, Ledger!Charged, Books!Charged
<1> QED BY <1>1, <1>2, <1>3, <1>5, PTL DEF Books!BillingSpec, Ledger!BillingSpec

(* The books of the server are exact. *)
LEMMA LedgerExact == Ledger!BillingSpec => [](Ledger!RequestsExact /\ Ledger!TokensExact)
<1>1. Ledger!TokensAreNumbers
  BY TokensTyped DEF Ledger!TokensAreNumbers
<1> QED BY <1>1, Ledger!BooksExact, Ledger!BooksAddUp, PTL

(* So used_reqs of every key is the number of calls an upstream answered   *)
(* for it, less those still to be charged and those whose charge a failure *)
(* or a crash prevented.                                                   *)
THEOREM RequestsExactlyCharged == Spec => []RequestsMatchCalls
BY ServerKeepsBooks, BooksAreLedger, LedgerExact, PTL DEF BillingSpec, RequestsMatchCalls

(* And used_tokens of every key is the sum of what these calls were        *)
(* answered with, in whatever order their charges were written             *)
(* (IncrementUsage, stores.go:318).                                        *)
THEOREM TokensExactlyCharged == Spec => []TokensMatchCalls
BY ServerKeepsBooks, BooksAreLedger, LedgerExact, PTL DEF BillingSpec, TokensMatchCalls

-----------------------------------------------------------------------------
(* The usage log.  Besides ServedInv it needs two facts of what is around: *)
(* a call that failed has no tokens to add, and a key that is made has no  *)
(* entries waiting for it (NoDanglingReference).                           *)
FailuresFree == \A w \in Workers : pc[w] = "record" /\ ~result[w].ok => result[w].tokens = 0

(* A call fails without tokens. *)
LEMMA FailuresStayFree ==
  ASSUME TypeOK, FailuresFree, [Next]_vars
  PROVE  FailuresFree'
<1> USE DEF TypeOK, RelayTypeOK, WorkTypeOK, FailuresFree, Goto
<1>1. ASSUME NEW w \in Workers, Finish(w) PROVE FailuresFree'
  BY <1>1 DEF Finish
<1>2. ASSUME NEW w \in Workers, Receive(w) \/ ClientGone(w) \/ StreamChunk(w)
      PROVE  FailuresFree'
  BY <1>2 DEF Receive, ClientGone, StreamChunk
<1>3. ASSUME NEW w \in Workers, Handler(w), ~Finish(w) PROVE FailuresFree'
  <2>1. CASE UpstreamAnswers(w) \/ StreamEnds(w)
    <3>1. PICK t \in Tokens :
              /\ pc' = [pc EXCEPT ![w] = "record"]
              /\ result' = [result EXCEPT ![w] = [ok |-> TRUE, tokens |-> t]]
      BY <2>1, AnswerServes
    <3> QED BY <3>1
  <2>2. CASE UpstreamFails(w)
    BY <2>2 DEF UpstreamFails
  <2>3. CASE StreamOpens(w)
    BY <2>3 DEF StreamOpens
  <2>4. CASE Authenticate(w) \/ Admit(w) \/ FindModel(w) \/ CheckRules(w) \/ GetAdapter(w)
    BY <1>3, <2>4 DEF Authenticate, Admit, FindModel, CheckRules, GetAdapter
  <2>5. CASE RecordUsage(w)
    BY <1>3, <2>5 DEF RecordUsage
  <2> QED BY <1>3, <2>1, <2>2, <2>3, <2>4, <2>5
          DEF Handler, Abort, BindFails, RateLimited, ModelNotFound, IncrementQuota
<1>4. CASE UNCHANGED workVars
  BY <1>4 DEF workVars
<1>5. CASE Crash
  BY <1>5 DEF Crash, RelayCrash
<1>6. Tick \/ UNCHANGED relayVars \/ UNCHANGED vars => UNCHANGED workVars
  BY DEF Tick, relayVars, vars
<1> QED BY <1>1, <1>2, <1>3, <1>4, <1>5, <1>6 DEF Next, RelayNext

(* A step that writes no entry, opens no account, answers no call and      *)
(* leaves the calls to be logged as they are.                              *)
JournalAtRest ==
  /\ Entries' = Entries
  /\ issued' \cap Keys = issued \cap Keys
  /\ UNCHANGED <<served, unlogged>>
  /\ ToLog' = ToLog
  /\ \A w \in ToLog : call'[w] = call[w] /\ result'[w] = result[w]

(* Such a step leaves the journal alone. *)
LEMMA JournalStutters ==
  ASSUME JournalAtRest
  PROVE  UNCHANGED Journal!billingVars
<1>1. Unwritten' = Unwritten
  BY DEF JournalAtRest, Unwritten, ReceiptOf
<1> QED BY <1>1 DEF JournalAtRest, Journal!billingVars

(* Every step of a handler but an answer and an entry. *)
LEMMA HandlerQuiet ==
  ASSUME TypeOK, NEW w \in Workers, Handler(w),
         ~UpstreamAnswers(w), ~StreamEnds(w), ~RecordUsage(w)
  PROVE  JournalAtRest
<1> USE DEF TypeOK, RelayTypeOK, WorkTypeOK, Goto, historyVars, storeVars
<1>1. /\ pc[w] # "record" /\ (pc'[w] # "record" \/ ~result'[w].ok)
      /\ \A v \in Workers \ {w} : pc'[v] = pc[v] /\ call'[v] = call[v] /\ result'[v] = result[v]
  <2>1. CASE Finish(w)
    BY <2>1 DEF Finish, Handler, Abort, Authenticate, BindFails, Admit, RateLimited, FindModel,
       ModelNotFound, CheckRules, GetAdapter, UpstreamFails, StreamOpens, IncrementQuota
  <2>2. CASE ~Finish(w)
    BY <2>2 DEF Handler, Abort, Authenticate, BindFails, Admit, RateLimited, FindModel,
       ModelNotFound, CheckRules, GetAdapter, UpstreamFails, StreamOpens, IncrementQuota
  <2> QED BY <2>1, <2>2
<1>2. UNCHANGED <<usageLogs, issued, served, unlogged>> /\ DOMAIN apiKeys' = DOMAIN apiKeys
  BY DEF Handler, Abort, Authenticate, BindFails, Admit, RateLimited, FindModel, ModelNotFound,
     CheckRules, GetAdapter, UpstreamFails, StreamOpens, IncrementQuota, IncrementUsage
<1>3. ToLog' = ToLog /\ \A v \in ToLog : call'[v] = call[v] /\ result'[v] = result[v]
  BY <1>1 DEF ToLog
<1> QED BY <1>2, <1>3 DEF JournalAtRest, Entries

(* An answer is an answer in the journal. *)
LEMMA AnswerInJournal ==
  ASSUME TypeOK, ServedInv, NEW w \in Workers, UpstreamAnswers(w) \/ StreamEnds(w)
  PROVE  Journal!BillingNext
<1> USE DEF TypeOK, RelayTypeOK, WorkTypeOK
<1>1. PICK t \in Tokens :
            /\ pc[w] \in {"upstream", "streaming"} /\ pc' = [pc EXCEPT ![w] = "record"]
            /\ call' = call
            /\ result' = [result EXCEPT ![w] = [ok |-> TRUE, tokens |-> t]]
            /\ served' = served \cup {[id |-> call[w].id, key |-> call[w].key, tokens |-> t]}
            /\ UNCHANGED <<apiKeys, issued, uncharged>>
  BY AnswerServes
<1>2. UNCHANGED <<usageLogs, unlogged>>
  BY DEF UpstreamAnswers, StreamEnds, storeVars
<1> DEFINE r == [id |-> call[w].id, key |-> call[w].key, tokens |-> t]
<1>3. call[w] \in Call /\ r \in Journal!Receipt /\ r.key = call[w].key /\ r.id = call[w].id
  BY <1>1 DEF Call, Journal!Receipt
<1>4. r.key \in issued \cap Keys /\ \A s \in served : s.id # r.id
  BY <1>1, <1>3 DEF ServedInv, NotYetServed, KeysIssued, BeforeAnswer, Call
<1>5. ToLog' = ToLog \cup {w} /\ w \notin ToLog
  BY <1>1 DEF ToLog
<1>6. \A v \in ToLog : ReceiptOf(v)' = ReceiptOf(v)
  BY <1>1, <1>5 DEF ReceiptOf, ToLog
<1>7. ReceiptOf(w)' = r
  BY <1>1 DEF ReceiptOf
<1> HIDE DEF r
<1>8. Unwritten = {ReceiptOf(v) : v \in ToLog} /\ Unwritten' = {ReceiptOf(v)' : v \in ToLog'}
  BY DEF Unwritten, ReceiptOf
<1>9. Unwritten' = Unwritten \cup {r}
  BY <1>5, <1>6, <1>7, <1>8
<1>10. Entries' = Entries
  BY <1>1, <1>2 DEF Entries
<1>11. Journal!Answer(r)
  BY <1>1, <1>2, <1>4, <1>9, <1>10 DEF Journal!Answer, r
<1> QED BY <1>3, <1>11 DEF Journal!BillingNext

(* An entry with 200 is a charge; one with 502 adds nothing; one that      *)
(* fails for an answered call is written off.                              *)
LEMMA RecordInJournal ==
  ASSUME TypeOK, CallsNumbered, FailuresFree, NEW w \in Workers, RecordUsage(w)
  PROVE  [Journal!BillingNext]_(Journal!billingVars)
<1> USE DEF TypeOK, RelayTypeOK, WorkTypeOK, StoreTypeOK
<1> DEFINE r == ReceiptOf(w)
           k == call[w].key
<1>1. /\ pc[w] = "record" /\ pc'[w] # "record"
      /\ \A v \in Workers \ {w} :
            pc'[v] = pc[v] /\ call'[v] = call[v] /\ result'[v] = result[v]
      /\ UNCHANGED <<apiKeys, issued, served>>
  BY DEF RecordUsage, Finish, Goto
<1>2. call[w] \in Call /\ result[w] \in Result
  BY <1>1
<1>3. k \in Keys /\ result[w].tokens \in Nat /\ usageLogs[k] \in Tally
  BY <1>2, TokensTyped DEF Call, Result
<1>4. ToLog' = ToLog \ {w}
  BY <1>1 DEF ToLog
<1>5. CASE ~result[w].ok
  <2>1. ToLog' = ToLog /\ \A v \in ToLog : call'[v] = call[v] /\ result'[v] = result[v]
    BY <1>1, <1>4, <1>5 DEF ToLog
  <2>2. unlogged' = unlogged
    BY <1>5 DEF RecordUsage
  <2>3. usageLogs' = usageLogs \/ UsageAppend(k, FALSE, 0)
    BY <1>1, <1>2, <1>5 DEF RecordUsage, FailuresFree, Result
  <2>4. Entries' = Entries
    BY <1>1, <2>3 DEF Entries, UsageAppend, Tally
  <2> QED BY <1>1, <2>1, <2>2, <2>4, JournalStutters DEF JournalAtRest
<1>6. CASE result[w].ok
  <2>1. w \in ToLog
    BY <1>1, <1>6 DEF ToLog
  <2>2. \A v \in ToLog \ {w} : ReceiptOf(v)' = ReceiptOf(v) /\ ReceiptOf(v) # r
    BY <1>1 DEF ReceiptOf, ToLog, CallsNumbered, CallsDiffer
  <2>3. r.id = call[w].id /\ r.key = k /\ r.tokens = result[w].tokens
    BY DEF ReceiptOf
  <2> HIDE DEF r, k
  <2>4. Unwritten = {ReceiptOf(v) : v \in ToLog} /\ Unwritten' = {ReceiptOf(v)' : v \in ToLog'}
    BY DEF Unwritten, ReceiptOf
  <2>5. r \in Unwritten /\ Unwritten' = Unwritten \ {r}
    BY <1>4, <2>1, <2>2, <2>4 DEF r
  <2>6. CASE CanAppend(k) /\ UsageAppend(k, TRUE, r.tokens) /\ unlogged' = unlogged
    <3>1. k \in DOMAIN Entries
      BY <2>6 DEF CanAppend, Entries
    <3>2. /\ usageLogs'[k].ok = usageLogs[k].ok + 1
          /\ usageLogs'[k].tokens = usageLogs[k].tokens + r.tokens
          /\ \A i \in Keys \ {k} : usageLogs'[i] = usageLogs[i]
      BY <1>3, <2>6 DEF UsageAppend, Tally
    <3>3. Entries' = [Entries EXCEPT ![k] = [reqs |-> @.reqs + 1, tokens |-> @.tokens + r.tokens]]
      BY <1>1, <3>2 DEF Entries
    <3>4. Journal!Charge(r)
      BY <1>1, <2>3, <2>5, <2>6, <3>1, <3>3 DEF Journal!Charge
    <3> QED BY <2>5, <3>4 DEF Journal!BillingNext
  <2>7. CASE usageLogs' = usageLogs /\ unlogged' = unlogged \cup {r.id}
    <3>1. Entries' = Entries
      BY <1>1, <2>7 DEF Entries
    <3>2. Unwritten' = Unwritten \ {r} /\ {s.id : s \in {r}} = {r.id} /\ {r} \in SUBSET Unwritten
      BY <2>5
    <3>3. Journal!WriteOff({r})
      BY <1>1, <2>7, <3>1, <3>2 DEF Journal!WriteOff
    <3> QED BY <3>2, <3>3 DEF Journal!BillingNext
  <2>8. \/ CanAppend(k) /\ UsageAppend(k, TRUE, r.tokens) /\ unlogged' = unlogged
        \/ usageLogs' = usageLogs /\ unlogged' = unlogged \cup {r.id}
    <3>1. result[w].ok = TRUE
      BY <1>2, <1>6 DEF Result
    <3> QED BY <2>3, <3>1 DEF RecordUsage, k
  <2> QED BY <2>6, <2>7, <2>8
<1> QED BY <1>5, <1>6

(* Admins open and close accounts, and write no entry. *)
LEMMA AdminInJournal ==
  ASSUME TypeOK, KnownIssued, ForeignKeysHold, AdminNext, UNCHANGED relayVars
  PROVE  [Journal!BillingNext]_(Journal!billingVars)
<1> USE DEF TypeOK, StoreTypeOK
<1>1. /\ UNCHANGED <<pc, call, result, served, unlogged>>
      /\ ToLog' = ToLog /\ Unwritten' = Unwritten
  BY DEF relayVars, workVars, historyVars, ToLog, Unwritten, ReceiptOf
<1>2. ASSUME DOMAIN apiKeys' = DOMAIN apiKeys, usageLogs' = usageLogs,
             issued' \cap Keys = issued \cap Keys
      PROVE  [Journal!BillingNext]_(Journal!billingVars)
  BY <1>1, <1>2, JournalStutters DEF JournalAtRest, Entries
<1>3. ASSUME NEW k \in Keys, CreateAPIKey(k) \/ CtlCreateKey(k)
      PROVE  [Journal!BillingNext]_(Journal!billingVars)
  <2>1. PICK row : AddKey(k, row)
    BY <1>3 DEF CreateAPIKey, CtlCreateKey
  <2>2. k \notin issued /\ issued' \cap Keys = (issued \cap Keys) \cup {k}
    BY <2>1 DEF AddKey, KeyCreate
  <2>3. DOMAIN apiKeys' = DOMAIN apiKeys \cup {k} /\ usageLogs' = usageLogs
    BY <2>1 DEF AddKey, KeyCreate, With
  <2>4. usageLogs[k].ok = 0 /\ usageLogs[k].tokens = 0 /\ k \notin DOMAIN apiKeys
    BY <2>2 DEF ForeignKeysHold, NoEntries, KnownIssued
  <2>5. Entries' = [i \in DOMAIN Entries \cup {k} |->
                      IF i = k THEN [reqs |-> 0, tokens |-> 0] ELSE Entries[i]]
    BY <2>3, <2>4 DEF Entries
  <2>6. Journal!Open(k)
    BY <1>1, <2>2, <2>5 DEF Journal!Open
  <2> QED BY <2>6 DEF Journal!BillingNext
<1>4. ASSUME NEW k \in Keys, DeleteAPIKey(k) PROVE [Journal!BillingNext]_(Journal!billingVars)
  <2>1. /\ k \in DOMAIN apiKeys /\ DOMAIN apiKeys' = DOMAIN apiKeys \ {k} /\ issued' = issued
        /\ \A i \in DOMAIN apiKeys' : usageLogs'[i] = usageLogs[i]
    BY <1>4 DEF DeleteAPIKey, KeyDelete, Only
  <2>2. Entries' = [i \in DOMAIN Entries \ {k} |-> Entries[i]] /\ k \in DOMAIN Entries
    BY <2>1 DEF Entries
  <2>3. Journal!Close(k)
    BY <1>1, <2>1, <2>2 DEF Journal!Close
  <2> QED BY <2>3 DEF Journal!BillingNext
<1> DEFINE Quiet == /\ DOMAIN apiKeys' = DOMAIN apiKeys /\ usageLogs' = usageLogs
                    /\ issued' \cap Keys = issued \cap Keys
<1>5. ASSUME NEW p \in Providers, CreateProvider(p) \/ DeleteProvider(p) PROVE Quiet
  BY <1>5, StoreAssumption DEF CreateProvider, ProviderCreate, DeleteProvider, ProviderDelete
<1>6. ASSUME NEW m \in Models, CreateModel(m) \/ DeleteModel(m) PROVE Quiet
  BY <1>6, StoreAssumption DEF CreateModel, ModelCreate, DeleteModel
<1>7. ASSUME NEW a \in Admins, \/ \E p \in Providers : BootstrapPreset(a, p)
                               \/ \E m \in Models : DefaultModel(a, m)
      PROVE  Quiet
  BY <1>7, StoreAssumption DEF BootstrapPreset, ProviderCreate, DefaultModel, ModelCreate
<1>8. ASSUME NEW a \in Admins, UpdateAPIKey(a) PROVE Quiet
  BY <1>8 DEF UpdateAPIKey, KeyUpdate
<1>9. ASSUME \/ \E k \in Keys : ReplaceRules(k)
             \/ \E a \in Admins :
                  \/ UpdateProvider(a) \/ UpdateModel(a) \/ UpdateFails(a) \/ DefaultModelFails(a)
                  \/ \E k \in Keys : Begin(a, "key", k, apiKeys, KeyBodies)
                  \/ \E p \in Providers : Begin(a, "provider", p, providers, ProviderBodies)
                  \/ \E m \in Models : Begin(a, "model", m, models, ModelBodies)
      PROVE  Quiet
  BY <1>9 DEF ReplaceRules, UpdateProvider, UpdateModel, UpdateFails, DefaultModelFails, Begin,
              storeVars
<1> HIDE DEF Quiet
<1>10. Quiet => [Journal!BillingNext]_(Journal!billingVars)
  BY <1>2 DEF Quiet
<1> QED BY <1>3, <1>4, <1>5, <1>6, <1>7, <1>8, <1>9, <1>10 DEF AdminNext

(* A crash writes off everything that was to be logged. *)
LEMMA CrashInJournal ==
  ASSUME TypeOK, Crash
  PROVE  Journal!BillingNext
<1>1. Unwritten' = {} /\ Entries' = Entries /\ UNCHANGED <<issued, served>>
  BY DEF Crash, RelayCrash, Unwritten, ToLog, Entries, storeVars
<1>2. {r.id : r \in Unwritten} = {call[w].id : w \in ToLog}
  <2>1. \A w \in ToLog : ReceiptOf(w) \in Unwritten /\ ReceiptOf(w).id = call[w].id
    BY DEF Unwritten, ReceiptOf
  <2>2. \A r \in Unwritten : \E w \in ToLog : r = ReceiptOf(w)
    BY DEF Unwritten
  <2> QED BY <2>1, <2>2
<1>3. Journal!WriteOff(Unwritten)
  BY <1>1, <1>2 DEF Crash, RelayCrash, Journal!WriteOff
<1> QED BY <1>3 DEF Journal!BillingNext

(* Every step of the server is a step of the journal or leaves it alone. *)
LEMMA StepOfJournal ==
  ASSUME TypeOK, CallsNumbered, ServedInv, FailuresFree, ForeignKeysHold, [Next]_vars
  PROVE  [Journal!BillingNext]_(Journal!billingVars)
<1> USE DEF TypeOK, RelayTypeOK, WorkTypeOK
<1>0. ASSUME JournalAtRest PROVE [Journal!BillingNext]_(Journal!billingVars)
  BY <1>0, JournalStutters
<1>1. ASSUME NEW w \in Workers, Receive(w) \/ ClientGone(w) \/ StreamChunk(w)
      PROVE  [Journal!BillingNext]_(Journal!billingVars)
  <2>1. UNCHANGED <<apiKeys, usageLogs, issued, served, unlogged>>
    BY <1>1 DEF Receive, ClientGone, StreamChunk, storeVars, historyVars
  <2>2. /\ pc[w] = "record" => /\ pc' = pc /\ call' = call /\ result' = result
        /\ pc[w] # "record" => pc'[w] # "record"
        /\ \A v \in Workers \ {w} :
              pc'[v] = pc[v] /\ call'[v] = call[v] /\ result'[v] = result[v]
    BY <1>1 DEF Receive, ClientGone, StreamChunk, Goto
  <2>3. ToLog' = ToLog /\ \A v \in ToLog : call'[v] = call[v] /\ result'[v] = result[v]
    BY <2>2 DEF ToLog
  <2> QED BY <1>0, <2>1, <2>3 DEF JournalAtRest, Entries
<1>2. ASSUME NEW w \in Workers, Handler(w) PROVE [Journal!BillingNext]_(Journal!billingVars)
  BY <1>0, <1>2, HandlerQuiet, AnswerInJournal, RecordInJournal
<1>3. ASSUME UNCHANGED <<storeVars, workVars, historyVars>>
      PROVE  [Journal!BillingNext]_(Journal!billingVars)
  BY <1>0, <1>3 DEF JournalAtRest, ToLog, Entries, storeVars, workVars, historyVars
<1>4. CASE AdminNext /\ UNCHANGED <<relayVars, crashes>>
  BY <1>4, AdminInJournal DEF ServedInv
<1>5. CASE Crash
  BY <1>5, CrashInJournal
<1>6. CASE Tick \/ UNCHANGED vars
  BY <1>3, <1>6 DEF Tick, vars, relayVars
<1> QED BY <1>1, <1>2, <1>4, <1>5, <1>6 DEF Next, RelayNext

(* The usage log is kept by the same rules as the counters: every entry    *)
(* with 200 is that of one answered call, made once or never, whatever     *)
(* failures, deletes and crashes come between (recordUsage,                *)
(* service.go:362).                                                        *)
THEOREM ServerKeepsJournal == Spec => JournalSpec
<1>1. Init => Journal!BillingInit /\ FailuresFree
  <2> SUFFICES ASSUME Init PROVE Journal!BillingInit /\ FailuresFree
    OBVIOUS
  <2>1. issued \cap Keys = DOMAIN apiKeys /\ DOMAIN apiKeys \subseteq Keys
    BY StoreAssumption, SetupAssumption DEF Init
  <2>2. Entries = [k \in issued \cap Keys |-> [reqs |-> 0, tokens |-> 0]]
    BY <2>1 DEF Init, NoEntries, Entries
  <2>3. Unwritten = {} /\ served = {} /\ unlogged = {} /\ FailuresFree
    BY DEF Init, RelayInit, Unwritten, ToLog, FailuresFree
  <2> QED BY <2>2, <2>3 DEF Journal!BillingInit
<1>2. TypeOK /\ FailuresFree /\ [Next]_vars => FailuresFree'
  BY FailuresStayFree
<1>3. TypeOK /\ CallsNumbered /\ ServedInv /\ FailuresFree /\ ForeignKeysHold /\ [Next]_vars
        => [Journal!BillingNext]_(Journal!billingVars)
  BY StepOfJournal
<1> QED BY <1>1, <1>2, <1>3, CallsInOrder, TypeCorrect, NoDanglingReference, PTL
        DEF Spec, JournalSpec, Journal!BillingSpec

(* The journal again, with the theorems about it. *)
Logbook == INSTANCE BillingProofs WITH
  Accounts <- Keys, Calls <- Requests,
  balance <- Entries, opened <- issued \cap Keys,
  answered <- served, due <- Unwritten, writtenOff <- unlogged

(* So the usage log of every key counts the calls an upstream answered for *)
(* it, and adds up their tokens, less those still to be written and those  *)
(* whose entry a failure or a crash kept out.                              *)
THEOREM LogTellsTheSame == Spec => []LogMatchesCalls
<1>0. \A S : Journal!Cardinality(S) = Logbook!Cardinality(S)
  BY DEF Journal!Cardinality, Logbook!Cardinality
<1>1. Journal!BillingInit => Logbook!BillingInit
  BY DEF Journal!BillingInit, Logbook!BillingInit
<1>2. [Journal!BillingNext]_(Journal!billingVars) => [Logbook!BillingNext]_(Logbook!billingVars)
  BY DEF Journal!billingVars, Logbook!billingVars, Journal!BillingNext, Logbook!BillingNext,
     Journal!Open, Logbook!Open, Journal!Close, Logbook!Close, Journal!Answer, Logbook!Answer,
     Journal!Charge, Logbook!Charge, Journal!WriteOff, Logbook!WriteOff,
     Journal!Receipt, Logbook!Receipt
<1>3. ASSUME NEW S PROVE Journal!TokensOf(S) = Logbook!TokensOf(S)
  BY DEF Journal!TokensOf, Logbook!TokensOf, Journal!MapThenSumSet, Logbook!MapThenSumSet,
     Journal!MapThenFoldSet, Logbook!MapThenFoldSet
<1>4. Logbook!RequestsExact /\ Logbook!TokensExact => LogMatchesCalls
  BY <1>0, <1>3 DEF LogMatchesCalls, Logbook!RequestsExact, Journal!RequestsExact,
     Logbook!TokensExact, Journal!TokensExact, Logbook!Charged, Journal!Charged
<1>5. Logbook!TokensAreNumbers
  BY TokensTyped DEF Logbook!TokensAreNumbers
<1> QED BY <1>1, <1>2, <1>4, <1>5, Logbook!BooksExact, Logbook!BooksAddUp, ServerKeepsJournal,
           PTL DEF JournalSpec, Journal!BillingSpec, Logbook!BillingSpec
=============================================================================
