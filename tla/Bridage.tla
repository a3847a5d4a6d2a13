-------------------------------- MODULE Bridage --------------------------------
(***************************************************************************)
(* The server: relay calls and management requests over one database, in   *)
(* one process that can stop and start again.                              *)
(***************************************************************************)
EXTENDS Relay, Admin, FiniteSetsExt

CONSTANTS
  Setup,        \* what admins set up before: [keys, providers, models, rules]
  MaxCrashes    \* bound of the model

(* Set up through the management API and not yet used. *)
ASSUME SetupAssumption ==
  /\ DOMAIN Setup.keys \subseteq Keys /\ Setup.keys \in [DOMAIN Setup.keys -> KeyRow]
  /\ DOMAIN Setup.providers \subseteq Providers
  /\ Setup.providers \in [DOMAIN Setup.providers -> ProviderRow]
  /\ DOMAIN Setup.models \subseteq Models
  /\ Setup.models \in [DOMAIN Setup.models -> ModelRow]
  /\ Setup.rules \subseteq Rule
  /\ \A k \in DOMAIN Setup.keys :
       /\ Setup.keys[k].usedTokens = 0 /\ Setup.keys[k].usedReqs = 0
       /\ RefersTo(Setup.keys[k].providerId, Setup.providers)
  /\ \A m \in DOMAIN Setup.models : Setup.models[m].provider \in DOMAIN Setup.providers
  /\ \A r \in Setup.rules : r.key \in DOMAIN Setup.keys /\ r.model \in DOMAIN Setup.models
  /\ MaxCrashes \in Nat

VARIABLE crashes

vars == <<storeVars, relayVars, adminVars, crashes>>

TypeOK ==
  /\ StoreTypeOK
  /\ RelayTypeOK
  /\ AdminTypeOK
  /\ crashes \in Nat

Init ==
  /\ apiKeys = Setup.keys
  /\ providers = Setup.providers
  /\ models = Setup.models
  /\ rules = Setup.rules
  /\ usageLogs = [k \in Keys |-> NoEntries]
  /\ issued = DOMAIN apiKeys \cup DOMAIN providers \cup DOMAIN models
  /\ RelayInit
  /\ AdminInit
  /\ crashes = 0

(* SIGTERM past the 15 seconds of grace, or worse. *)
Crash ==
  /\ crashes < MaxCrashes
  /\ crashes' = crashes + 1
  /\ RelayCrash
  /\ draft' = [a \in Admins |-> NULL]
  /\ UNCHANGED <<edits, quotaHistory>>

RelayNext ==
  \/ \E w \in Workers : Receive(w) \/ ClientGone(w) \/ StreamChunk(w) \/ Handler(w)
  \/ Tick

Next ==
  \/ RelayNext /\ UNCHANGED <<adminVars, crashes>>
  \/ AdminNext /\ UNCHANGED <<relayVars, crashes>>
  \/ Crash

Spec == Init /\ [][Next]_vars

(* A handler that can take its next step takes it: goroutines are          *)
(* scheduled, a query returns or fails, and http.Client.Timeout ends every *)
(* upstream exchange, the reading of a stream included.  Nothing makes a   *)
(* client send a call, stay or leave, or an admin come.                    *)
FairSpec == Spec /\ \A w \in Workers : WF_vars(Handler(w) /\ UNCHANGED <<adminVars, crashes>>)

-----------------------------------------------------------------------------
(* Quotas.                                                                 *)

(* CheckQuota decides on the row Authenticate read, and the charge comes   *)
(* last.  A key that always had a request quota can exceed it all the      *)
(* same, but by less than the number of calls in progress at once:         *)
(* whatever admins, failures and restarts do in between.                   *)
QuotaOvershootBounded ==
  \A k \in DOMAIN apiKeys :
     highQuota[k] > 0 => apiKeys[k].usedReqs <= highQuota[k] - 1 + Cardinality(Workers)

(* The same of the token quota.  What a call costs is known when it has    *)
(* been answered, so the overshoot is bounded by the largest calls that    *)
(* can be in progress at once, and by nothing smaller.                     *)
LargestCall == Max(Tokens)

TokenOvershootBounded ==
  \A k \in DOMAIN apiKeys :
     highTokens[k] > 0 =>
        apiKeys[k].usedTokens <= highTokens[k] - 1 + Cardinality(Workers) * LargestCall

(* The cap README.md:216 promises ("Cumulative request cap"). *)
RequestCapHolds ==
  \A k \in DOMAIN apiKeys :
     highQuota[k] > 0 => apiKeys[k].usedReqs <= highQuota[k]

-----------------------------------------------------------------------------
(* Accounting.                                                             *)

ReceiptOf(w) == [id |-> call[w].id, key |-> call[w].key, tokens |-> result[w].tokens]

(* The receipts of the calls that were answered and are not charged yet. *)
Due == {ReceiptOf(w) : w \in ToCharge}

(* What every key has been charged. *)
Balances == [k \in DOMAIN apiKeys |->
               [reqs |-> apiKeys[k].usedReqs, tokens |-> apiKeys[k].usedTokens]]

(* The server's accounts, seen as Billing sees them. *)
Books == INSTANCE Billing WITH
  Accounts <- Keys, Calls <- Requests,
  balance <- Balances, opened <- issued \cap Keys,
  answered <- served, due <- Due, writtenOff <- uncharged

(* Every step of the server is one step of the books or leaves them as     *)
(* they are: whatever the interleaving of calls, failures, crashes and     *)
(* edits, a balance moves only when an answered call is charged to the key *)
(* it was made with, and a charge that was lost is lost for good.          *)
BillingSpec == Books!BillingSpec

(* used_reqs of a key is exactly the number of calls an upstream answered  *)
(* for it, less the ones still to be charged and the ones whose charge a   *)
(* failure prevented: no charge is made twice, none is lost to another     *)
(* call's or to an admin's update of the same row, and a call that failed  *)
(* upstream costs nothing.                                                 *)
RequestsMatchCalls == Books!RequestsExact

(* And used_tokens is the sum of what those calls were answered with. *)
TokensMatchCalls == Books!TokensExact

(* The usage log, seen the same way: an account is the tally of a key's    *)
(* entries with 200, and its tokens those of all its entries.              *)
Unwritten == {ReceiptOf(w) : w \in ToLog}

Entries == [k \in DOMAIN apiKeys |->
              [reqs |-> usageLogs[k].ok, tokens |-> usageLogs[k].tokens]]

Journal == INSTANCE Billing WITH
  Accounts <- Keys, Calls <- Requests,
  balance <- Entries, opened <- issued \cap Keys,
  answered <- served, due <- Unwritten, writtenOff <- unlogged

(* The log is kept like the counters: an answered call has one entry       *)
(* written for the key it was made with, with the tokens it was answered   *)
(* with, or none for good.  A call that failed upstream adds none to them. *)
JournalSpec == Journal!BillingSpec

(* So the usage log tells the same story: an entry with 200, with the      *)
(* tokens of the call, for each answered call but the ones still to be     *)
(* written and the ones a failure kept out.                                *)
LogMatchesCalls == Journal!RequestsExact /\ Journal!TokensExact

(* RecordStreamUsage "writes a usage log entry after a streaming call      *)
(* completes" (service.go:287): when no query fails and the process does   *)
(* not stop, a call that was answered for a key that still exists has its  *)
(* entry once it is over.                                                  *)
EveryAnswerLogged ==
  (faults = 0 /\ crashes = 0) =>
     \A k \in DOMAIN apiKeys :
        usageLogs[k].ok + Cardinality({w \in ToLog : call[w].key = k})
          = Cardinality({r \in served : r.key = k})

-----------------------------------------------------------------------------
(* Catalog and keys.                                                       *)

(* What is deleted stays deleted: no update that read the row before, and  *)
(* no charge or usage entry of a call still in progress, brings it back.   *)
DeletedStaysDeleted ==
  [][issued \ (DOMAIN apiKeys \cup DOMAIN providers \cup DOMAIN models)
     \subseteq issued' \ (DOMAIN apiKeys' \cup DOMAIN providers' \cup DOMAIN models')]_vars

(* A call on its way to an upstream goes where the catalog it has read     *)
(* sent it: to the provider that owns the model it resolved, through that  *)
(* provider's adapter, and to the provider its key was pinned to.  Edits   *)
(* of the catalog between its three queries do not mix two routes.         *)
CallFollowsCatalog ==
  \A w \in Workers : pc[w] \in {"rules", "adapter", "upstream", "streaming", "record", "charge"} =>
     LET m == target[w].model
         p == target[w].provider
     IN  /\ snap[w].providerId # NULL => p = snap[w].providerId
         /\ m \in DOMAIN models => models[m].provider = p
         /\ (p \in DOMAIN providers /\ target[w].adapter # NULL)
              => target[w].adapter = providers[p].adapter

(* A key pinned to a provider is served a model that provider has: it is   *)
(* not told 404 while an enabled model of that name is there               *)
(* (openapi.yaml:158, service.go:144).                                     *)
PinnedKeyServed ==
  [][\A w \in Workers :
       (pc[w] = "resolve" /\ pc'[w] = "idle" /\ faults' = faults /\ w \notin gone
        /\ crashes' = crashes)
       => ~\E m \in Candidates(call[w].name) : PinAllows(snap[w], m)]_vars

(* An update changes the fields its body names and keeps the current value *)
(* of the others (openapi.yaml:85 of providers; handlers.go:289, :459 and  *)
(* :590 write back a whole row that was read before).                      *)
Kept(body, old, new) == \A f \in DOMAIN body : body[f] = NULL => new[f] = old[f]

UpdateKeepsOtherFields ==
  [][\A a \in Admins :
       LET id == draft[a].id
           body == draft[a].body
       IN  /\ UpdateAPIKey(a) => Kept(body, apiKeys[id], apiKeys'[id])
           /\ UpdateProvider(a) => Kept(body, providers[id], providers'[id])
           /\ UpdateModel(a) => Kept(body, models[id], models'[id])]_vars

-----------------------------------------------------------------------------
(* The limiter inside the server behaves as it does alone: every step of   *)
(* the server is one of the limiter's steps or leaves it as it is.  So     *)
(* what is proved of RateBucket holds here.                                *)
LimiterSpec == Limiter!RateSpec

(* Every call that arrives ends, and its worker is free again. *)
EveryCallEnds == \A w \in Workers : pc[w] # "idle" ~> pc[w] = "idle"
=============================================================================
