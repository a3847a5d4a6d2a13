# Bridage in TLA+

A verification project for the Bridage token relay server (Go): TLA+ modules
translated from the source, TLC configurations that check them on small
instances, and theorems checked by TLAPS. Paths are relative to the root of the
repository.

## 1. The system

Bridage gives downstream clients one OpenAI-compatible API in front of several
LLM providers. Admins register providers, models and API keys; a client's call
is authenticated, limited, routed, translated, forwarded, logged and charged.

| Component | State | Operations | Interacts with |
|---|---|---|---|
| Relay rate limiter, `rateBucket` in `internal/relay/service.go` | a mutex and the admission times of the last minute, per key, in memory | `allow` | called by the relay for every call of a key with a rate limit |
| Relay service, `internal/relay/service.go` | none but the limiter; each call holds the rows it read | `Authenticate`, `CheckRateLimit`, `CheckQuota`, `ResolveModel`, `GetAdapter`, `Chat`, `ChatStream`, `Embeddings`, `Images`, `recordUsage`, `incrementQuota` | stores (one query after another), adapters |
| Public API, `internal/publicapi/handlers.go` | none | relay endpoints (`Responses` is `ChatCompletions` by another name), account and model listings | relay service; owns the loop that copies a stream |
| Router, `internal/httpserver/router.go` | login buckets per client address, in memory | key middleware, login limiter and its sweeper, body limit, CORS | both APIs |
| Stores and schema, `internal/store/postgres`, `migrations` | tables | one SQL statement per method, `SetModelRules` a transaction | PostgreSQL |
| Management API, `internal/admin/handlers.go` | none | create, update, delete of keys, providers, models; presets | stores |
| Admin accounts, `internal/admin/handlers.go`, `cmd` | `admin_users` | bootstrap at startup (`main.go`), `POST /admin/bootstrap`, `bridagectl admin create`, login | stores, login limiter, audit log |
| Audit log | `audit_logs` | `Append`, by `Login` and `BootstrapAdmin`, which drop its error; `List` has no caller | stores |
| Provider adapters and presets, `internal/providers` | an HTTP client | translation both ways, an exchange (Gemini's embeddings: one per input) or an open stream | upstreams |
| Security, `internal/security` | none | key generation and hashes, AES-GCM | relay, admin |
| Server, `cmd/bridage-server` | the process | startup, 15 s graceful shutdown | all |
| `bridagectl` | none | `keys create`, `admin create`, lists | the same database |
| Web consoles, configuration, logging | - | - | the APIs; read once at startup |

### What is hard here

Every call is a goroutine of its own, reads the key's row once, and then makes
up to five more database round trips around an upstream exchange of up to two
minutes, under a context that the client can cancel at any time. No two of its
statements share a transaction. Meanwhile admins edit and delete the rows it
works with, through updates that read a row, patch the copy and write it back.
So:

* checks are made on stale data (quota, status, pin, limit, the clock);
* counters and log entries are written by several calls at once, after the fact,
  by statements that can fail one by one, and a failure is only logged;
* the catalog can change between the three queries that route a call;
* the limiter prunes a sliding window while limits change under it, the login
  limiter takes decisions with the time from before its lock, and neither's
  memory survives a restart;
* accounts come from three places that know nothing of each other, each by
  counting, or not, and then inserting;
* an answer is put together from another format, or from several exchanges.

What makes each part correct: the limiter lets no minute be overfull and refuses
nobody who is within the limit; the counters and the log agree with what was
served, up to failures; a quota is exceeded by a bounded amount at most; routing
follows the catalog it has read; the tables stay consistent and what is deleted
stays so; every call ends; nobody is kept from logging in early, and nobody is
let in or given an account who should not be; the audit log tells what happened;
conversation and answer survive translation. `PROJECT.json` lists every hazard
at its line.

## 2. Modules

| Module | Models | Correspondence |
|---|---|---|
| `RateBucket` | the limiter by itself: the abstract specification the server is shown to implement | `Allow`, `Refuse`: the outcomes of `allow`, one step each because of the mutex. `Tick`: the clock. `Restart`: a new process. `admissions` is history |
| `Billing` | the books by themselves: what a customer is promised of `used_reqs` and `used_tokens`, and of the usage log | abstract, so no line of code; `Bridage` instantiates it twice: as `Books`, with `served`, the calls on their way to the charge (`Due`) and `uncharged` for its receipts and the counters for its balances, and as `Journal`, with the entries still to be written (`Unwritten`), `unlogged` and the tallies of the log |
| `Store` | the tables, the statements on them, cascades and uniqueness | one operator per SQL statement; a table is a function from ids to rows |
| `Relay` (EXTENDS `Store`, instantiates `RateBucket` as `Limiter`) | one relay call of each worker | one action per query, per outcome, per upstream event; `snap` is the row `Authenticate` read; `gone` is the cancelled context |
| `Admin` (EXTENDS `Store`) | the management API for keys, providers, models, presets; `bridagectl keys create`; rules | creates and deletes are one action; an update is `Begin` (read) and a write half that uses the copy in `draft`; a preset is one insert of the provider and then one of each model |
| `Bridage` (EXTENDS `Relay`, `Admin`) | the server: both over one database, crashes, fairness, the properties | `Crash` empties the workers, the drafts and the buckets and leaves the tables |
| `LoginLimiter` | the limiter of `/admin/login`, its sweeper | `Arrive` reads the clock, `LetThrough` and `TurnAway` are what happens under the mutex; `SweepStarts` and `SweepEnds` likewise |
| `Accounts` | startup, bootstrap, `bridagectl admin create`, login, the audit log | one action per statement, each with its own treatment of errors; `Stop` cuts the process off anywhere |
| `Adapters` | one call through an adapter, all its exchanges | requests and answers by what they carry; the wire formats of the upstreams are external |
| `MCRateBucket`, `MCBridage`, `MCLoginLimiter`, `MCAccounts`, `MCAdapters` | the instances TLC checks | setups, bodies of updates, symmetry |
| `RateBucketProofs`, `BridageProofs`, `AdmissionProofs`, `BillingProofs`, `AccountingProofs`, `LoginLimiterProofs`, `AccountsProofs`, `AdaptersProofs` | theorems | section 5 |

`Accounts` and `LoginLimiter` are not composed with each other or with `Bridage`:
they share no state (the limiter decides who reaches `Login`, and a login that
arrives at any time is what `Accounts` has; admin accounts are not read by any
relay call, and the management API only checks a token). `Relay` sees what
`Adapters` does as one step with one of its outcomes: an answer with a token
count, or an error with none, which is what `Adapters.TypeOK` says of it.

What is abstracted. Ids, names and secrets are model values or numbers; request
and response bodies are left out but for the token count (in `Adapters`: roles,
texts, limits, counts and reasons are kept); time is a clock of ticks that is
read where the code reads it; the usage log is a tally per key; a password hash
is a `Digest`, which words bcrypt cannot tell apart share. A key that does not exist stands for every header that does
not authenticate. The role "tool" is passed through like "user" and is left out.
`served`, `unlogged`, `uncharged`, `admissions`, `highQuota`, `highTokens`,
`arrived`, `passes`, `boots`, `sessions`, `unaudited` and `reply` are history
that no action's outcome depends on (`arrived` also bounds the model). An
operator whose comment starts with "Mutant" is a wrong variant of the definition
that follows it: no specification uses it; it stands there to show that the
property it breaks is able to fail.

External parts, modelled from how `src/` uses them: PostgreSQL (a statement is
atomic, a failed one has no effect, foreign keys and cascades as the schema
declares them), the clock, `net/http`'s cancelling of a request's context,
bcrypt (golang.org/x/crypto, at the version `go.mod` has, refuses to hash a
password of more than 72 bytes, `LongWords`, and compares one by the bytes it
reads), and the formats of the upstreams. Of Gemini's it is assumed that a part
that is no text carries none (`GeminiParts`), because the adapter joins the texts
of all parts whatever they are; a thought would be one that does, and is sent
only to who asks for thoughts, which no request of the adapter does.

## 3. Runs

`tlc -config X.cfg M`, all with a name for each bound in the `.cfg`.

| Run | Question | Bounds, and why they are enough |
|---|---|---|
| `rate_bucket` | Does the pruned bucket decide as the whole history would, and is no minute overfull? `DecidesExactly`, `NoWindowOverfull` | two keys, four requests, limits -1, 0, 1, 2 changing freely, a window of 2 in a clock of 0..5: two disjoint windows and every boundary between them |
| `metering` | Are the counters, and is the usage log, kept as the abstract books are (`BillingSpec`, `JournalSpec`, refinements), do counters and log match what was served (`RequestsMatchCalls`, `TokensMatchCalls`, `LogMatchesCalls`), is the overshoot of both quotas bounded (`QuotaOvershootBounded`, `TokenOvershootBounded`)? | two calls at a time and three in all, so a charge can meet another call's check and an update; one failing query, one crash, one admin update (read and write apart), clients leaving; request quota 1, token quota 2, streams of at most one chunk |
| `catalog` | Do references hold, does a call follow one route, does the deleted stay deleted? `ForeignKeysHold`, `CallFollowsCatalog`, `DeletedStaysDeleted` | every management operation, presets included, on two keys, three providers, three models; three requests of them around two calls of one worker: an update's two halves, a delete and one more |
| `calls` | Does the server use the limiter only as the limiter alone behaves (`LimiterSpec`, a refinement), and does every call end (`EveryCallEnds`)? | under `FairSpec`; two workers and two calls, chat and streams, a limit of 1 in a window of 2 with refusals, a key that expires at tick 2 of 3, one failing query, one restart, clients leaving |
| `login_limiter` | Is nobody turned away early (`TurnedAwayOnlyWhenSpent`), and is what a stretch of a window lets through bounded (`LoginWindowBounded`)? | six logins of one address (buckets of different addresses do not touch), two allowed in a window of 2, clock 0..3, sweeps and restarts; the bound of 3, and of 2 more for a request stalled at the lock, is reached at this size |
| `accounts` | Who gets an account and when, is none taken over, does the audit log say so? `BootstrapClosed`, `TokenSeedsBeforeServing`, `SessionsAuthentic`, `AuditTellsWhatHappened` | one login (no login writes what another reads), two bootstrap requests, the startup's own bootstrap in up to three starts with or without a token, `bridagectl` once, two failing queries, two stops: each source of accounts against each other one, with an error in both queries of one request or in two requests; a password too long for bcrypt, for a request and for the token, that bcrypt cannot tell from a shorter one |
| `adapters` | Do conversation and answer survive translation? `ConversationReachesUpstream`, `AnswerIsReply`, `EmbeddingsMatchInputs` | every conversation of up to three messages of two texts, every reply of up to two parts, up to three inputs: two turns of one role around one of another, a part dropped on either side, an exchange that fails first, between or last |
| `hard_cap` (violated) | Is the request quota a hard cap, as README.md:216 says? | two calls at a time |
| `stream_log` (violated) | Does every answered call have its log entry (service.go:287)? | one worker, streams only |
| `pinned` (violated) | Is a pinned key served what its provider has (openapi.yaml:158)? | two providers with one model name |
| `lost_update` (violated) | Does an update keep the fields it leaves out (openapi.yaml:85)? | two admins, one provider |
| `bootstrap_once` (violated) | Can `/admin/bootstrap` be called with success only once (README.md:82)? | two requests, no failure |

Workers are interchangeable, so `metering` uses them as a symmetry set, and
`rate_bucket`, `login_limiter` and `accounts` their keys and requests. No run
with a liveness property uses symmetry; the refinements `metering` checks are of
the form Init /\ [][Next]_v and treat workers alike.
`CHECK_DEADLOCK FALSE` everywhere but in `rate_bucket`: when the bounds on
requests, edits and ticks are used up and every call has ended, an idle server
has nothing left to do; a call through an adapter is over when it is over.

### What the violated runs show

* **hard_cap**: two calls authenticate while `used_reqs` is 0, both pass
  `CheckQuota`, both are served and charged: 2 of 1. By how much it can go wrong
  is `QuotaOvershootBounded`.
* **stream_log**: the client leaves during the stream; `RecordStreamUsage` runs
  under the request's context, which is cancelled, so the entry and the charge
  both fail and are only warned about.
* **pinned**: `ResolveModel` stops at the first model with the requested name
  and compares its provider with the pin afterwards; if the other provider's
  model came first, the call gets 404.
* **lost_update**: the second of two overlapping updates writes back the value
  the first one changed, e.g. switches a provider on again.
* **bootstrap_once**: two requests both count no accounts, and both create one
  when the names differ. `BootstrapClosed` says what does hold: a bootstrap that
  begins when an account exists creates none, but for a startup whose count
  failed, which takes the error's 0 for the count.

### Other differences between text and code, seen while modelling

None of these is a run; the models follow the code.

* `config.go:20` calls the bootstrap token one for the "first admin creation via
  HTTP endpoint"; the startup makes an account of it before the server listens
  (`TokenSeedsBeforeServing`), and the endpoint then refuses every request. Only
  where the startup made none, because a query failed or bcrypt refused the token
  (`main.go:62`), is the endpoint there for who has the token.
* `.env.example:32` says that an account is made of every token that is set. For
  one of more than 72 bytes, which nothing rules out, `main` warns and listens
  without (`HashFails`): `TokenSeedsBeforeServing` excepts it for that reason.
* `openapi.yaml` answers a second bootstrap with 409, the code with 403;
  `.env.example:33` asks to change the password, which no endpoint does.
* `router.go:223` speaks of a sliding window; it is a fixed one that starts with
  a request (`LoginWindowBounded` says how much more that lets through).
* `PROVIDER_RETRIES` has default 2 in the documents and 1 in the code, and no
  effect: nothing retries. `enabled` left out is false where `openapi.yaml` has
  true. A preset that stops half way is answered 201.
* Streams of Anthropic and Gemini are handed on as they come and not in OpenAI's
  format, as `provider.go:100` and `anthropic.go:171` have it. Of several system
  messages the last one reaches them; Anthropic gets no temperature or `top_p`;
  an answer that was cut reads "max_tokens" and not "length", one Gemini blocked
  reads "stop".

## 4. Fairness

`FairSpec` asks weak fairness of each worker's `Handler` steps and of nothing
else. The code justifies it: goroutines are scheduled; a query returns or fails;
`http.Client.Timeout` is set in all three adapters (`openai_compat.go:31`,
`anthropic.go:29`, `gemini.go:29`) and covers reading the body, so an exchange
and a stream end. No fairness is given to clients, admins, the clock, chunks of
a stream or crashes, and no property relies on any. Fairness on the disjunction
is enough because a call never has to take one particular outcome.

## 5. Proofs

Every invariant, every refinement and every action property that a passing run
checks is a theorem as well: TLC shows it at the size of the run, TLAPS for every
value of the constants that the named assumptions allow. These are: any sets of
keys, providers, models and admins, of accounts' names and passwords, of texts;
any finite set of workers and of logins (a process has finitely many goroutines)
and finitely many token counts (`RelayAssumption`; the code has them in an
`int`); any limits, quotas and windows, any bounds; `NULL` is none of the records
it stands beside (`AccountsAssumption`, `AdaptersAssumption`, `LoginAssumption`).
`SetupAssumption` says the history starts from rows made through the management
API and not yet used. Each inductive invariant was checked by TLC first.

* `RateBucketProofs`
  * `RateTyping`: `RateSpec => []RateTypeOK`.
  * `BucketDecidesExactly`: `RateSpec => []DecidesExactly`. The strengthening,
    `BucketsKeepTheWindow` in `RateInv`, says that a bucket holds at least the
    admissions of the current window and nothing that was not admitted: the
    property speaks only of cardinalities at the present time, and pruning is
    safe only because what is out of the window never comes back in.
  * `RateLimitHolds`: `RateSpec => []NoWindowOverfull`. A window that ends in
    the past is as full as it was; one that ends now grows only by `Allow`, which
    found the current window below the limit.
* `BridageProofs`
  * `TypeCorrect`: `Spec => []TypeOK`. `TypeOK` is inductive; it carries which of
    a worker's variables are set at which point of its call.
  * `NothingComesBack`: `Spec => DeletedStaysDeleted`, and `NoDanglingReference`:
    `Spec => []ForeignKeysHold`. Every step is a `CatalogStep` (rows appear under
    ids never issued before, a model never changes its provider nor a provider
    its adapter), rows have issued ids (`IdsIssued`), and what a delete removes
    it removes, or sets free, wherever it is referred to.
  * `RoutesFollowCatalog`: `Spec => []CallFollowsCatalog`. `RouteInv` adds what a
    call knows before it has an adapter, and that an id it holds was issued: a
    row that is gone cannot be replaced by another under the same id.
* `AdmissionProofs`
  * `ServerRefinesLimiter`: `Spec => LimiterSpec`, the server implements the
    limiter alone. It rests on `CallsNumbered`: calls in progress have distinct
    numbers, and one that has not passed the limiter is in no bucket's history.
  * `ServerKeepsRateLimit`: `Spec => []Limiter!NoWindowOverfull`, by the
    refinement and `RateLimitHolds`.
  * `OvershootBounded` and `TokenOvershoot`: `Spec => []QuotaOvershootBounded` and
    `Spec => []TokenOvershootBounded`. The bounds are not inductive: they do not
    see calls that have passed the check and are not charged. `QuotaInv`, one
    invariant for both meters, counts them: a call is *entitled* when the row it
    read had room, only entitled calls get past the limits
    (`AdmittedAreEntitled`), and charges made, plus what the entitled calls can
    still be worth (1 request, or the highest token count each), stay below the
    quota plus what all workers together are worth (`ChargesToComeBounded`). A
    call becomes entitled only while less than the quota has been charged; a
    charge uses up one entitlement; edits only move the quota below the highest
    one seen; deletes and crashes only take away.
* `BillingProofs`, for tokens that are numbers
  * `BooksExact`: `BillingSpec => []RequestsExact`, and `BooksAddUp`:
    `BillingSpec => []TokensExact`. Besides the balances, `BillingInv` needs that
    receipts are told apart by their numbers, that nothing is due and written off
    at once, and that an account has no receipts before it is opened. That the
    sum over a set of receipts is the same in every order (`TokensOf` is a fold)
    is proved by induction on the number of receipts.
* `AccountingProofs`
  * `ServerKeepsBooks`: `Spec => BillingSpec`, the server implements the books.
    A step of a call, an edit, a failed query or a crash is mapped to `Answer`,
    `Charge`, `WriteOff`, `Open`, `Close` or a stutter. The invariant it needs,
    `ServedInv`, ties the history to the calls in progress: a call between its
    answer and its charge is in `served` once, with the tokens it holds, for a
    key that was issued, and not yet written off. That an update never moves a
    balance is `KeyUpdate`'s column list; it is used here, not assumed.
  * `RequestsExactlyCharged`: `Spec => []RequestsMatchCalls`, and
    `TokensExactlyCharged`: `Spec => []TokensMatchCalls`, by the refinement and
    the two theorems about the books.
  * `ServerKeepsJournal`: `Spec => JournalSpec`, the usage log is such books as
    well. In addition it needs that a failed call has no tokens to log
    (`FailuresFree`) and that a key that is made has no entries waiting for it
    (`NoDanglingReference`). `LogTellsTheSame`: `Spec => []LogMatchesCalls`
    follows like the counters.
* `LoginLimiterProofs`
  * `LoginTypeCorrect`: `LoginSpec => []LoginTypeOK`.
  * `NeverTurnedAwayEarly`: `LoginSpec => TurnedAwayOnlyWhenSpent`. The invariant
    adds that no reading of the clock lies ahead of it (`StampsPast`) and that
    the count of a bucket is backed by that many passes since a window before
    the time it lapses (`CountsBacked`); a request that meets a spent bucket
    read the clock no later than that.
  * `WindowsBounded`: `LoginSpec => []LoginWindowBounded`. A stretch that is over
    does not change; of one that is not, `StretchBounded` says that the requests
    let through and what is `Left` to it fit the bound. `Left` is the room in the
    bucket, and one whole window more if the bucket lapses before the stretch
    ends. A request that finds room takes it; one that opens a window uses up
    that whole window when it read the clock within the stretch, because the
    window then outlasts it, and is allowed one of its own when it had not.
* `AccountsProofs`: `TypeCorrect`, `BootstrapStaysClosed`, `TokenSeeds`,
  `SessionsStayAuthentic`, `AuditIsTrue`: `Spec => []` of `TypeOK`,
  `BootstrapClosed`, `TokenSeedsBeforeServing`, `SessionsAuthentic` and
  `AuditTellsWhatHappened`. The properties speak of what a request has done;
  `AccountsInv` adds what those in progress rely on: a bootstrap that began late
  did so because of an account that is still there, and reaches its INSERT only
  blindly (`LateKnown`); an account is in the table before its entry is written
  (`CreatedFirst`), and entries are written by requests that end with it
  (`EntriesWritten`). A startup that fails to hash its password has a token that
  is too long, because the two are the same word while it lasts (`TokenAsked`, an
  invariant of its own). Accounts are never deleted and an INSERT changes no other
  (`AccountsGrow`): that is what all of them rest on.
* `AdaptersProofs`: `TypeCorrect`, `ConversationReaches`, `AnswersAreReplies`,
  `EmbeddingsMatch`: `Spec => []` of `TypeOK`, `ConversationReachesUpstream`,
  `AnswerIsReply` and `EmbeddingsMatchInputs`, for conversations, replies and
  lists of inputs of any length. `AdaptersInv` says that what is on the wire was
  made from the request as it is (`SentIsRequest`) and that the vectors collected
  so far are those of the inputs done with (`CollectedSoFar`). What the loops
  over messages and parts collect (`Collects`) is proved by induction on the
  rounds; so is that the loop over Gemini's parts, which joins the texts of all,
  collects what the loop over the parts that are text does (`CollectAlike`,
  `PartsJoined`). That Gemini's names of the roles lead there and back
  (`RoleThereAndBack`) is proved role by role.

Induction over data is stated for a set of numbers (`NatSetInduction`: a set that
holds 0 and, with each number, the next one, holds them all), from the
well-foundedness of < on the naturals.

Only model-checked: `EveryCallEnds`, because liveness under fairness and
`ENABLED` are beyond the prover; and the five violated runs, which are
counterexamples.

## 6. Not modelled

* `internal/security`: functions without state. A failure of theirs is one of
  those `Relay.Abort` has. Admin passwords do not pass through it: what bcrypt
  does with them is in `Accounts`.
* `ValidateJWT`: a function of the token and the clock; `validateProviderURL`: of
  its input. The data of the fourteen presets.
* Configuration and logging, CORS, request ids, headers, the body limit, the web
  consoles: no state the properties depend on.
* Listings and statistics: they only read.
* `Shutdown` as a step: a stop that waits for its calls is a `Crash` while all
  are idle, one past the grace period a `Crash` in the middle of them. A write
  that `WriteTimeout` (`main.go:94`) cuts off cancels the request's context: to
  the handler that is a client that is `gone`.
* What a restart does to the limits across processes: the buckets do not survive
  it; the claims about both limiters are about one process.
* The bytes of a stream: `Relay` counts its data lines, which is what the code
  charges.
* The width of the token columns (32 bits in `usage_logs`, 64 in `api_keys`).

## 7. Plan

What moves money came first (limits, quotas, accounting), then what an admin can
break, then what surrounds it: all of that is done. What could follow, in this order:

1. A run for the formats of streams against `provider.go:100`, when `Relay` gets
   the lines of a stream and not only their number.
2. `UpdateAPIKey`'s nullable fields (`openapi.yaml:179`, `:183`) as a property.
3. The step towards `EveryCallEnds` that needs no fairness, as a theorem: no
   handler's step takes a call back to where it has been, and each call has a
   rank that only chunks of its stream leave as it is.
