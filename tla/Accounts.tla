------------------------------- MODULE Accounts -------------------------------
(***************************************************************************)
(* Admin accounts: how one comes to be (the server at startup, POST        *)
(* /admin/bootstrap, "bridagectl admin create"), how one logs in (POST     *)
(* /admin/login) and what the audit log keeps of it.  LoginLimiter says    *)
(* who gets as far as the login handler; nothing here depends on it.       *)
(*                                                                         *)
(* A bootstrap counts the accounts and then inserts one: two statements,   *)
(* outside any transaction, with a bcrypt hash in between.  A query fails  *)
(* when its context is cancelled or for a reason of the database's own;    *)
(* what that does differs from place to place, and so does who looks.      *)
(*                                                                         *)
(* bcrypt stores a digest of a password, and compares by digests: words it *)
(* cannot tell apart (it reads the first 72 bytes) share one.  It refuses  *)
(* to hash a word of more than 72 bytes, and compares one all the same.    *)
(***************************************************************************)
EXTENDS Integers

CONSTANTS
  Logins,           \* requests to /admin/login, each made once
  Boots,            \* requests to /admin/bootstrap, each made once
  Startup,          \* the bootstrap the server does by itself
  Words,            \* user names and passwords in use
  StrongWords,      \* those validatePassword accepts as passwords
  LongWords,        \* those of more than 72 bytes
  Digest,           \* word -> its digest, named by one of the words that have it
  Credentials,      \* [user, password] pairs people try, or create
  BootstrapTokens,  \* values of ADMIN_BOOTSTRAP_TOKEN; NULL is unset
  NULL,             \* unset, no account, no request
  MaxFaults, MaxStops, MaxCtl      \* bounds of the model

Credential == [user : Words, password : Words]
Known == [late : BOOLEAN, blind : BOOLEAN, created : BOOLEAN]
Bootstraps == Boots \cup {Startup}
Requests == Logins \cup Bootstraps

ASSUME AccountsAssumption ==
  /\ Startup \notin Boots /\ Logins \cap Bootstraps = {}
  /\ StrongWords \subseteq Words /\ LongWords \subseteq Words
  /\ Digest \in [Words -> Words]
  /\ Credentials \subseteq Credential
  /\ BootstrapTokens \subseteq Words \cup {NULL}
  /\ NULL \notin Words \cup Credential \cup Known
  /\ {MaxFaults, MaxStops, MaxCtl} \subseteq Nat

VARIABLES
  admins,       \* admin_users: user name -> password digest, NULL if there is none
  audit,        \* audit_logs: [by, actor, action]
  up,           \* the server listens
  token,        \* the bootstrap token it was started with
  at,           \* request -> where it is
  asked,        \* request -> its credential
  sessions,     \* history: logins a JWT was issued for
  boots,        \* history: bootstrap -> what was known when it began and what it did
  unaudited,    \* history: requests whose entry a failure kept out
  failed, stops, byHand            \* counters of the bounds

requestVars == <<at, asked>>
serverVars == <<up, token, stops>>
countVars == <<failed, byHand>>
historyVars == <<sessions, boots, unaudited>>
vars == <<admins, audit, serverVars, requestVars, historyVars, countVars>>

Locations == {"away", "lookup", "count", "create", "audit", "over"}
Actions == {"login_success", "login_failed", "bootstrap_admin"}

TypeOK ==
  /\ admins \in [Words -> Words \cup {NULL}]
  /\ audit \subseteq [by : Requests, actor : Words, action : Actions]
  /\ up \in BOOLEAN /\ token \in Words \cup {NULL}
  /\ at \in [Requests -> Locations]
  /\ asked \in [Requests -> Credential \cup {NULL}]
  /\ sessions \subseteq Logins
  /\ boots \in [Bootstraps -> Known \cup {NULL}]
  /\ unaudited \subseteq Requests
  /\ {failed, stops, byHand} \subseteq Nat
  /\ \A r \in Requests : at[r] # "away" => asked[r] # NULL
  /\ \A b \in Bootstraps : at[b] # "away" => boots[b] # NULL

Users == {u \in Words : admins[u] # NULL}

Init ==
  /\ admins = [u \in Words |-> NULL]
  /\ audit = {}
  /\ up = FALSE /\ token = NULL
  /\ at = [r \in Requests |-> "away"]
  /\ asked = [r \in Requests |-> NULL]
  /\ sessions = {} /\ unaudited = {}
  /\ boots = [b \in Bootstraps |-> NULL]
  /\ failed = 0 /\ stops = 0 /\ byHand = 0

-----------------------------------------------------------------------------
Goto(r, location) == at' = [at EXCEPT ![r] = location]

QueryFails == failed < MaxFaults /\ failed' = failed + 1
QueryRuns == UNCHANGED failed

(* bcrypt.GenerateFromPassword takes the password. *)
Hashable(c) == c.password \notin LongWords

(* Mutant: INSERT ... ON CONFLICT (username) DO UPDATE. *)
AdminCreateUpserts(c) == admins' = [admins EXCEPT ![c.user] = Digest[c.password]]

(* INSERT INTO admin_users: username is UNIQUE. *)
AdminCreate(c) ==
  /\ admins[c.user] = NULL
  /\ admins' = [admins EXCEPT ![c.user] = Digest[c.password]]

(* AuditStore.Append, whose error every caller drops. *)
Append(r, actor, action) ==
  \/ /\ QueryRuns
     /\ audit' = audit \cup {[by |-> r, actor |-> actor, action |-> action]}
     /\ UNCHANGED unaudited
  \/ /\ QueryFails
     /\ unaudited' = unaudited \cup {r}
     /\ UNCHANGED audit

-----------------------------------------------------------------------------
(* Bootstrapping. *)

(* Mutant: the request of before is kept. *)
BeginKeepsRequest(b, credential) ==
  /\ at[b] = "away"
  /\ Goto(b, "count")
  /\ boots' = [boots EXCEPT ![b] = [late |-> Users # {}, blind |-> FALSE, created |-> FALSE]]
  /\ UNCHANGED asked

Begin(b, credential) ==
  /\ at[b] = "away"
  /\ Goto(b, "count")
  /\ asked' = [asked EXCEPT ![b] = credential]
  /\ boots' = [boots EXCEPT ![b] = [late |-> Users # {}, blind |-> FALSE, created |-> FALSE]]

(* Mutant: the server listens while the account is being made. *)
StartServerListens ==
  /\ ~up /\ at[Startup] = "away"
  /\ up' = TRUE
  /\ \E t \in BootstrapTokens :
       /\ token' = t
       /\ IF t = NULL
          THEN UNCHANGED <<at, asked, boots>>
          ELSE Begin(Startup, [user |-> t, password |-> t])
  /\ UNCHANGED <<admins, audit, sessions, unaudited, stops, countVars>>

(* main: with a token configured, the token is the account to be created,  *)
(* user name and password.  The server does not listen before that is over.*)
StartServer ==
  /\ ~up /\ at[Startup] = "away"
  /\ \E t \in BootstrapTokens :
       /\ token' = t
       /\ IF t = NULL
          THEN up' = TRUE /\ UNCHANGED <<at, asked, boots>>
          ELSE Begin(Startup, [user |-> t, password |-> t]) /\ UNCHANGED up
  /\ UNCHANGED <<admins, audit, sessions, unaudited, stops, countVars>>

(* POST /admin/bootstrap, past the token guard and validatePassword: a     *)
(* request that fails either changes nothing.                              *)
BootstrapAdmin(b) ==
  /\ up
  /\ \E c \in Credentials, header \in Words :
       /\ token = NULL \/ header = token
       /\ c.password \in StrongWords
       /\ Begin(b, c)
  /\ UNCHANGED <<admins, audit, sessions, unaudited, serverVars, countVars>>

(* The startup goes on to listen; a request is answered. *)
Leave(b) ==
  /\ Goto(b, IF b = Startup THEN "away" ELSE "over")
  /\ up' = (up \/ b = Startup)
  /\ UNCHANGED <<token, stops>>

(* Mutant: the handler drops the error of Count, as main does. *)
CountAdminsDropsError(b) ==
  /\ at[b] = "count"
  /\ \/ /\ QueryRuns
        /\ UNCHANGED boots
        /\ IF Users = {} THEN Goto(b, "create") /\ UNCHANGED serverVars ELSE Leave(b)
     \/ /\ QueryFails
        /\ boots' = [boots EXCEPT ![b].blind = (b = Startup)]
        /\ Goto(b, "create") /\ UNCHANGED serverVars
  /\ UNCHANGED <<admins, audit, asked, sessions, unaudited, byHand>>

(* Count.  When it fails the handler answers 500; main takes the 0 that    *)
(* comes with the error for the count.                                     *)
CountAdmins(b) ==
  /\ at[b] = "count"
  /\ \/ /\ QueryRuns
        /\ UNCHANGED boots
        /\ IF Users = {} THEN Goto(b, "create") /\ UNCHANGED serverVars ELSE Leave(b)
     \/ /\ QueryFails
        /\ boots' = [boots EXCEPT ![b].blind = (b = Startup)]
        /\ IF b = Startup THEN Goto(b, "create") /\ UNCHANGED serverVars ELSE Leave(b)
  /\ UNCHANGED <<admins, audit, asked, sessions, unaudited, byHand>>

CreateAdmin(b) ==
  /\ at[b] = "create"
  /\ Hashable(asked[b])
  /\ QueryRuns
  /\ AdminCreate(asked[b])
  /\ boots' = [boots EXCEPT ![b].created = TRUE]
  /\ IF b = Startup THEN Leave(b) ELSE Goto(b, "audit") /\ UNCHANGED serverVars
  /\ UNCHANGED <<audit, asked, sessions, unaudited, byHand>>

(* No hash, no insert: a request is answered 500, main warns and listens. *)
HashFails(b) ==
  /\ at[b] = "create"
  /\ ~Hashable(asked[b])
  /\ Leave(b)
  /\ UNCHANGED <<admins, audit, asked, historyVars, countVars>>

CreateFails(b) ==
  /\ at[b] = "create"
  /\ Hashable(asked[b])
  /\ IF admins[asked[b].user] # NULL THEN QueryRuns ELSE QueryFails
  /\ Leave(b)
  /\ UNCHANGED <<admins, audit, asked, sessions, boots, unaudited, byHand>>

AuditBootstrap(b) ==
  /\ at[b] = "audit"
  /\ Append(b, asked[b].user, "bootstrap_admin")
  /\ Leave(b)
  /\ UNCHANGED <<admins, asked, sessions, boots, byHand>>

(* "bridagectl admin create", a process of its own: no policy, no count. *)
CtlCreateAdmin ==
  /\ byHand < MaxCtl
  /\ byHand' = byHand + 1
  /\ \E c \in Credentials : Hashable(c) /\ AdminCreate(c)
  /\ UNCHANGED <<audit, serverVars, requestVars, sessions, boots, unaudited, failed>>

-----------------------------------------------------------------------------
(* Logging in. *)
(* A login that got past the limiter and whose body binds. *)
Login(r) ==
  /\ up /\ at[r] = "away"
  /\ Goto(r, "lookup")
  /\ \E c \in Credentials : asked' = [asked EXCEPT ![r] = c]
  /\ UNCHANGED <<admins, audit, serverVars, historyVars, countVars>>

(* GetByUsername, CompareHashAndPassword on the row it returned, issueJWT. *)
(* A query that fails counts as a user that is not there.                  *)
Lookup(r) ==
  /\ at[r] = "lookup"
  /\ \/ /\ QueryRuns
        /\ sessions' = IF admins[asked[r].user] = Digest[asked[r].password]
                       THEN sessions \cup {r} ELSE sessions
     \/ QueryFails /\ UNCHANGED sessions
  /\ Goto(r, "audit")
  /\ UNCHANGED <<admins, audit, serverVars, asked, boots, unaudited, byHand>>

(* Mutant: a login that succeeds is answered without an entry. *)
AnswerLoginUnaudited(r) ==
  /\ at[r] = "audit"
  /\ IF r \in sessions THEN UNCHANGED <<audit, unaudited, failed>>
                       ELSE Append(r, asked[r].user, "login_failed")
  /\ Goto(r, "over")
  /\ UNCHANGED <<admins, serverVars, asked, sessions, boots, byHand>>

(* The entry first, then the answer: 401, or 200 with the token. *)
AnswerLogin(r) ==
  /\ at[r] = "audit"
  /\ Append(r, asked[r].user, IF r \in sessions THEN "login_success" ELSE "login_failed")
  /\ Goto(r, "over")
  /\ UNCHANGED <<admins, serverVars, asked, sessions, boots, byHand>>

-----------------------------------------------------------------------------
(* The process stops, in the middle of its startup or of its requests, and *)
(* entries still to be written never are.                                  *)
Stop ==
  /\ stops < MaxStops
  /\ stops' = stops + 1
  /\ up' = FALSE
  /\ token' = NULL
  /\ at' = [r \in Requests |->
              IF at[r] \in {"away", "over"} THEN at[r] ELSE IF r = Startup THEN "away" ELSE "over"]
  /\ unaudited' = unaudited \cup {r \in Requests : at[r] = "audit"}
  /\ UNCHANGED <<admins, audit, asked, sessions, boots, countVars>>

Next ==
  \/ StartServer \/ CtlCreateAdmin \/ Stop
  \/ \E b \in Boots : BootstrapAdmin(b)
  \/ \E b \in Bootstraps :
       CountAdmins(b) \/ CreateAdmin(b) \/ HashFails(b) \/ CreateFails(b) \/ AuditBootstrap(b)
  \/ \E r \in Logins : Login(r) \/ Lookup(r) \/ AnswerLogin(r)

Spec == Init /\ [][Next]_vars

-----------------------------------------------------------------------------
(* Bootstrapping is closed once an account exists: no bootstrap that began *)
(* later creates one, over HTTP or at startup, whatever else is going on   *)
(* (handlers.go:660).  The one way in is the error main drops: a startup   *)
(* whose count failed (main.go:60).                                        *)
BootstrapClosed ==
  \A b \in Bootstraps : boots[b] # NULL =>
     (boots[b].late /\ boots[b].created => boots[b].blind)

(* With a token configured the server makes the account before it listens, *)
(* so the endpoint the token guards (config.go:20) has no account left to  *)
(* create, unless a query failed while the server started, or the token is *)
(* one that bcrypt refuses to hash (main.go:62).                           *)
TokenSeedsBeforeServing ==
  (up /\ token # NULL /\ token \notin LongWords /\ failed = 0) => Users # {}

(* A session belongs to an account that exists under the password it was   *)
(* asked for with, as far as bcrypt tells passwords apart, at any later    *)
(* time: no bootstrap, startup or bridagectl that comes in between takes   *)
(* an account over.                                                        *)
SessionsAuthentic ==
  \A r \in sessions : admins[asked[r].user] = Digest[asked[r].password]

(* The audit log and what happened are the same story: every session and   *)
(* every account bootstrapped over HTTP has its entry once its request is  *)
(* over, but for those a failure kept out; and no login_success and no     *)
(* bootstrap_admin is there without its session, or its account.           *)
AuditTellsWhatHappened ==
  /\ \A r \in sessions \ unaudited : at[r] = "over" =>
       [by |-> r, actor |-> asked[r].user, action |-> "login_success"] \in audit
  /\ \A b \in Boots \ unaudited : (at[b] = "over" /\ boots[b] # NULL /\ boots[b].created) =>
       [by |-> b, actor |-> asked[b].user, action |-> "bootstrap_admin"] \in audit
  /\ \A e \in audit :
       /\ e.action = "login_success" => e.by \in sessions
       /\ e.action = "bootstrap_admin" => boots[e.by].created /\ admins[e.actor] # NULL

(* README.md:82: the bootstrap endpoint "can only be called once, when no  *)
(* admin accounts exist yet".  Count and Create are two statements         *)
(* (handlers.go:655, :668).                                                *)
BootstrapOnce ==
  \A b, c \in Boots : (boots[b] # NULL /\ boots[c] # NULL /\ boots[b].created /\ boots[c].created)
                      => b = c
=============================================================================
