---------------------------- MODULE AccountsProofs ----------------------------
(***************************************************************************)
(* Theorems about the admin accounts, for any requests, credentials and    *)
(* bootstrap tokens, and any number of failing queries, stops of the       *)
(* process and accounts made by hand.                                      *)
(*                                                                         *)
(* None of the properties of Accounts is inductive: each speaks of what a  *)
(* request has done and not of what it is about to do.  What the requests  *)
(* in progress rely on is written down first.                              *)
(***************************************************************************)
EXTENDS Accounts, TLAPS

(* Where a request can be.  Startup leaves no audit entry, and ends where  *)
(* it began, so that the next start of the process finds it there.         *)
Roles ==
  /\ \A r \in Logins : at[r] \in {"away", "lookup", "audit", "over"}
  /\ \A b \in Boots : at[b] \in {"away", "count", "create", "audit", "over"}
  /\ at[Startup] \in {"away", "count", "create"}

(* A bootstrap that began late did so because of an account that is still  *)
(* there; it gets as far as creating one only blindly, and one that has    *)
(* not got past that has created nothing.                                  *)
LateKnown ==
  \A b \in Bootstraps : boots[b] # NULL =>
    /\ boots[b].late => Users # {}
    /\ at[b] \in {"count", "create"} => ~boots[b].created
    /\ boots[b].late /\ at[b] = "create" => boots[b].blind
    /\ boots[b].late /\ boots[b].created => boots[b].blind

(* A session belongs to a login whose lookup is behind it. *)
SessionsLookedUp == \A r \in sessions : at[r] \in {"audit", "over"}

(* An account bootstrapped over HTTP is in the table before its entry is   *)
(* written, and stays there.                                               *)
CreatedFirst ==
  \A b \in Boots : at[b] = "audit" => boots[b].created /\ admins[asked[b].user] # NULL

(* Entries are written by requests that end with it. *)
EntriesWritten ==
  \A e \in audit :
    /\ e.action = "login_success" => e.by \in sessions
    /\ e.action = "bootstrap_admin" =>
         e.by \in Boots /\ at[e.by] = "over" /\ boots[e.by].created /\ admins[e.actor] # NULL

(* Requests that are over have their entry, or a failure kept it out. *)
OverAudited ==
  /\ \A r \in sessions \ unaudited : at[r] = "over" =>
       [by |-> r, actor |-> asked[r].user, action |-> "login_success"] \in audit
  /\ \A b \in Boots \ unaudited : (at[b] = "over" /\ boots[b] # NULL /\ boots[b].created) =>
       [by |-> b, actor |-> asked[b].user, action |-> "bootstrap_admin"] \in audit

(* A startup asks for what the token says until it ends where it began. *)
TokenAsked ==
  /\ at[Startup] # "over"
  /\ at[Startup] # "away" => asked[Startup] = [user |-> token, password |-> token]

AccountsInv ==
  /\ Roles /\ LateKnown /\ TokenSeedsBeforeServing
  /\ SessionsLookedUp /\ SessionsAuthentic
  /\ CreatedFirst /\ EntriesWritten /\ OverAudited

-----------------------------------------------------------------------------
(* An insert adds one account and leaves the others as they are. *)
LEMMA AccountsGrow ==
  ASSUME TypeOK, NEW c \in Credential, AdminCreate(c)
  PROVE  /\ admins' \in [Words -> Words \cup {NULL}]
         /\ \A u \in Words : admins[u] # NULL => admins'[u] = admins[u]
         /\ admins'[c.user] = Digest[c.password] /\ admins'[c.user] # NULL
         /\ Users' # {}
<1>1. c.user \in Words /\ Digest[c.password] \in Words /\ Digest[c.password] # NULL
  BY AccountsAssumption DEF Credential
<1>2. /\ admins' \in [Words -> Words \cup {NULL}]
      /\ \A u \in Words : admins[u] # NULL => admins'[u] = admins[u]
      /\ admins'[c.user] = Digest[c.password]
  BY <1>1 DEF AdminCreate, TypeOK
<1>3. c.user \in Users'
  BY <1>1, <1>2 DEF Users
<1> QED BY <1>1, <1>2, <1>3

(* A bootstrap that begins. *)
LEMMA BeginTyped ==
  ASSUME TypeOK, NEW b \in Bootstraps, NEW c \in Credential, Begin(b, c)
  PROVE  /\ at' \in [Requests -> Locations] /\ asked' \in [Requests -> Credential \cup {NULL}]
         /\ boots' \in [Bootstraps -> Known \cup {NULL}]
         /\ \A r \in Requests : at'[r] # "away" => asked'[r] # NULL
         /\ \A i \in Bootstraps : at'[i] # "away" => boots'[i] # NULL
<1>1. [late |-> Users # {}, blind |-> FALSE, created |-> FALSE] \in Known
  BY DEF Known
<1> QED BY <1>1, AccountsAssumption DEF TypeOK, Begin, Goto, Locations, Requests, Bootstraps

(* What is asked for is known once a request is under way. *)
LEMMA Asked ==
  ASSUME TypeOK, NEW r \in Requests, at[r] # "away"
  PROVE  asked[r] \in Credential /\ asked[r].user \in Words /\ asked[r].password \in Words
BY DEF TypeOK, Credential

-----------------------------------------------------------------------------
(* A request that goes on, or is answered, and the others that do not. *)
Moved(r) == at' \in [Requests -> Locations] /\ \A i \in Requests \ {r} : at'[i] = at[i]
ServerTyped == up' \in BOOLEAN /\ token' \in Words \cup {NULL} /\ stops' \in Nat

LEMMA GotoMoves ==
  ASSUME TypeOK, NEW r \in Requests, NEW l \in Locations, Goto(r, l)
  PROVE  Moved(r)
BY DEF TypeOK, Goto, Moved

LEMMA LeaveMoves ==
  ASSUME TypeOK, NEW b \in Bootstraps, Leave(b)
  PROVE  Moved(b) /\ ServerTyped
<1>1. up' \in BOOLEAN
  BY DEF Leave
<1> QED BY <1>1 DEF TypeOK, Goto, Moved, Leave, Locations, ServerTyped, Requests

LEMMA ServerSame ==
  ASSUME TypeOK, UNCHANGED serverVars
  PROVE  ServerTyped
BY DEF TypeOK, serverVars, ServerTyped

(* A failure counts. *)
LEMMA FailuresCount ==
  ASSUME TypeOK, QueryRuns \/ QueryFails
  PROVE  failed' \in Nat /\ (failed' = 0 => QueryRuns /\ failed = 0)
BY DEF TypeOK, QueryRuns, QueryFails

-----------------------------------------------------------------------------
(* The steps keep the types. *)
LEMMA BootstrapTyped ==
  ASSUME TypeOK, NEW b \in Bootstraps,
         CountAdmins(b) \/ CreateAdmin(b) \/ HashFails(b) \/ CreateFails(b) \/ AuditBootstrap(b)
  PROVE  TypeOK'
<1>1. /\ b \in Requests /\ at[b] # "away" /\ boots[b] # NULL /\ boots[b] \in Known
      /\ asked[b] \in Credential /\ asked[b].user \in Words
  BY Asked DEF TypeOK, Requests, CountAdmins, CreateAdmin, HashFails, CreateFails, AuditBootstrap
<1>2. /\ Moved(b) /\ ServerTyped
  BY <1>1, GotoMoves, LeaveMoves, ServerSame
     DEF CountAdmins, CreateAdmin, HashFails, CreateFails, AuditBootstrap, Locations
<1>3. failed' \in Nat
  BY FailuresCount DEF CountAdmins, CreateAdmin, HashFails, CreateFails, AuditBootstrap, Append, TypeOK, countVars
<1>4. /\ boots' \in [Bootstraps -> Known \cup {NULL}]
      /\ \A i \in Bootstraps : boots[i] # NULL => boots'[i] # NULL
  <2>1. /\ [boots[b] EXCEPT !.blind = (b = Startup)] \in Known
        /\ [boots[b] EXCEPT !.created = TRUE] \in Known
    BY <1>1 DEF Known
  <2>2. NULL \notin Known
    BY AccountsAssumption
  <2> QED BY <1>1, <2>1, <2>2 DEF TypeOK, CountAdmins, CreateAdmin, HashFails, CreateFails, AuditBootstrap, historyVars
<1>5. admins' \in [Words -> Words \cup {NULL}]
  BY <1>1, AccountsGrow DEF TypeOK, CountAdmins, CreateAdmin, HashFails, CreateFails, AuditBootstrap, historyVars
<1>6. audit' \subseteq [by : Requests, actor : Words, action : Actions] /\ unaudited' \subseteq Requests
  BY <1>1 DEF TypeOK, CountAdmins, CreateAdmin, HashFails, CreateFails, AuditBootstrap, Append, Actions,
                 historyVars
<1>7. UNCHANGED <<asked, sessions, byHand>>
  BY DEF CountAdmins, CreateAdmin, HashFails, CreateFails, AuditBootstrap, countVars, historyVars
<1>8. /\ \A r \in Requests : at'[r] # "away" => asked'[r] # NULL
      /\ \A i \in Bootstraps : at'[i] # "away" => boots'[i] # NULL
  BY <1>1, <1>2, <1>4, <1>7 DEF TypeOK, Moved, Requests
<1> QED BY <1>2, <1>3, <1>4, <1>5, <1>6, <1>7, <1>8 DEF TypeOK, Moved, ServerTyped

LEMMA LoginTyped ==
  ASSUME TypeOK, NEW r \in Logins, Login(r) \/ Lookup(r) \/ AnswerLogin(r)
  PROVE  TypeOK'
<1>1. r \in Requests /\ r \notin Bootstraps
  BY AccountsAssumption DEF Requests
<1>2. Moved(r) /\ ServerTyped
  BY <1>1, GotoMoves, ServerSame DEF Login, Lookup, AnswerLogin, Locations
<1>3. failed' \in Nat
  BY FailuresCount DEF TypeOK, Login, Lookup, AnswerLogin, Append, countVars
<1>4. /\ asked' \in [Requests -> Credential \cup {NULL}]
      /\ \A i \in Requests : at'[i] # "away" => asked'[i] # NULL
  <2>1. CASE Login(r)
    BY <1>1, <1>2, <2>1, AccountsAssumption DEF TypeOK, Login, Moved
  <2>2. CASE Lookup(r) \/ AnswerLogin(r)
    BY <1>1, <1>2, <2>2 DEF TypeOK, Lookup, AnswerLogin, Moved
  <2> QED BY <2>1, <2>2
<1>5. sessions' \subseteq Logins
  BY DEF TypeOK, Login, Lookup, AnswerLogin, historyVars
<1>6. audit' \subseteq [by : Requests, actor : Words, action : Actions] /\ unaudited' \subseteq Requests
  <2>1. CASE AnswerLogin(r)
    BY <1>1, <2>1, Asked DEF TypeOK, AnswerLogin, Append, Actions
  <2>2. CASE Login(r) \/ Lookup(r)
    BY <2>2 DEF TypeOK, Login, Lookup, historyVars
  <2> QED BY <2>1, <2>2
<1>7. UNCHANGED <<admins, boots, byHand>>
  BY DEF Login, Lookup, AnswerLogin, historyVars, countVars
<1>8. \A i \in Bootstraps : at'[i] # "away" => boots'[i] # NULL
  BY <1>1, <1>2, <1>7 DEF TypeOK, Moved, Requests
<1> QED BY <1>2, <1>3, <1>4, <1>5, <1>6, <1>7, <1>8 DEF TypeOK, Moved, ServerTyped

LEMMA ProcessTyped ==
  ASSUME TypeOK, StartServer \/ CtlCreateAdmin \/ Stop \/ (\E b \in Boots : BootstrapAdmin(b))
  PROVE  TypeOK'
<1>1. CASE StartServer
  <2>1. PICK t \in BootstrapTokens :
          /\ token' = t
          /\ IF t = NULL
             THEN up' = TRUE /\ UNCHANGED <<at, asked, boots>>
             ELSE Begin(Startup, [user |-> t, password |-> t]) /\ UNCHANGED up
    BY <1>1 DEF StartServer
  <2>2. CASE t = NULL
    BY <1>1, <2>1, <2>2 DEF TypeOK, StartServer, countVars
  <2>3. CASE t # NULL
    <3>1. [user |-> t, password |-> t] \in Credential /\ t \in Words
      BY <2>3, AccountsAssumption DEF Credential
    <3>2. Startup \in Bootstraps
      BY DEF Bootstraps
    <3>3. Begin(Startup, [user |-> t, password |-> t]) /\ up' = up /\ token' = t
      BY <2>1, <2>3
    <3>4. /\ at' \in [Requests -> Locations] /\ asked' \in [Requests -> Credential \cup {NULL}]
          /\ boots' \in [Bootstraps -> Known \cup {NULL}]
          /\ \A r \in Requests : at'[r] # "away" => asked'[r] # NULL
          /\ \A i \in Bootstraps : at'[i] # "away" => boots'[i] # NULL
      BY <3>1, <3>2, <3>3, BeginTyped
    <3>5. UNCHANGED <<admins, audit, sessions, unaudited, stops, failed, byHand>>
      BY <1>1 DEF StartServer, countVars
    <3>6. up' \in BOOLEAN /\ token' \in Words \cup {NULL}
      BY <3>1, <3>3 DEF TypeOK
    <3>7. {failed, stops, byHand}' \subseteq Nat
      BY <3>5 DEF TypeOK
    <3>8. /\ admins' \in [Words -> Words \cup {NULL}] /\ sessions' \subseteq Logins
          /\ audit' \subseteq [by : Requests, actor : Words, action : Actions]
          /\ unaudited' \subseteq Requests
      BY <3>5 DEF TypeOK
    <3> QED BY <3>4, <3>6, <3>7, <3>8 DEF TypeOK
  <2> QED BY <2>2, <2>3
<1>2. CASE CtlCreateAdmin
  <2>1. PICK c \in Credentials : AdminCreate(c)
    BY <1>2 DEF CtlCreateAdmin
  <2>2. admins' \in [Words -> Words \cup {NULL}]
    BY <2>1, AccountsGrow, AccountsAssumption
  <2> QED BY <1>2, <2>2 DEF TypeOK, CtlCreateAdmin, serverVars, requestVars
<1>3. CASE Stop
  <2>1. at' \in [Requests -> Locations]
    BY <1>3 DEF Stop, TypeOK, Locations
  <2>2. \A r \in Requests : at'[r] # "away" => at[r] # "away"
    BY <1>3 DEF Stop
  <2>3. stops' \in Nat /\ unaudited' \subseteq Requests /\ up' \in BOOLEAN /\ token' = NULL
    <3>1. stops' = stops + 1 /\ up' = FALSE /\ token' = NULL
      BY <1>3 DEF Stop
    <3>2. unaudited' = unaudited \cup {r \in Requests : at[r] = "audit"}
      BY <1>3 DEF Stop
    <3>3. stops \in Nat /\ unaudited \subseteq Requests
      BY DEF TypeOK
    <3>4. stops + 1 \in Nat
      BY <3>3
    <3>5. unaudited' \subseteq Requests
      BY <3>2, <3>3
    <3> QED BY <3>1, <3>4, <3>5
  <2>4. UNCHANGED <<admins, audit, asked, sessions, boots, failed, byHand>>
    BY <1>3 DEF Stop, countVars
  <2>5. {failed, stops, byHand}' \subseteq Nat
    BY <2>3, <2>4 DEF TypeOK
  <2>6. /\ admins' \in [Words -> Words \cup {NULL}] /\ sessions' \subseteq Logins
        /\ audit' \subseteq [by : Requests, actor : Words, action : Actions]
        /\ asked' \in [Requests -> Credential \cup {NULL}]
        /\ boots' \in [Bootstraps -> Known \cup {NULL}]
    BY <2>4 DEF TypeOK
  <2>7. /\ \A r \in Requests : at'[r] # "away" => asked'[r] # NULL
        /\ \A b \in Bootstraps : at'[b] # "away" => boots'[b] # NULL
    BY <2>2, <2>4 DEF TypeOK, Requests
  <2> QED BY <2>1, <2>3, <2>5, <2>6, <2>7 DEF TypeOK
<1>4. ASSUME NEW b \in Boots, BootstrapAdmin(b) PROVE TypeOK'
  <2>1. PICK c \in Credentials : Begin(b, c)
    BY <1>4 DEF BootstrapAdmin
  <2>2. c \in Credential /\ b \in Bootstraps
    BY AccountsAssumption DEF Bootstraps
  <2> QED BY <1>4, <2>1, <2>2, BeginTyped DEF TypeOK, BootstrapAdmin, serverVars, countVars
<1> QED BY <1>1, <1>2, <1>3, <1>4

(* The states of the accounts are well typed: a request under way has its  *)
(* credential, and a bootstrap under way the account count it began with.  *)
THEOREM TypeCorrect == Spec => []TypeOK
<1>1. Init => TypeOK
  <2> SUFFICES ASSUME Init PROVE TypeOK
    OBVIOUS
  <2>1. /\ admins \in [Words -> Words \cup {NULL}] /\ at \in [Requests -> Locations]
        /\ asked \in [Requests -> Credential \cup {NULL}]
        /\ boots \in [Bootstraps -> Known \cup {NULL}]
        /\ \A r \in Requests : at[r] = "away"
    BY DEF Init, Locations
  <2>2. audit = {} /\ sessions = {} /\ unaudited = {} /\ up \in BOOLEAN /\ token = NULL
    BY DEF Init
  <2>3. failed = 0 /\ stops = 0 /\ byHand = 0
    BY DEF Init
  <2> QED BY <2>1, <2>2, <2>3 DEF TypeOK, Requests
<1>2. TypeOK /\ [Next]_vars => TypeOK'
  <2>1. ASSUME TypeOK, UNCHANGED vars PROVE TypeOK'
    BY <2>1 DEF TypeOK, vars, serverVars, requestVars, historyVars, countVars
  <2> QED BY <2>1, BootstrapTyped, LoginTyped, ProcessTyped DEF Next
<1> QED BY <1>1, <1>2, PTL DEF Spec

-----------------------------------------------------------------------------
(* What a step leaves alone.  An account that is there keeps its password, *)
(* which every step of the system but a mistaken insert respects.          *)
AccountsStay == \A u \in Words : admins[u] # NULL => admins'[u] = admins[u]

LoginsSame ==
  /\ sessions' = sessions
  /\ \A r \in Logins : at'[r] = at[r] /\ asked'[r] = asked[r]

BootstrapsSame ==
  /\ boots' = boots
  /\ \A b \in Bootstraps : at'[b] = at[b] /\ asked'[b] = asked[b]

(* No request is newly over with something to account for. *)
NothingToWrite ==
  /\ audit' = audit /\ unaudited \subseteq unaudited' /\ sessions \subseteq sessions'
  /\ \A r \in Requests :
       IF at[r] = "over"
       THEN /\ at'[r] = "over" /\ asked'[r] = asked[r]
            /\ r \in sessions' => r \in sessions
            /\ r \in Boots => boots'[r] = boots[r]
       ELSE at'[r] = "over" =>
              r \in unaudited' \/ (r \notin sessions' /\ (r \in Boots => ~boots'[r].created))

(* What logins rely on. *)
LEMMA LoginsKept ==
  ASSUME TypeOK, AccountsInv, AccountsStay, LoginsSame
  PROVE  SessionsLookedUp' /\ SessionsAuthentic'
<1>1. SessionsLookedUp'
  BY DEF TypeOK, AccountsInv, LoginsSame, SessionsLookedUp
<1>2. ASSUME NEW r \in sessions' PROVE admins'[asked'[r].user] = Digest[asked'[r].password]
  <2>1. r \in Logins /\ r \in sessions /\ r \in Requests
    BY <1>2 DEF LoginsSame, TypeOK, Requests
  <2>2. at[r] # "away" /\ admins[asked[r].user] = Digest[asked[r].password]
    BY <2>1 DEF AccountsInv, SessionsLookedUp, SessionsAuthentic
  <2>3. asked[r].user \in Words /\ Digest[asked[r].password] # NULL
    BY <2>1, <2>2, Asked, AccountsAssumption
  <2> QED BY <2>1, <2>2, <2>3 DEF AccountsStay, LoginsSame
<1> QED BY <1>1, <1>2 DEF SessionsAuthentic

(* Accounts that stay leave no fewer accounts. *)
LEMMA UsersStay ==
  ASSUME AccountsStay
  PROVE  Users \subseteq Users'
BY DEF AccountsStay, Users

(* What bootstraps rely on. *)
LEMMA BootstrapsKept ==
  ASSUME TypeOK, AccountsInv, AccountsStay, BootstrapsSame
  PROVE  LateKnown' /\ CreatedFirst'
<1>1. LateKnown'
  BY UsersStay DEF AccountsInv, BootstrapsSame, LateKnown
<1>2. ASSUME NEW b \in Boots, at'[b] = "audit"
      PROVE  boots'[b].created /\ admins'[asked'[b].user] # NULL
  <2>1. b \in Bootstraps /\ b \in Requests
    BY DEF Bootstraps, Requests
  <2>2. at[b] = "audit" /\ boots[b].created /\ admins[asked[b].user] # NULL
    BY <1>2, <2>1 DEF AccountsInv, CreatedFirst, BootstrapsSame
  <2>3. asked[b].user \in Words
    BY <2>1, <2>2, Asked
  <2> QED BY <2>1, <2>2, <2>3 DEF AccountsStay, BootstrapsSame
<1> QED BY <1>1, <1>2 DEF CreatedFirst

(* What the audit log relies on. *)
LEMMA LogKept ==
  ASSUME TypeOK, AccountsInv, AccountsStay, NothingToWrite, sessions' \subseteq Logins
  PROVE  EntriesWritten' /\ OverAudited'
<1>1. ASSUME NEW e \in audit'
      PROVE  /\ e.action = "login_success" => e.by \in sessions'
             /\ e.action = "bootstrap_admin" =>
                  e.by \in Boots /\ at'[e.by] = "over" /\ boots'[e.by].created /\ admins'[e.actor] # NULL
  <2>1. e \in audit /\ e.actor \in Words /\ e.by \in Requests
    BY <1>1 DEF NothingToWrite, TypeOK
  <2> QED BY <2>1 DEF AccountsInv, EntriesWritten, NothingToWrite, AccountsStay
<1>2. ASSUME NEW r \in sessions' \ unaudited', at'[r] = "over"
      PROVE  [by |-> r, actor |-> asked'[r].user, action |-> "login_success"] \in audit'
  <2>1. r \in Requests
    BY DEF Requests
  <2> QED BY <1>2, <2>1 DEF AccountsInv, OverAudited, NothingToWrite
<1>3. ASSUME NEW b \in Boots \ unaudited', at'[b] = "over", boots'[b] # NULL, boots'[b].created
      PROVE  [by |-> b, actor |-> asked'[b].user, action |-> "bootstrap_admin"] \in audit'
  <2>1. b \in Requests
    BY DEF Requests, Bootstraps
  <2> QED BY <1>3, <2>1 DEF AccountsInv, OverAudited, NothingToWrite
<1> QED BY <1>1, <1>2, <1>3 DEF EntriesWritten, OverAudited

-----------------------------------------------------------------------------
(* A bootstrap that begins knows whether there are accounts already. *)
LEMMA BeginKeeps ==
  ASSUME TypeOK, AccountsInv, NEW b \in Bootstraps, NEW c \in Credential, Begin(b, c),
         UNCHANGED <<admins, audit, sessions, unaudited>>
  PROVE  /\ Roles' /\ LateKnown' /\ SessionsLookedUp' /\ SessionsAuthentic'
         /\ CreatedFirst' /\ EntriesWritten' /\ OverAudited'
<1>1. /\ at' = [at EXCEPT ![b] = "count"] /\ asked' = [asked EXCEPT ![b] = c] /\ at[b] = "away"
      /\ boots' = [boots EXCEPT ![b] = [late |-> Users # {}, blind |-> FALSE, created |-> FALSE]]
  BY DEF Begin, Goto
<1>2. b \in Requests /\ b \notin Logins /\ (b \in Boots \/ b = Startup) /\ AccountsStay
  BY AccountsAssumption DEF Requests, Bootstraps, AccountsStay
<1>3. Roles'
  BY <1>1, <1>2, AccountsAssumption DEF TypeOK, AccountsInv, Roles, Requests, Bootstraps
<1>4. SessionsLookedUp' /\ SessionsAuthentic'
  <2>1. LoginsSame
    BY <1>1, <1>2 DEF LoginsSame, TypeOK, Requests
  <2> QED BY <1>2, <2>1, LoginsKept
<1>5. ASSUME NEW i \in Bootstraps, boots'[i] # NULL
      PROVE  /\ boots'[i].late => Users' # {}
             /\ at'[i] \in {"count", "create"} => ~boots'[i].created
             /\ boots'[i].late /\ at'[i] = "create" => boots'[i].blind
             /\ boots'[i].late /\ boots'[i].created => boots'[i].blind
  <2>1. Users' = Users
    BY DEF Users
  <2>2. CASE i = b
    BY <1>1, <1>2, <2>1, <2>2 DEF TypeOK
  <2>3. CASE i # b
    BY <1>1, <1>2, <1>5, <2>1, <2>3 DEF TypeOK, AccountsInv, LateKnown, Requests
  <2> QED BY <2>2, <2>3
<1>6. CreatedFirst'
  BY <1>1, <1>2 DEF TypeOK, AccountsInv, CreatedFirst, Requests, Bootstraps
<1>7. EntriesWritten' /\ OverAudited'
  <2>1. NothingToWrite
    BY <1>1, <1>2 DEF TypeOK, NothingToWrite, Requests, Bootstraps
  <2> QED BY <1>2, <2>1, LogKept DEF TypeOK
<1> QED BY <1>3, <1>4, <1>5, <1>6, <1>7 DEF LateKnown

(* A step of a bootstrap under way keeps what others rely on. *)
LEMMA BootstrapKeepsLogins ==
  ASSUME TypeOK, AccountsInv, NEW b \in Bootstraps, Moved(b),
         UNCHANGED <<asked, sessions>>, AccountsStay
  PROVE  SessionsLookedUp' /\ SessionsAuthentic'
<1>1. LoginsSame
  BY AccountsAssumption DEF Moved, LoginsSame, Requests
<1> QED BY <1>1, LoginsKept

(* Count: only main goes on after an error, and it does so blindly. *)
LEMMA CountStep ==
  ASSUME TypeOK, AccountsInv, NEW b \in Bootstraps, CountAdmins(b)
  PROVE  AccountsInv'
<1>1. /\ at[b] = "count" /\ b \in Requests /\ b \notin Logins /\ (b \in Boots \/ b = Startup)
      /\ boots[b] \in Known /\ boots[b] # NULL /\ ~boots[b].created /\ Moved(b) /\ AccountsStay
      /\ UNCHANGED <<admins, audit, asked, sessions, unaudited>>
  BY AccountsAssumption, GotoMoves, LeaveMoves
     DEF CountAdmins, TypeOK, AccountsInv, LateKnown, Requests, Bootstraps, AccountsStay, Locations
<1>2. \/ QueryRuns /\ boots' = boots /\ Users = {} /\ Goto(b, "create") /\ UNCHANGED serverVars
      \/ QueryRuns /\ boots' = boots /\ Users # {} /\ Leave(b)
      \/ QueryFails /\ boots' = [boots EXCEPT ![b].blind = TRUE] /\ b = Startup
         /\ Goto(b, "create") /\ UNCHANGED serverVars
      \/ QueryFails /\ boots' = [boots EXCEPT ![b].blind = FALSE] /\ b # Startup /\ Leave(b)
  BY DEF CountAdmins
<1>3. Roles'
  <2>1. at' = [at EXCEPT ![b] = "create"]
        \/ at' = [at EXCEPT ![b] = IF b = Startup THEN "away" ELSE "over"]
    BY <1>2 DEF Goto, Leave
  <2> QED BY <1>1, <2>1, AccountsAssumption DEF TypeOK, AccountsInv, Roles, Requests, Bootstraps
<1>4. SessionsLookedUp' /\ SessionsAuthentic'
  BY <1>1, BootstrapKeepsLogins
<1>5. ASSUME NEW i \in Bootstraps, boots'[i] # NULL
      PROVE  /\ boots'[i].late => Users' # {}
             /\ at'[i] \in {"count", "create"} => ~boots'[i].created
             /\ boots'[i].late /\ at'[i] = "create" => boots'[i].blind
             /\ boots'[i].late /\ boots'[i].created => boots'[i].blind
  <2>1. Users' = Users
    BY <1>1 DEF Users
  <2>2. CASE i # b
    <3>1. boots'[i] = boots[i] /\ at'[i] = at[i]
      BY <1>1, <1>2, <2>2 DEF TypeOK, Moved, Requests
    <3> QED BY <1>5, <2>1, <3>1 DEF AccountsInv, LateKnown
  <2>3. CASE i = b
    <3>1. boots'[b].late = boots[b].late /\ boots'[b].created = boots[b].created
      BY <1>1, <1>2 DEF TypeOK, Known
    <3>2. boots[b].late => Users # {}
      BY <1>1 DEF AccountsInv, LateKnown
    <3>3. at'[b] = "create" => Users = {} \/ boots'[b].blind
      BY <1>1, <1>2 DEF TypeOK, Goto, Leave, Known
    <3> QED BY <1>1, <2>1, <2>3, <3>1, <3>2, <3>3
  <2> QED BY <2>2, <2>3
<1>6. CreatedFirst'
  <2>1. ASSUME NEW i \in Boots, at'[i] = "audit" PROVE i # b
    BY <1>1, <1>2, <2>1 DEF TypeOK, Goto, Leave
  <2>2. ASSUME NEW i \in Boots, i # b PROVE boots'[i] = boots[i] /\ at'[i] = at[i]
    BY <1>1, <1>2, <2>2 DEF TypeOK, Moved, Requests, Bootstraps
  <2> QED BY <1>1, <2>1, <2>2 DEF AccountsInv, CreatedFirst
<1>7. EntriesWritten' /\ OverAudited'
  <2>1. \A r \in Requests \ {b} : at'[r] = at[r] /\ (r \in Boots => boots'[r] = boots[r])
    BY <1>1, <1>2 DEF TypeOK, Moved, Bootstraps
  <2>2. b \notin sessions /\ ~boots'[b].created
    BY <1>1, <1>2 DEF TypeOK, Known
  <2>3. NothingToWrite
    BY <1>1, <2>1, <2>2 DEF NothingToWrite
  <2> QED BY <1>1, <2>3, LogKept DEF TypeOK
<1>8. TokenSeedsBeforeServing'
  <2>1. Users' = Users /\ (failed' = 0 => QueryRuns /\ failed = 0)
    BY <1>1, <1>2, FailuresCount DEF Users
  <2>2. QueryRuns /\ failed = 0 => Users # {} \/ UNCHANGED serverVars
    BY <1>2 DEF QueryRuns, QueryFails
  <2> QED BY <2>1, <2>2 DEF AccountsInv, TokenSeedsBeforeServing, serverVars
<1> QED BY <1>3, <1>4, <1>5, <1>6, <1>7, <1>8 DEF AccountsInv, LateKnown

(* The insert: the account is there from now on, and before its entry. *)
LEMMA CreateStep ==
  ASSUME TypeOK, AccountsInv, NEW b \in Bootstraps, CreateAdmin(b)
  PROVE  AccountsInv'
<1>1. /\ at[b] = "create" /\ b \in Requests /\ b \notin Logins /\ (b \in Boots \/ b = Startup)
      /\ asked[b] \in Credential /\ AdminCreate(asked[b])
      /\ boots[b] \in Known /\ boots[b] # NULL /\ Moved(b)
      /\ boots' = [boots EXCEPT ![b].created = TRUE] /\ UNCHANGED <<audit, asked, sessions, unaudited>>
  BY AccountsAssumption, Asked, GotoMoves, LeaveMoves
     DEF CreateAdmin, TypeOK, Requests, Bootstraps, Locations
<1>2. /\ AccountsStay /\ Users' # {} /\ asked[b].user \in Words /\ admins'[asked[b].user] # NULL
  BY <1>1, AccountsGrow, Asked DEF AccountsStay
<1>3. at' = [at EXCEPT ![b] = IF b = Startup THEN "away" ELSE "audit"]
  BY DEF CreateAdmin, Leave, Goto
<1>4. Roles'
  BY <1>1, <1>3, AccountsAssumption DEF TypeOK, AccountsInv, Roles, Requests, Bootstraps
<1>5. SessionsLookedUp' /\ SessionsAuthentic'
  BY <1>1, <1>2, BootstrapKeepsLogins
<1>6. ASSUME NEW i \in Bootstraps, boots'[i] # NULL
      PROVE  /\ boots'[i].late => Users' # {}
             /\ at'[i] \in {"count", "create"} => ~boots'[i].created
             /\ boots'[i].late /\ at'[i] = "create" => boots'[i].blind
             /\ boots'[i].late /\ boots'[i].created => boots'[i].blind
  <2>1. CASE i # b
    <3>1. boots'[i] = boots[i] /\ at'[i] = at[i]
      BY <1>1, <2>1 DEF TypeOK, Moved, Requests
    <3> QED BY <1>2, <1>6, <3>1 DEF AccountsInv, LateKnown
  <2>2. CASE i = b
    <3>1. boots'[b].late = boots[b].late /\ boots'[b].blind = boots[b].blind
      BY <1>1 DEF TypeOK, Known
    <3>2. boots[b].late => boots[b].blind
      BY <1>1 DEF AccountsInv, LateKnown
    <3>3. at'[b] \in {"away", "audit"}
      BY <1>1, <1>3 DEF TypeOK
    <3> QED BY <1>2, <2>2, <3>1, <3>2, <3>3
  <2> QED BY <2>1, <2>2
<1>7. ASSUME NEW i \in Boots, at'[i] = "audit"
      PROVE  boots'[i].created /\ admins'[asked'[i].user] # NULL
  <2>0. i \in Bootstraps /\ i \in Requests
    BY DEF Requests, Bootstraps
  <2>1. CASE i = b
    BY <1>1, <1>2, <2>1 DEF TypeOK, Known
  <2>2. CASE i # b
    <3>1. boots'[i] = boots[i] /\ at[i] = "audit" /\ asked'[i] = asked[i]
      BY <1>1, <1>7, <2>0, <2>2 DEF TypeOK, Moved
    <3>2. asked[i].user \in Words
      BY <2>0, <3>1, Asked
    <3> QED BY <1>2, <3>1, <3>2 DEF AccountsInv, CreatedFirst, AccountsStay
  <2> QED BY <2>1, <2>2
<1>8. EntriesWritten' /\ OverAudited'
  <2>1. \A r \in Requests \ {b} : at'[r] = at[r] /\ (r \in Boots => boots'[r] = boots[r])
    BY <1>1 DEF TypeOK, Moved, Bootstraps
  <2>2. at'[b] # "over"
    BY <1>1, <1>3 DEF TypeOK
  <2>3. NothingToWrite
    BY <1>1, <2>1, <2>2 DEF NothingToWrite
  <2> QED BY <1>1, <1>2, <2>3, LogKept DEF TypeOK
<1>9. TokenSeedsBeforeServing'
  BY <1>2 DEF TokenSeedsBeforeServing
<1> QED BY <1>4, <1>5, <1>6, <1>7, <1>8, <1>9 DEF AccountsInv, LateKnown, CreatedFirst

(* No account: the password has no hash, or the insert fails on an account *)
(* that is there or as a query that fails.  Of a startup without failing   *)
(* queries the first says that its token is too long.                      *)
LEMMA NoAccountStep ==
  ASSUME TypeOK, TokenAsked, AccountsInv, NEW b \in Bootstraps, HashFails(b) \/ CreateFails(b)
  PROVE  AccountsInv'
<1>1. /\ at[b] = "create" /\ b \in Requests /\ b \notin Logins /\ (b \in Boots \/ b = Startup)
      /\ asked[b].user \in Words /\ boots[b] # NULL /\ ~boots[b].created /\ Moved(b) /\ AccountsStay
      /\ UNCHANGED <<admins, audit, asked, sessions, boots, unaudited>>
  BY AccountsAssumption, Asked, LeaveMoves
     DEF HashFails, CreateFails, historyVars, TypeOK, AccountsInv, LateKnown, Requests, Bootstraps, AccountsStay
<1>2. at' = [at EXCEPT ![b] = IF b = Startup THEN "away" ELSE "over"]
  BY DEF HashFails, CreateFails, Leave, Goto
<1>3. Roles'
  BY <1>1, <1>2, AccountsAssumption DEF TypeOK, AccountsInv, Roles, Requests, Bootstraps
<1>4. SessionsLookedUp' /\ SessionsAuthentic'
  BY <1>1, BootstrapKeepsLogins
<1>5. LateKnown'
  <2>1. Users' = Users
    BY <1>1 DEF Users
  <2>2. \A i \in Bootstraps : at'[i] \in {"count", "create"} => at'[i] = at[i]
    BY <1>1, <1>2 DEF TypeOK, Requests
  <2> QED BY <1>1, <2>1, <2>2 DEF AccountsInv, LateKnown
<1>6. CreatedFirst'
  <2>1. \A i \in Boots : at'[i] = "audit" => at[i] = "audit"
    BY <1>1, <1>2 DEF TypeOK, Requests, Bootstraps
  <2> QED BY <1>1, <2>1 DEF AccountsInv, CreatedFirst
<1>7. EntriesWritten' /\ OverAudited'
  <2>1. b \notin sessions
    BY <1>1 DEF TypeOK
  <2>2. NothingToWrite
    BY <1>1, <2>1 DEF NothingToWrite, Moved
  <2> QED BY <1>1, <2>2, LogKept DEF TypeOK
<1>8. TokenSeedsBeforeServing'
  <2>1. CASE HashFails(b)
    <3>1. b = Startup => token' \in LongWords
      BY <1>1, <2>1 DEF HashFails, Hashable, Leave, TokenAsked
    <3>2. b # Startup => UNCHANGED up
      BY <2>1 DEF HashFails, Leave, TypeOK
    <3>3. UNCHANGED <<token, failed>> /\ Users' = Users
      BY <1>1, <2>1 DEF HashFails, Leave, countVars, Users
    <3> QED BY <3>1, <3>2, <3>3 DEF AccountsInv, TokenSeedsBeforeServing
  <2>2. CASE CreateFails(b)
    <3>1. Users' = Users /\ (failed' = 0 => admins[asked[b].user] # NULL)
      BY <1>1, <2>2, FailuresCount DEF Users, CreateFails, QueryFails, QueryRuns
    <3> QED BY <1>1, <3>1 DEF TokenSeedsBeforeServing, Users
  <2> QED BY <2>1, <2>2
<1> QED BY <1>3, <1>4, <1>5, <1>6, <1>7, <1>8 DEF AccountsInv

(* The entry of a bootstrap, or the failure that keeps it out. *)
LEMMA AuditBootstrapStep ==
  ASSUME TypeOK, AccountsInv, NEW b \in Bootstraps, AuditBootstrap(b)
  PROVE  AccountsInv'
<1> DEFINE entry == [by |-> b, actor |-> asked[b].user, action |-> "bootstrap_admin"]
<1>1. /\ at[b] = "audit" /\ b \in Requests /\ b \notin Logins /\ b # Startup /\ b \in Boots
      /\ boots[b].created /\ admins[asked[b].user] # NULL /\ Moved(b) /\ AccountsStay
      /\ UNCHANGED <<admins, asked, sessions, boots>> /\ at' = [at EXCEPT ![b] = "over"]
  BY AccountsAssumption, LeaveMoves
     DEF AuditBootstrap, TypeOK, AccountsInv, Roles, CreatedFirst, Requests, Bootstraps, AccountsStay,
         Leave, Goto
<1>2. \/ audit' = audit \cup {entry} /\ UNCHANGED unaudited
      \/ audit' = audit /\ unaudited' = unaudited \cup {b}
  BY DEF AuditBootstrap, Append
<1>3. Roles'
  BY <1>1, AccountsAssumption DEF TypeOK, AccountsInv, Roles, Requests, Bootstraps
<1>4. SessionsLookedUp' /\ SessionsAuthentic'
  BY <1>1, BootstrapKeepsLogins
<1>5. LateKnown' /\ CreatedFirst'
  <2>1. Users' = Users
    BY <1>1 DEF Users
  <2>2. \A i \in Bootstraps : at'[i] \in {"count", "create", "audit"} => at'[i] = at[i]
    BY <1>1 DEF TypeOK, Requests
  <2> QED BY <1>1, <2>1, <2>2 DEF AccountsInv, LateKnown, CreatedFirst, Bootstraps
<1>6. EntriesWritten'
  <2>1. at'[b] = "over" /\ \A r \in Requests : at[r] = "over" => at'[r] = "over"
    BY <1>1 DEF TypeOK
  <2>2. \A e \in audit : e.by \in Requests
    BY DEF TypeOK
  <2>3. \A e \in audit' : e \in audit \/ e = entry
    BY <1>2
  <2> QED BY <1>1, <2>1, <2>2, <2>3 DEF AccountsInv, EntriesWritten
<1>7. OverAudited'
  <2>1. \A r \in Requests : at'[r] = "over" => at[r] = "over" \/ r = b
    BY <1>1 DEF TypeOK
  <2>2. audit \subseteq audit' /\ unaudited \subseteq unaudited' /\ (entry \in audit' \/ b \in unaudited')
    BY <1>2
  <2>3. \A r \in sessions : r \in Requests /\ r # b
    BY <1>1 DEF TypeOK, Requests
  <2>4. Boots \subseteq Requests
    BY DEF Requests, Bootstraps
  <2> QED BY <1>1, <2>1, <2>2, <2>3, <2>4 DEF AccountsInv, OverAudited
<1>8. TokenSeedsBeforeServing'
  <2>1. Users' = Users /\ (failed' = 0 => failed = 0)
    BY <1>1, FailuresCount DEF Users, AuditBootstrap, Append
  <2>2. token' = token /\ (up' => up)
    BY <1>1 DEF AuditBootstrap, Leave
  <2> QED BY <2>1, <2>2 DEF AccountsInv, TokenSeedsBeforeServing
<1> QED BY <1>3, <1>4, <1>5, <1>6, <1>7, <1>8 DEF AccountsInv

-----------------------------------------------------------------------------
(* Logins touch no bootstrap. *)
LEMMA LoginKeepsBootstraps ==
  ASSUME TypeOK, AccountsInv, NEW r \in Logins, Login(r) \/ Lookup(r) \/ AnswerLogin(r)
  PROVE  LateKnown' /\ CreatedFirst' /\ TokenSeedsBeforeServing' /\ Moved(r) /\ AccountsStay
<1>1. UNCHANGED <<admins, boots, serverVars>> /\ (failed' = 0 => failed = 0)
  BY FailuresCount DEF Login, Lookup, AnswerLogin, historyVars, countVars, Append
<1>2. Moved(r)
  BY GotoMoves DEF Login, Lookup, AnswerLogin, Requests, Locations
<1>3. \A b \in Bootstraps : asked'[b] = asked[b]
  BY AccountsAssumption DEF TypeOK, Login, Lookup, AnswerLogin, Requests
<1>4. BootstrapsSame /\ AccountsStay
  BY <1>1, <1>2, <1>3, AccountsAssumption DEF BootstrapsSame, Moved, Requests, AccountsStay
<1>5. TokenSeedsBeforeServing'
  BY <1>1 DEF AccountsInv, TokenSeedsBeforeServing, serverVars, Users
<1> QED BY <1>2, <1>4, <1>5, BootstrapsKept

(* A session is issued on the row that was read, and rows keep their password. *)
LEMMA LoginStep ==
  ASSUME TypeOK, AccountsInv, NEW r \in Logins, Login(r) \/ Lookup(r)
  PROVE  AccountsInv'
<1>1. /\ r \in Requests /\ r \notin Bootstraps /\ Moved(r) /\ AccountsStay
      /\ UNCHANGED <<admins, audit, boots, unaudited>> /\ at[r] \in {"away", "lookup"}
  BY AccountsAssumption, LoginKeepsBootstraps DEF Requests, Login, Lookup, historyVars
<1>2. \/ /\ at[r] = "away" /\ at' = [at EXCEPT ![r] = "lookup"]
         /\ sessions' = sessions /\ \A i \in Requests \ {r} : asked'[i] = asked[i]
      \/ /\ at[r] = "lookup" /\ at' = [at EXCEPT ![r] = "audit"] /\ asked' = asked
         /\ \/ sessions' = sessions \cup {r} /\ admins[asked[r].user] = Digest[asked[r].password]
            \/ sessions' = sessions
  BY DEF TypeOK, Login, Lookup, Goto, historyVars
<1>3. r \notin sessions
  BY <1>1 DEF AccountsInv, SessionsLookedUp
<1>4. Roles'
  BY <1>1, <1>2, AccountsAssumption DEF TypeOK, AccountsInv, Roles, Requests, Bootstraps
<1>5. SessionsLookedUp'
  BY <1>1, <1>2, <1>3 DEF TypeOK, AccountsInv, SessionsLookedUp, Moved, Requests
<1>6. SessionsAuthentic'
  <2>1. \A i \in sessions : i \in Requests \ {r}
    BY <1>3 DEF TypeOK, Requests
  <2> QED BY <1>1, <1>2, <2>1 DEF AccountsInv, SessionsAuthentic
<1>7. EntriesWritten' /\ OverAudited'
  <2>1. at'[r] # "over"
    BY <1>1, <1>2 DEF TypeOK
  <2>2. NothingToWrite
    BY <1>1, <1>2, <2>1 DEF NothingToWrite, Moved
  <2>3. sessions' \subseteq Logins
    BY <1>2 DEF TypeOK
  <2> QED BY <1>1, <2>2, <2>3, LogKept
<1> QED BY <1>4, <1>5, <1>6, <1>7, LoginKeepsBootstraps DEF AccountsInv

(* The entry of a login, written before the answer. *)
LEMMA AnswerLoginStep ==
  ASSUME TypeOK, AccountsInv, NEW r \in Logins, AnswerLogin(r)
  PROVE  AccountsInv'
<1> DEFINE entry == [by |-> r, actor |-> asked[r].user,
                     action |-> IF r \in sessions THEN "login_success" ELSE "login_failed"]
<1>1. /\ r \in Requests /\ r \notin Bootstraps /\ r \notin Boots /\ Moved(r) /\ AccountsStay
      /\ UNCHANGED <<admins, asked, sessions, boots>> /\ at[r] = "audit"
      /\ at' = [at EXCEPT ![r] = "over"]
  BY AccountsAssumption, LoginKeepsBootstraps DEF Requests, Bootstraps, AnswerLogin, Goto
<1>2. \/ audit' = audit \cup {entry} /\ UNCHANGED unaudited
      \/ audit' = audit /\ unaudited' = unaudited \cup {r}
  BY DEF AnswerLogin, Append
<1>3. Roles'
  BY <1>1, AccountsAssumption DEF TypeOK, AccountsInv, Roles, Requests, Bootstraps
<1>4. SessionsLookedUp' /\ SessionsAuthentic'
  BY <1>1 DEF TypeOK, AccountsInv, SessionsLookedUp, SessionsAuthentic, Requests
<1>5. EntriesWritten'
  <2>1. \A i \in Requests : at[i] = "over" => at'[i] = "over"
    BY <1>1 DEF TypeOK
  <2>2. \A e \in audit : e.by \in Requests
    BY DEF TypeOK
  <2>3. \A e \in audit' : e \in audit \/ e = entry
    BY <1>2
  <2>4. entry.action # "bootstrap_admin" /\ (entry.action = "login_success" => entry.by \in sessions)
    OBVIOUS
  <2> HIDE DEF entry
  <2> QED BY <1>1, <2>1, <2>2, <2>3, <2>4 DEF AccountsInv, EntriesWritten
<1>6. OverAudited'
  <2>1. \A i \in Requests : at'[i] = "over" => at[i] = "over" \/ i = r
    BY <1>1 DEF TypeOK
  <2>2. audit \subseteq audit' /\ unaudited \subseteq unaudited' /\ (entry \in audit' \/ r \in unaudited')
    BY <1>2
  <2>3. sessions \subseteq Requests /\ Boots \subseteq Requests
    BY DEF TypeOK, Requests, Bootstraps
  <2> QED BY <1>1, <2>1, <2>2, <2>3 DEF AccountsInv, OverAudited
<1> QED BY <1>3, <1>4, <1>5, <1>6, LoginKeepsBootstraps DEF AccountsInv

-----------------------------------------------------------------------------
(* The server starts: with a token it makes the account before it listens. *)
LEMMA StartStep ==
  ASSUME TypeOK, AccountsInv, StartServer
  PROVE  AccountsInv'
<1>1. PICK t \in BootstrapTokens :
        /\ token' = t
        /\ IF t = NULL
           THEN up' = TRUE /\ UNCHANGED <<at, asked, boots>>
           ELSE Begin(Startup, [user |-> t, password |-> t]) /\ UNCHANGED up
  BY DEF StartServer
<1>2. ~up /\ UNCHANGED <<admins, audit, sessions, unaudited>>
  BY DEF StartServer
<1>3. TokenSeedsBeforeServing'
  BY <1>1, <1>2 DEF TokenSeedsBeforeServing
<1>4. CASE t = NULL
  <2>1. AccountsStay /\ LoginsSame /\ BootstrapsSame /\ NothingToWrite /\ sessions' \subseteq Logins
    BY <1>1, <1>2, <1>4 DEF TypeOK, AccountsStay, LoginsSame, BootstrapsSame, NothingToWrite
  <2>2. Roles'
    BY <1>1, <1>4 DEF AccountsInv, Roles
  <2> QED BY <1>3, <2>1, <2>2, LoginsKept, BootstrapsKept, LogKept DEF AccountsInv
<1>5. CASE t # NULL
  <2>1. [user |-> t, password |-> t] \in Credential /\ Startup \in Bootstraps
    BY <1>5, AccountsAssumption DEF Credential, Bootstraps
  <2> QED BY <1>1, <1>2, <1>3, <1>5, <2>1, BeginKeeps DEF AccountsInv
<1> QED BY <1>4, <1>5

(* A bootstrap is asked for over HTTP. *)
LEMMA BootstrapAdminStep ==
  ASSUME TypeOK, AccountsInv, NEW b \in Boots, BootstrapAdmin(b)
  PROVE  AccountsInv'
<1>1. PICK c \in Credentials : Begin(b, c)
  BY DEF BootstrapAdmin
<1>2. c \in Credential /\ b \in Bootstraps
  BY AccountsAssumption DEF Bootstraps
<1>3. TokenSeedsBeforeServing'
  BY DEF BootstrapAdmin, AccountsInv, TokenSeedsBeforeServing, serverVars, countVars, Users
<1> QED BY <1>1, <1>2, <1>3, BeginKeeps DEF AccountsInv, BootstrapAdmin

(* An account made by hand. *)
LEMMA CtlStep ==
  ASSUME TypeOK, AccountsInv, CtlCreateAdmin
  PROVE  AccountsInv'
<1>1. PICK c \in Credentials : AdminCreate(c)
  BY DEF CtlCreateAdmin
<1>2. AccountsStay /\ Users' # {}
  BY <1>1, AccountsGrow, AccountsAssumption DEF AccountsStay
<1>3. UNCHANGED <<audit, at, asked, sessions, boots, unaudited>>
  BY DEF CtlCreateAdmin, requestVars
<1>4. LoginsSame /\ BootstrapsSame /\ NothingToWrite /\ sessions' \subseteq Logins
  BY <1>3 DEF TypeOK, LoginsSame, BootstrapsSame, NothingToWrite
<1>5. Roles' /\ TokenSeedsBeforeServing'
  BY <1>2, <1>3 DEF AccountsInv, Roles, TokenSeedsBeforeServing
<1> QED BY <1>2, <1>4, <1>5, LoginsKept, BootstrapsKept, LogKept DEF AccountsInv

(* The process stops: what was still to be written never is. *)
LEMMA StopStep ==
  ASSUME TypeOK, AccountsInv, Stop
  PROVE  AccountsInv'
<1>1. /\ at' = [r \in Requests |->
              IF at[r] \in {"away", "over"} THEN at[r] ELSE IF r = Startup THEN "away" ELSE "over"]
      /\ unaudited' = unaudited \cup {r \in Requests : at[r] = "audit"}
      /\ ~up' /\ UNCHANGED <<admins, audit, asked, sessions, boots>>
  BY DEF Stop
<1>2. AccountsStay /\ Users' = Users /\ Logins \subseteq Requests /\ Bootstraps \subseteq Requests
      /\ Boots \subseteq Requests /\ Startup \in Requests
  BY <1>1 DEF AccountsStay, Users, Requests, Bootstraps
<1>3. Roles'
  BY <1>1, <1>2, AccountsAssumption DEF AccountsInv, Roles, Bootstraps
<1>4. SessionsLookedUp' /\ SessionsAuthentic'
  BY <1>1, <1>2, AccountsAssumption
     DEF TypeOK, AccountsInv, SessionsLookedUp, SessionsAuthentic, Bootstraps
<1>5. LateKnown' /\ CreatedFirst'
  <2>1. \A r \in Requests : at'[r] \in {"away", "over"}
    BY <1>1
  <2> QED BY <1>1, <1>2, <2>1 DEF AccountsInv, LateKnown, CreatedFirst
<1>6. EntriesWritten' /\ OverAudited'
  <2>1. ASSUME NEW r \in Requests, at[r] # "over", at'[r] = "over", r \notin unaudited'
        PROVE  r \notin sessions /\ (r \in Boots => ~boots[r].created)
    <3>1. at[r] \notin {"away", "audit"}
      BY <1>1, <2>1
    <3>2. r \notin sessions
      BY <2>1, <3>1 DEF AccountsInv, SessionsLookedUp
    <3>3. ASSUME r \in Boots PROVE ~boots[r].created
      BY <2>1, <3>1, <3>3 DEF TypeOK, AccountsInv, Roles, LateKnown, Bootstraps
    <3> QED BY <3>2, <3>3
  <2>2. NothingToWrite
    BY <1>1, <2>1 DEF NothingToWrite
  <2> QED BY <1>1, <1>2, <2>2, LogKept DEF TypeOK
<1>7. TokenSeedsBeforeServing'
  BY <1>1 DEF TokenSeedsBeforeServing
<1> QED BY <1>3, <1>4, <1>5, <1>6, <1>7 DEF AccountsInv

-----------------------------------------------------------------------------
(* The startup under way asks for the account the token names, so that a   *)
(* hash that fails tells how long the token is.                            *)
LEMMA TokenIsAsked == Spec => []TokenAsked
<1>1. Init => TokenAsked
  BY DEF Init, TokenAsked, Requests, Bootstraps
<1>2. TypeOK /\ TokenAsked /\ [Next]_vars => TokenAsked'
  <2> SUFFICES ASSUME TypeOK, TokenAsked, [Next]_vars PROVE TokenAsked'
    OBVIOUS
  <2>0. Startup \in Requests /\ Startup \notin Logins /\ Startup \notin Boots
    BY AccountsAssumption DEF Requests, Bootstraps
  <2>1. CASE StartServer
    BY <2>0, <2>1 DEF TypeOK, TokenAsked, StartServer, Begin, Goto
  <2>2. CASE Stop
    BY <2>0, <2>2 DEF TypeOK, TokenAsked, Stop
  <2>3. ASSUME NEW b \in Boots, BootstrapAdmin(b) PROVE TokenAsked'
    BY <2>0, <2>3 DEF TypeOK, TokenAsked, BootstrapAdmin, Begin, Goto, serverVars
  <2>4. ASSUME NEW b \in Bootstraps,
               CountAdmins(b) \/ CreateAdmin(b) \/ HashFails(b) \/ CreateFails(b) \/ AuditBootstrap(b)
        PROVE  TokenAsked'
    <3>1. UNCHANGED <<token, asked>> /\ at[b] # "away"
      BY <2>4 DEF CountAdmins, CreateAdmin, HashFails, CreateFails, AuditBootstrap, Leave, serverVars
    <3>2. CASE b = Startup
      <4>1. \E l \in {"away", "create"} : Goto(b, l)
        BY <2>0, <2>4, <3>2 DEF CountAdmins, CreateAdmin, HashFails, CreateFails, AuditBootstrap, Leave
      <4> QED BY <2>0, <3>1, <3>2, <4>1 DEF TypeOK, TokenAsked, Goto
    <3>3. CASE b # Startup
      <4>1. \E l \in Locations : Goto(b, l)
        BY <2>4 DEF CountAdmins, CreateAdmin, HashFails, CreateFails, AuditBootstrap, Leave, Locations
      <4> QED BY <2>0, <3>1, <3>3, <4>1 DEF TypeOK, TokenAsked, Goto
    <3> QED BY <3>2, <3>3
  <2>5. ASSUME NEW r \in Logins, Login(r) \/ Lookup(r) \/ AnswerLogin(r) PROVE TokenAsked'
    BY <2>0, <2>5 DEF TypeOK, TokenAsked, Login, Lookup, AnswerLogin, Goto, serverVars
  <2>6. CASE CtlCreateAdmin
    BY <2>6 DEF TokenAsked, CtlCreateAdmin, serverVars, requestVars
  <2>7. CASE UNCHANGED vars
    BY <2>7 DEF TokenAsked, vars, serverVars, requestVars
  <2> QED BY <2>1, <2>2, <2>3, <2>4, <2>5, <2>6, <2>7 DEF Next
<1> QED BY <1>1, <1>2, TypeCorrect, PTL DEF Spec

(* What requests in progress rely on holds throughout. *)
LEMMA AccountsInvariant == Spec => []AccountsInv
<1>1. Init => AccountsInv
  <2> SUFFICES ASSUME Init PROVE AccountsInv
    OBVIOUS
  <2>1. Roles
    BY DEF Init, Roles, Requests, Bootstraps
  <2>2. LateKnown /\ CreatedFirst
    BY DEF Init, LateKnown, CreatedFirst, Requests, Bootstraps
  <2>3. SessionsLookedUp /\ SessionsAuthentic /\ EntriesWritten /\ TokenSeedsBeforeServing
    BY DEF Init, SessionsLookedUp, SessionsAuthentic, EntriesWritten, TokenSeedsBeforeServing
  <2>4. OverAudited
    BY DEF Init, OverAudited, Requests, Bootstraps
  <2> QED BY <2>1, <2>2, <2>3, <2>4 DEF AccountsInv
<1>2. TypeOK /\ TokenAsked /\ AccountsInv /\ [Next]_vars => AccountsInv'
  <2> SUFFICES ASSUME TypeOK, TokenAsked, AccountsInv, [Next]_vars PROVE AccountsInv'
    OBVIOUS
  <2>1. ASSUME NEW b \in Bootstraps,
               CountAdmins(b) \/ CreateAdmin(b) \/ HashFails(b) \/ CreateFails(b) \/ AuditBootstrap(b)
        PROVE  AccountsInv'
    BY <2>1, CountStep, CreateStep, NoAccountStep, AuditBootstrapStep
  <2>2. ASSUME NEW r \in Logins, Login(r) \/ Lookup(r) \/ AnswerLogin(r) PROVE AccountsInv'
    BY <2>2, LoginStep, AnswerLoginStep
  <2>3. CASE UNCHANGED vars
    <3>1. AccountsStay /\ LoginsSame /\ BootstrapsSame /\ NothingToWrite /\ sessions' \subseteq Logins
      BY <2>3 DEF vars, requestVars, historyVars, TypeOK, AccountsStay, LoginsSame, BootstrapsSame,
                  NothingToWrite
    <3>2. Roles' /\ TokenSeedsBeforeServing'
      BY <2>3 DEF vars, requestVars, serverVars, countVars, AccountsInv, Roles, TokenSeedsBeforeServing,
                  Users
    <3> QED BY <3>1, <3>2, LoginsKept, BootstrapsKept, LogKept DEF AccountsInv
  <2> QED BY <2>1, <2>2, <2>3, StartStep, CtlStep, StopStep, BootstrapAdminStep DEF Next
<1> QED BY <1>1, <1>2, TypeCorrect, TokenIsAsked, PTL DEF Spec

(* No bootstrap that began when an account existed creates one, over HTTP  *)
(* (handlers.go:655) or at startup, except a startup whose count failed    *)
(* (main.go:60): however many are under way at once, and whatever fails.   *)
THEOREM BootstrapStaysClosed == Spec => []BootstrapClosed
<1>1. AccountsInv => BootstrapClosed
  BY DEF AccountsInv, LateKnown, BootstrapClosed
<1> QED BY <1>1, AccountsInvariant, PTL

(* A server that listens with a bootstrap token has an account, unless a   *)
(* query failed or bcrypt refused the token as too long (main.go:62): the  *)
(* startup makes it first (main.go:59).                                    *)
THEOREM TokenSeeds == Spec => []TokenSeedsBeforeServing
<1>1. AccountsInv => TokenSeedsBeforeServing
  BY DEF AccountsInv
<1> QED BY <1>1, AccountsInvariant, PTL

(* A session's account keeps the password the session was issued for:      *)
(* no insert that comes in between takes an account over, because user     *)
(* names are unique in admin_users.                                        *)
THEOREM SessionsStayAuthentic == Spec => []SessionsAuthentic
<1>1. AccountsInv => SessionsAuthentic
  BY DEF AccountsInv
<1> QED BY <1>1, AccountsInvariant, PTL

(* The audit log tells of every session and every account bootstrapped     *)
(* over HTTP that no failure kept out, and of no other, for any            *)
(* interleaving of requests and any stop in the middle of them.            *)
THEOREM AuditIsTrue == Spec => []AuditTellsWhatHappened
<1>1. AccountsInv => AuditTellsWhatHappened
  BY DEF AccountsInv, EntriesWritten, OverAudited, AuditTellsWhatHappened
<1> QED BY <1>1, AccountsInvariant, PTL
=============================================================================
