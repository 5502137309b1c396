---------------------------- MODULE AccountsProofs ----------------------------
(***************************************************************************)
(* Accounts stay apart: one per username and mailbox, one per id for ever, *)
(* whatever registrations, seeding scripts and wipes run beside each       *)
(* other.                                                                  *)
(***************************************************************************)
EXTENDS Accounts, TLAPS

\* The three parts of AccountsInv: the table, the requests with the tokens, and
\* the runs of the script with what they have added.
TableOK ==
  /\ users = [id \in DOMAIN users |-> users[id]]
  /\ \A id \in DOMAIN users : /\ id \in Nat \ {0} /\ id < nextId
                              /\ users[id] \in Account /\ users[id].email.case = "lower"
  /\ nextId \in Nat \ {0}
  /\ KeysUnique

WebType ==
  /\ started \in 0..MaxRequests
  /\ pc \in [Clients -> {"idle", "selectEmail", "selectUsername", "insert", "refresh",
                          "selectUser", "authenticate"}]
  /\ call \in [Clients -> {NoCall} \cup Calls]
  /\ loaded \in [Clients -> Nat]
  /\ reply \in [Clients -> {"none", "created", "conflict", "integrityError", "refreshError"}]
  /\ tokens \subseteq Token
  /\ actor \in [Clients -> {Nobody} \cup [token : Token, user : Account]]

WebOK ==
  /\ WebType
  /\ \A c \in Clients : SessionOK(c)
  /\ \A token \in tokens : token.sub < nextId
  /\ TokensNameTheirAccount

ScriptOK ==
  /\ runs \in 0..MaxSeedRuns
  /\ seed \in [Seeders -> Ended \cup DOMAIN NextStep]
  /\ created \in [Seeders -> [SampleNames -> Nat]]
  /\ sampled \subseteq DOMAIN users
  /\ SampleIsOrdered
  /\ \A s \in Seeders : RunOK(s)

LEMMA Parts == AccountsInv <=> TableOK /\ WebOK /\ ScriptOK
BY DEF AccountsInv, TypeOK, TableOK, WebOK, WebType, ScriptOK

-----------------------------------------------------------------------------
(* Accounts *)

LEMMA SameMailbox ==
  ASSUME NEW one \in Address, NEW other \in Address,
         one.case = "lower", other.case = "lower", Canonical(one) = Canonical(other)
  PROVE  one = other
BY DEF Address, Canonical

LEMMA NewUserOK ==
  ASSUME NEW request \in CallType
  PROVE  NewUser(request) \in Account /\ NewUser(request).email.case = "lower"
BY DEF CallType, NewUser, Account, Address, Canonical

LEMMA SampleUserOK ==
  ASSUME NEW name \in SampleNames
  PROVE  /\ SampleUser(name) \in Account /\ SampleUser(name).email.case = "lower"
         /\ SampleUser(name).username = name
BY SampleAssumption DEF SampleUser, Account, Address

-----------------------------------------------------------------------------
(* What a step may do to the table *)

\* An id behind the sequence is never given again.
Forward ==
  /\ nextId' \in Nat /\ nextId <= nextId'
  /\ \A id \in DOMAIN users' : id < nextId => id \in DOMAIN users /\ users'[id] = users[id]

Grows == Forward /\ DOMAIN users \subseteq DOMAIN users'

LEMMA InsertOK ==
  ASSUME TableOK, NEW account \in Account, account.email.case = "lower",
         KeysFree(account), InsertUser(account)
  PROVE  /\ TableOK' /\ Grows
         /\ nextId < nextId' /\ nextId \in DOMAIN users' /\ users'[nextId] = account
<1>1. /\ DOMAIN users' = DOMAIN users \cup {nextId} /\ nextId' = nextId + 1
      /\ nextId \notin DOMAIN users
      /\ users' = [id \in DOMAIN users' |-> users'[id]]
  BY DEF TableOK, InsertUser, NewId
<1>2. /\ users'[nextId] = account
      /\ \A id \in DOMAIN users : users'[id] = users[id]
  BY <1>1 DEF InsertUser, NewId
<1>3. ASSUME NEW id \in DOMAIN users
      PROVE  /\ users[id].username # account.username
             /\ Canonical(users[id].email) # Canonical(account.email)
  <2>1. users[id] \in Account /\ users[id].email.case = "lower"
    BY DEF TableOK
  <2>2. users[id].email \in Address /\ account.email \in Address
    BY <2>1 DEF Account
  <2>3. users[id].username # account.username /\ users[id].email # account.email
    BY <1>3 DEF KeysFree
  <2> QED
    BY <2>1, <2>2, <2>3, SameMailbox
<1>4. KeysUnique'
  <2> SUFFICES ASSUME NEW id \in DOMAIN users', NEW other \in DOMAIN users', id # other,
                      \/ users'[id].username = users'[other].username
                      \/ Canonical(users'[id].email) = Canonical(users'[other].email)
               PROVE  FALSE
    BY DEF KeysUnique, Canonical
  <2>1. CASE id \in DOMAIN users /\ other \in DOMAIN users
    BY <2>1, <1>2 DEF TableOK, KeysUnique
  <2>2. CASE id = nextId /\ other \in DOMAIN users
    BY <2>2, <1>2, <1>3
  <2>3. CASE other = nextId /\ id \in DOMAIN users
    BY <2>3, <1>2, <1>3
  <2> QED
    BY <1>1, <2>1, <2>2, <2>3
<1>5. \A id \in DOMAIN users' : /\ id \in Nat \ {0} /\ id < nextId'
                                /\ users'[id] \in Account /\ users'[id].email.case = "lower"
  BY <1>1, <1>2 DEF TableOK
<1> QED
  BY <1>1, <1>2, <1>4, <1>5 DEF TableOK, Grows, Forward

LEMMA SameRows ==
  ASSUME TableOK, UNCHANGED <<users, nextId>>
  PROVE  TableOK' /\ Grows
BY DEF TableOK, Grows, Forward, KeysUnique, Canonical

LEMMA WipeOK ==
  ASSUME TableOK, users' = [id \in {} |-> users[id]], nextId' = nextId
  PROVE  TableOK' /\ Forward /\ DOMAIN users' = {}
<1>1. DOMAIN users' = {} /\ users' = [id \in DOMAIN users' |-> users'[id]]
  OBVIOUS
<1> QED
  BY <1>1 DEF TableOK, Forward, KeysUnique

-----------------------------------------------------------------------------
(* Who does not take part in a step *)

LEMMA SessionForward ==
  ASSUME TableOK, Forward, NEW c \in Clients, WebType, SessionOK(c),
         pc'[c] = pc[c], call'[c] = call[c], loaded'[c] = loaded[c]
  PROVE  SessionOK(c)'
<1>1. loaded[c] \in Nat /\ nextId \in Nat
  BY DEF TableOK, WebType
<1> QED
  BY <1>1 DEF SessionOK, Forward, Registers, NewUser, Canonical

LEMMA TokensForward ==
  ASSUME TableOK, Forward, WebType, TokensNameTheirAccount,
         \A token \in tokens : token.sub < nextId, tokens' = tokens, actor' = actor
  PROVE  /\ TokensNameTheirAccount'
         /\ \A token \in tokens' : token.sub < nextId'
<1>1. \A token \in tokens : token.sub \in Nat
  BY DEF WebType, Token
<1>2. nextId \in Nat
  BY DEF TableOK
<1> QED
  BY <1>1, <1>2 DEF TokensNameTheirAccount, Forward

LEMMA WebForward ==
  ASSUME TableOK, Forward, WebOK, UNCHANGED web
  PROVE  WebOK'
<1>1. WebType'
  BY DEF WebOK, WebType, web
<1>2. \A c \in Clients : SessionOK(c)'
  BY SessionForward DEF WebOK, web
<1> QED
  BY <1>1, <1>2, TokensForward DEF WebOK, web

LEMMA RunForward ==
  ASSUME TableOK, ScriptOK, NEW s \in Seeders, Forward,
         seed'[s] = seed[s], created'[s] = created[s],
         sampled \subseteq sampled' \/ DOMAIN users' = {}
  PROVE  RunOK(s)'
<1>1. \A name \in SampleNames : created[s][name] \in Nat
  BY DEF ScriptOK
<1>2. nextId \in Nat /\ "bob" \in SampleNames
  BY DEF TableOK, SampleNames
<1>3. RunOK(s)
  BY DEF ScriptOK
<1>4. ASSUME NEW name \in SampleNames
      PROVE  /\ created'[s][name] < nextId'
             /\ created'[s][name] \in DOMAIN users'
                  => users'[created'[s][name]] = SampleUser(name)
  BY <1>1, <1>2, <1>3, <1>4 DEF RunOK, Forward
<1>5. ASSUME seed'[s] = "bookmarksBob", created'[s]["bob"] \in DOMAIN users'
      PROVE  created'[s]["alice"] \in sampled'
  BY <1>1, <1>2, <1>3, <1>5 DEF RunOK, Forward
<1> QED
  BY <1>4, <1>5 DEF RunOK, SampleUser

LEMMA SampleForward ==
  ASSUME TableOK, ScriptOK, Grows, sampled' = sampled
  PROVE  sampled' \subseteq DOMAIN users' /\ SampleIsOrdered'
<1>1. \A id \in sampled : id \in DOMAIN users' /\ users'[id] = users[id]
  BY DEF TableOK, ScriptOK, Grows, Forward
<1> QED
  BY <1>1 DEF ScriptOK, SampleIsOrdered

LEMMA ScriptForward ==
  ASSUME TableOK, ScriptOK, Grows, UNCHANGED <<sampled, script>>
  PROVE  ScriptOK'
<1>1. \A s \in Seeders : RunOK(s)'
  BY RunForward DEF script, Grows
<1> QED
  BY <1>1, SampleForward DEF ScriptOK, script

-----------------------------------------------------------------------------
(* Requests *)

\* A client whose session is as SessionOK says, among others that did not move.
LEMMA OneClientMoves ==
  ASSUME TableOK, Forward, WebOK, WebType', NEW c \in Clients,
         \A o \in Clients \ {c} :
           pc'[o] = pc[o] /\ call'[o] = call[o] /\ loaded'[o] = loaded[o],
         SessionOK(c)'
  PROVE  \A o \in Clients : SessionOK(o)'
BY SessionForward DEF WebOK

LEMMA IdleClient ==
  ASSUME TableOK, TableOK', NEW c \in Clients,
         pc'[c] = "idle", call'[c] = NoCall, loaded'[c] = 0
  PROVE  SessionOK(c)'
BY DEF SessionOK, TableOK

LEMMA Finished ==
  ASSUME WebType, NEW c \in Clients, Finish(c)
  PROVE  /\ pc'[c] = "idle" /\ call'[c] = NoCall /\ loaded'[c] = 0
         /\ \A o \in Clients \ {c} :
              pc'[o] = pc[o] /\ call'[o] = call[o] /\ loaded'[o] = loaded[o]
         /\ pc' \in [Clients -> {"idle", "selectEmail", "selectUsername", "insert", "refresh",
                                 "selectUser", "authenticate"}]
         /\ call' \in [Clients -> {NoCall} \cup Calls]
         /\ loaded' \in [Clients -> Nat]
BY DEF WebType, Finish, Goto

\* A token that is issued names the account it is issued for.
LEMMA IssueOK ==
  ASSUME TableOK, WebOK, NEW id \in DOMAIN users, Issue(id, users[id]),
         UNCHANGED <<users, nextId, actor>>
  PROVE  /\ tokens' \subseteq Token /\ TokensNameTheirAccount'
         /\ \A token \in tokens' : token.sub < nextId'
<1> DEFINE new == [sub |-> id, account |-> users[id]]
<1>1. tokens' = tokens \cup {new} /\ new.sub = id /\ new.account = users[id]
  BY DEF Issue
<1>2. new \in Token
  BY DEF TableOK, Token
<1> HIDE DEF new
<1>3. id < nextId
  BY DEF TableOK
<1> QED
  BY <1>1, <1>2, <1>3 DEF WebOK, WebType, TokensNameTheirAccount

LEMMA BeginOK ==
  ASSUME TableOK, WebOK, NEW c \in Clients, Begin(c)
  PROVE  WebOK'
<1>1. PICK request \in Calls :
        /\ call' = [call EXCEPT ![c] = request]
        /\ Goto(c, FirstStatement[request.op])
        /\ reply' = IF request.op = "register" THEN [reply EXCEPT ![c] = "none"] ELSE reply
  BY DEF Begin
<1>2. \/ (request.op = "register" /\ FirstStatement[request.op] = "selectEmail")
      \/ (request.op = "login" /\ FirstStatement[request.op] = "selectUser")
      \/ (request.op = "resource" /\ FirstStatement[request.op] = "authenticate")
  <2>1. request.op \in {"register", "login", "resource"}
    BY CallsAssumption DEF CallType
  <2>2. /\ FirstStatement["register"] = "selectEmail"
        /\ FirstStatement["login"] = "selectUser"
        /\ FirstStatement["resource"] = "authenticate"
    BY DEF FirstStatement
  <2> QED
    BY <2>1, <2>2
<1>3. WebType'
  BY <1>1, <1>2, BoundsAssumption DEF Begin, WebOK, WebType, Goto
<1>4. request # NoCall
  BY <1>2, CallsAssumption DEF NoCall, CallType
<1>5. /\ pc'[c] = FirstStatement[request.op] /\ call'[c] = request
      /\ loaded'[c] = loaded[c]
  BY <1>1 DEF Begin, WebOK, WebType, Goto
<1>6. SessionOK(c)'
  BY <1>2, <1>4, <1>5 DEF Begin, rows, WebOK, SessionOK, Registers
<1>7. Forward
  BY SameRows DEF Begin, rows, Grows
<1>8. \A o \in Clients \ {c} : pc'[o] = pc[o] /\ call'[o] = call[o] /\ loaded'[o] = loaded[o]
  BY <1>1 DEF Begin, WebOK, WebType, Goto
<1> QED
  BY <1>3, <1>6, <1>7, <1>8, OneClientMoves, TokensForward DEF Begin, WebOK

\* The request ends, and no token is issued.
LEMMA RefusedOK ==
  ASSUME TableOK, WebOK, NEW c \in Clients,
         \/ Conflict(c) \/ LoseRace(c) \/ RefreshGone(c)
         \/ InvalidCredentials(c) \/ Unauthorized(c)
  PROVE  WebOK'
<1>1. /\ Finish(c) /\ UNCHANGED <<users, nextId, started, tokens, actor>>
      /\ reply' \in [Clients -> {"none", "created", "conflict", "integrityError",
                                 "refreshError"}]
  BY DEF Conflict, LoseRace, RefreshGone, InvalidCredentials, Unauthorized, Answer, Depart,
    rows, WebOK, WebType
<1>2. TableOK' /\ Forward
  BY <1>1, SameRows DEF Grows
<1>3. WebType'
  BY <1>1, Finished DEF WebOK, WebType
<1> QED
  BY <1>1, <1>2, <1>3, Finished, IdleClient, OneClientMoves, TokensForward DEF WebOK

\* The request ends with a token for an account that it has loaded.
LEMMA IssuedOK ==
  ASSUME TableOK, WebOK, NEW c \in Clients, Welcome(c) \/ Login(c)
  PROVE  WebOK'
<1>1. /\ Finish(c) /\ UNCHANGED <<users, nextId, started, actor>>
      /\ reply' \in [Clients -> {"none", "created", "conflict", "integrityError",
                                 "refreshError"}]
  BY DEF Welcome, Login, Answer, Depart, rows, WebOK, WebType
<1>2. TableOK' /\ Forward
  BY <1>1, SameRows DEF Grows
<1>3. PICK id \in DOMAIN users : Issue(id, users[id])
  BY DEF Welcome, Login
<1>4. /\ tokens' \subseteq Token /\ TokensNameTheirAccount'
      /\ \A token \in tokens' : token.sub < nextId'
  BY <1>1, <1>3, IssueOK
<1>5. WebType'
  BY <1>1, <1>4, Finished DEF WebOK, WebType
<1> QED
  BY <1>1, <1>2, <1>4, <1>5, Finished, IdleClient, OneClientMoves DEF WebOK

\* Whoever is let in by a token is the account the token was issued for.
LEMMA AuthenticateOK ==
  ASSUME TableOK, WebOK, NEW c \in Clients, Authenticate(c)
  PROVE  WebOK'
<1>1. /\ Finish(c) /\ UNCHANGED <<users, nextId, started, reply, tokens>>
  BY DEF Authenticate, Depart, rows
<1>2. TableOK' /\ Forward
  BY <1>1, SameRows DEF Grows
<1>3. PICK token \in tokens :
        /\ token.sub \in DOMAIN users
        /\ actor' = [actor EXCEPT ![c] = [token |-> token, user |-> users[token.sub]]]
  BY DEF Authenticate
<1> DEFINE now == [token |-> token, user |-> users[token.sub]]
<1>4. /\ now \in [token : Token, user : Account]
      /\ now.user = now.token.account
  <2>1. token \in Token /\ users[token.sub] \in Account
    BY <1>3 DEF TableOK, WebOK, WebType
  <2>2. users[token.sub] = token.account
    BY <1>3 DEF WebOK, TokensNameTheirAccount
  <2> QED
    BY <2>1, <2>2
<1>5. actor' = [actor EXCEPT ![c] = now]
  BY <1>3
<1> HIDE DEF now
<1>6. actor' \in [Clients -> {Nobody} \cup [token : Token, user : Account]]
  BY <1>4, <1>5 DEF WebOK, WebType
<1>7. TokensNameTheirAccount'
  BY <1>1, <1>4, <1>5 DEF WebOK, WebType, TokensNameTheirAccount
<1>8. WebType'
  BY <1>1, <1>6, Finished DEF WebOK, WebType
<1> QED
  BY <1>1, <1>2, <1>7, <1>8, Finished, IdleClient, OneClientMoves DEF WebOK

LEMMA NoConflictOK ==
  ASSUME TableOK, WebOK, NEW c \in Clients, NoConflict(c)
  PROVE  WebOK'
<1>1. /\ UNCHANGED <<users, nextId, started, call, loaded, reply, tokens, actor>>
      /\ pc[c] \in {"selectEmail", "selectUsername"}
      /\ \E next \in {"selectUsername", "insert"} : pc' = [pc EXCEPT ![c] = next]
  BY DEF NoConflict, rows, Goto, At
<1>2. TableOK' /\ Forward
  BY <1>1, SameRows DEF Grows
<1>3. WebType'
  BY <1>1 DEF WebOK, WebType
<1>4. SessionOK(c)'
  BY <1>1 DEF WebOK, WebType, SessionOK, Registers
<1>5. \A o \in Clients \ {c} : pc'[o] = pc[o] /\ call'[o] = call[o] /\ loaded'[o] = loaded[o]
  BY <1>1 DEF WebOK, WebType
<1> QED
  BY <1>1, <1>2, <1>3, <1>4, <1>5, OneClientMoves, TokensForward DEF WebOK

LEMMA InsertStep ==
  ASSUME TableOK, WebOK, NEW c \in Clients, Insert(c)
  PROVE  TableOK' /\ Grows /\ WebOK'
<1>1. call[c] \in CallType /\ Registers(c)
  <2>1. pc[c] = "insert"
    BY DEF Insert, At
  <2> QED
    BY <2>1, CallsAssumption DEF WebOK, WebType, SessionOK, Registers, NoCall
<1>2. /\ TableOK' /\ Grows /\ nextId < nextId'
      /\ nextId \in DOMAIN users' /\ users'[nextId] = NewUser(call[c])
  BY <1>1, NewUserOK, InsertOK DEF Insert
<1>3. /\ pc' = [pc EXCEPT ![c] = "refresh"] /\ loaded' = [loaded EXCEPT ![c] = nextId]
      /\ UNCHANGED <<started, call, reply, tokens, actor>>
  BY DEF Insert, Goto, NewId
<1>4. WebType'
  BY <1>3 DEF TableOK, WebOK, WebType
<1>5. pc'[c] = "refresh" /\ loaded'[c] = nextId /\ call'[c] = call[c] /\ call[c] # NoCall
  BY <1>1, <1>3 DEF WebOK, WebType, Registers, NoCall
<1>6. SessionOK(c)'
  BY <1>1, <1>2, <1>5 DEF SessionOK, Registers, NewUser, Canonical
<1>7. \A o \in Clients \ {c} : pc'[o] = pc[o] /\ call'[o] = call[o] /\ loaded'[o] = loaded[o]
  BY <1>3 DEF WebOK, WebType
<1> QED
  BY <1>2, <1>3, <1>4, <1>6, <1>7, OneClientMoves, TokensForward DEF WebOK, Grows

LEMMA CrashOK ==
  ASSUME TableOK, WebOK, Crash
  PROVE  WebOK'
<1>1. UNCHANGED <<users, nextId, started, reply, tokens, actor>>
  BY DEF Crash, rows
<1>2. TableOK' /\ Forward
  BY <1>1, SameRows DEF Grows
<1>3. \A c \in Clients : SessionOK(c)'
  BY <1>2, IdleClient DEF Crash
<1>4. WebType'
  BY <1>1 DEF Crash, WebOK, WebType
<1> QED
  BY <1>1, <1>2, <1>3, <1>4, TokensForward DEF WebOK

-----------------------------------------------------------------------------
(* Runs of the script *)

LEMMA NextStepIs ==
  /\ NextStep["reset"] = "count" /\ NextStep["count"] = "alice"
  /\ NextStep["alice"] = "refreshAlice" /\ NextStep["refreshAlice"] = "bob"
  /\ NextStep["bob"] = "refreshBob" /\ NextStep["refreshBob"] = "bookmarksAlice"
  /\ NextStep["bookmarksAlice"] = "bookmarksBob" /\ NextStep["bookmarksBob"] = "seeded"
  /\ DOMAIN NextStep = {"reset", "count", "alice", "refreshAlice", "bob", "refreshBob",
                        "bookmarksAlice", "bookmarksBob"}
BY DEF NextStep

LEMMA NoUsersYet ==
  ASSUME TableOK, TableOK', NEW s \in Seeders, created'[s] = NoUsers
  PROVE  RunOK(s)'
BY DEF TableOK, RunOK, NoUsers, SampleNames, SampleUser

\* A step of a run that leaves the rows alone: it starts, ends or goes on.
LEMMA RunStepOK ==
  ASSUME TableOK, ScriptOK, NEW s \in Seeders,
         \/ StartSeed(s) \/ Skip(s) \/ NobodyThere(s)
         \/ RefreshUser(s) \/ SeedFails(s) \/ CutOff(s)
  PROVE  ScriptOK' /\ UNCHANGED <<rows, web>>
<1>1. UNCHANGED <<users, sampled, nextId, web>>
  BY DEF StartSeed, Skip, NobodyThere, RefreshUser, SeedFails, CutOff, GiveUp, rows
<1>2. TableOK' /\ Grows
  BY <1>1, SameRows
<1>3. PICK next \in Ended \cup DOMAIN NextStep, own \in [SampleNames -> Nat] :
        /\ seed' = [seed EXCEPT ![s] = next] /\ created' = [created EXCEPT ![s] = own]
        /\ next # "bookmarksBob"
        /\ own = created[s] \/ own = NoUsers
  <2>1. created = [created EXCEPT ![s] = created[s]] /\ created[s] \in [SampleNames -> Nat]
    BY DEF ScriptOK
  <2>2. CASE StartSeed(s)
    BY <2>1, <2>2, NextStepIs DEF StartSeed, SeedGoto
  <2>3. CASE Skip(s) \/ SeedFails(s) \/ CutOff(s)
    <3>1. NoUsers \in [SampleNames -> Nat] /\ "idle" \in Ended
      BY DEF NoUsers, Ended
    <3> QED
      BY <2>3, <3>1 DEF Skip, SeedFails, CutOff, GiveUp, SeedGoto
  <2>4. CASE NobodyThere(s) \/ RefreshUser(s)
    <3>1. seed[s] \in {"count", "refreshAlice", "refreshBob"}
      BY <2>4 DEF NobodyThere, RefreshUser
    <3>2. NextStep[seed[s]] \in {"alice", "bob", "bookmarksAlice"}
      BY <3>1, NextStepIs
    <3>3. NextStep[seed[s]] \in Ended \cup DOMAIN NextStep /\ NextStep[seed[s]] # "bookmarksBob"
      BY <3>2, NextStepIs
    <3> QED
      BY <2>1, <2>4, <3>3 DEF NobodyThere, RefreshUser, Proceed, SeedGoto
  <2> QED
    BY <2>2, <2>3, <2>4
<1>4. ASSUME NEW o \in Seeders \ {s}
      PROVE  RunOK(o)'
  <2>1. seed'[o] = seed[o] /\ created'[o] = created[o]
    BY <1>3, <1>4 DEF ScriptOK
  <2> QED
    BY <1>1, <1>2, <2>1, RunForward DEF Grows
<1>5. RunOK(s)'
  <2>1. seed'[s] # "bookmarksBob" /\ created'[s] = own
    BY <1>3 DEF ScriptOK
  <2>2. CASE own = NoUsers
    BY <1>2, <2>1, <2>2, NoUsersYet
  <2>3. CASE own = created[s]
    BY <1>1, <2>1, <2>3 DEF ScriptOK, RunOK, SampleUser
  <2> QED
    BY <1>3, <2>2, <2>3
<1>6. runs' \in 0..MaxSeedRuns
  BY BoundsAssumption DEF StartSeed, Skip, NobodyThere, RefreshUser, SeedFails, CutOff, GiveUp,
    ScriptOK
<1>7. /\ seed' \in [Seeders -> Ended \cup DOMAIN NextStep]
      /\ created' \in [Seeders -> [SampleNames -> Nat]]
  BY <1>3 DEF ScriptOK
<1> QED
  BY <1>1, <1>2, <1>4, <1>5, <1>6, <1>7, SampleForward DEF ScriptOK, rows

LEMMA CreateUserOK ==
  ASSUME TableOK, ScriptOK, NEW s \in Seeders, CreateUser(s)
  PROVE  TableOK' /\ Grows /\ ScriptOK' /\ UNCHANGED web
<1> DEFINE own == [name \in SampleNames |-> IF name = seed[s] THEN nextId ELSE created[s][name]]
<1>1. /\ seed[s] \in SampleNames /\ UNCHANGED <<web, runs, sampled>>
      /\ created' = [created EXCEPT ![s] = own]
  BY DEF CreateUser, InsertUser, NewId
<1>2. /\ TableOK' /\ Grows /\ nextId < nextId'
      /\ nextId \in DOMAIN users' /\ users'[nextId] = SampleUser(seed[s])
  BY <1>1, SampleUserOK, InsertOK DEF CreateUser
<1>3. own \in [SampleNames -> Nat]
  BY <1>1 DEF ScriptOK, TableOK
<1>4. PICK next \in {"refreshAlice", "refreshBob"} : seed' = [seed EXCEPT ![s] = next]
  <2>1. NextStep[seed[s]] \in {"refreshAlice", "refreshBob"}
    BY <1>1, NextStepIs DEF SampleNames
  <2> QED
    BY <2>1 DEF CreateUser, Proceed, SeedGoto
<1>5. ASSUME NEW o \in Seeders \ {s}
      PROVE  RunOK(o)'
  <2>1. seed'[o] = seed[o] /\ created'[o] = created[o]
    BY <1>1, <1>4, <1>5 DEF ScriptOK
  <2> QED
    BY <1>1, <1>2, <2>1, RunForward DEF Grows
<1>6. RunOK(s)'
  <2>1. created'[s] = own /\ seed'[s] # "bookmarksBob"
    BY <1>1, <1>4 DEF ScriptOK
  <2>2. ASSUME NEW name \in SampleNames
        PROVE  /\ own[name] < nextId'
               /\ own[name] \in DOMAIN users' => users'[own[name]] = SampleUser(name)
    <3>1. CASE name = seed[s]
      BY <1>2, <3>1
    <3>2. CASE name # seed[s]
      <4>1. own[name] = created[s][name] /\ created[s][name] \in Nat /\ nextId \in Nat
        BY <2>2, <3>2 DEF ScriptOK, TableOK
      <4>2. /\ created[s][name] < nextId
            /\ created[s][name] \in DOMAIN users => users[created[s][name]] = SampleUser(name)
        BY <2>2 DEF ScriptOK, RunOK
      <4> QED
        BY <1>2, <4>1, <4>2 DEF Grows, Forward
    <3> QED
      BY <3>1, <3>2
  <2> HIDE DEF own
  <2> QED
    BY <2>1, <2>2 DEF RunOK, SampleUser
<1>7. /\ seed' \in [Seeders -> Ended \cup DOMAIN NextStep]
      /\ created' \in [Seeders -> [SampleNames -> Nat]]
  BY <1>1, <1>3, <1>4, NextStepIs DEF ScriptOK
<1> QED
  BY <1>1, <1>2, <1>5, <1>6, <1>7, SampleForward DEF ScriptOK

LEMMA ResetOK ==
  ASSUME TableOK, ScriptOK, NEW s \in Seeders, Reset(s)
  PROVE  TableOK' /\ Forward /\ ScriptOK' /\ UNCHANGED web
<1>1. /\ TableOK' /\ Forward /\ DOMAIN users' = {} /\ sampled' = {}
      /\ UNCHANGED <<web, runs, created>>
  BY WipeOK DEF Reset
<1>2. seed' = [seed EXCEPT ![s] = "count"]
  BY NextStepIs DEF Reset, Proceed, SeedGoto
<1>3. ASSUME NEW o \in Seeders
      PROVE  RunOK(o)'
  BY <1>1 DEF ScriptOK, RunOK, TableOK, Forward
<1> QED
  BY <1>1, <1>2, <1>3, NextStepIs DEF ScriptOK, SampleIsOrdered

LEMMA AddBookmarksOK ==
  ASSUME TableOK, ScriptOK, NEW s \in Seeders, AddBookmarks(s)
  PROVE  TableOK' /\ Grows /\ ScriptOK' /\ UNCHANGED web
<1>1. /\ seed[s] \in {"bookmarksAlice", "bookmarksBob"} /\ Owner(s) \in DOMAIN users
      /\ sampled' = sampled \cup {Owner(s)}
      /\ UNCHANGED <<users, nextId, web, runs>>
  BY DEF AddBookmarks, OwnerThere
<1>2. TableOK' /\ Grows
  BY <1>1, SameRows
<1>3. /\ seed' = [seed EXCEPT ![s] = NextStep[seed[s]]]
      /\ NextStep[seed[s]] \in {"bookmarksBob", "seeded"}
      /\ created' \in [Seeders -> [SampleNames -> Nat]]
      /\ \A o \in Seeders \ {s} : created'[o] = created[o]
  <2>1. NoUsers \in [SampleNames -> Nat]
    BY DEF NoUsers
  <2> QED
    BY <1>1, <2>1, NextStepIs DEF AddBookmarks, Proceed, SeedGoto, ScriptOK
<1>4. ASSUME NEW o \in Seeders \ {s}
      PROVE  RunOK(o)'
  <2>1. seed'[o] = seed[o] /\ created'[o] = created[o]
    BY <1>3, <1>4 DEF ScriptOK
  <2> QED
    BY <1>1, <1>2, <2>1, RunForward DEF Grows
<1>5. RunOK(s)'
  <2>1. CASE seed[s] = "bookmarksBob"
    <3>1. created'[s] = NoUsers
      BY <2>1 DEF AddBookmarks, ScriptOK
    <3> QED
      BY <1>2, <3>1, NoUsersYet
  <2>2. CASE seed[s] = "bookmarksAlice"
    <3>1. created' = created /\ Owner(s) = created[s]["alice"]
      BY <2>2 DEF AddBookmarks, Owner
    <3> QED
      BY <1>1, <3>1 DEF ScriptOK, RunOK, SampleUser
  <2> QED
    BY <1>1, <2>1, <2>2
<1>6. \E first \in sampled' : users[first].username = "alice"
  <2>0. RunOK(s) /\ "alice" \in SampleNames
    BY DEF ScriptOK, SampleNames
  <2>1. CASE seed[s] = "bookmarksAlice"
    BY <1>1, <2>0, <2>1, SampleUserOK DEF Owner, RunOK
  <2>2. CASE seed[s] = "bookmarksBob"
    <3>1. created[s]["alice"] \in sampled
      BY <1>1, <2>0, <2>2 DEF Owner, RunOK
    <3>2. created[s]["alice"] \in DOMAIN users
      BY <3>1 DEF ScriptOK
    <3> QED
      BY <1>1, <2>0, <3>1, <3>2, SampleUserOK DEF RunOK
  <2> QED
    BY <1>1, <2>1, <2>2
<1>7. users[Owner(s)].username \in SampleNames
  <2>1. \E name \in SampleNames : Owner(s) = created[s][name]
    BY DEF Owner, SampleNames
  <2>2. RunOK(s)
    BY DEF ScriptOK
  <2> QED
    BY <1>1, <2>1, <2>2, SampleUserOK DEF RunOK
<1>8. SampleIsOrdered' /\ sampled' \subseteq DOMAIN users'
  BY <1>1, <1>6, <1>7 DEF SampleIsOrdered, ScriptOK
<1>9. seed' \in [Seeders -> Ended \cup DOMAIN NextStep]
  BY <1>3, NextStepIs DEF ScriptOK, Ended
<1> QED
  BY <1>1, <1>2, <1>3, <1>4, <1>5, <1>8, <1>9 DEF ScriptOK

-----------------------------------------------------------------------------
(* The results *)

\* Addresses are stored in one spelling, ids are never given again, and what a
\* request or a run of the script has loaded or created is its own until wiped.
THEOREM AccountsKept == Spec => []AccountsInv
<1>1. Init => AccountsInv
  <2> SUFFICES ASSUME Init PROVE AccountsInv
    OBVIOUS
  <2>1. TableOK
    BY DEF Init, TableOK, KeysUnique
  <2>2. WebOK
    BY BoundsAssumption
    DEF Init, WebOK, WebType, SessionOK, TokensNameTheirAccount, Registers, NoCall
  <2>3. ScriptOK
    BY BoundsAssumption
    DEF Init, ScriptOK, RunOK, SampleIsOrdered, NoUsers, Ended, SampleNames, SampleUser
  <2> QED
    BY <2>1, <2>2, <2>3, Parts
<1>2. AccountsInv /\ [Next]_vars => AccountsInv'
  <2> SUFFICES ASSUME TableOK, WebOK, ScriptOK, [Next]_vars
               PROVE  TableOK' /\ WebOK' /\ ScriptOK'
    <3>1. (TableOK /\ WebOK /\ ScriptOK)' => AccountsInv'
      BY Parts, PTL
    <3> QED
      BY <3>1, Parts
  <2>1. ASSUME UNCHANGED rows, UNCHANGED script
        PROVE  TableOK' /\ ScriptOK'
    BY <2>1, SameRows, ScriptForward DEF rows
  <2>2. ASSUME NEW c \in Clients, Begin(c) \/ Register(c) \/ UseAccount(c)
        PROVE  TableOK' /\ WebOK' /\ ScriptOK'
    <3>1. CASE Insert(c)
      <4>1. UNCHANGED <<sampled, script>>
        BY <3>1 DEF Insert, InsertUser
      <4> QED
        BY <3>1, <4>1, InsertStep, ScriptForward
    <3>2. CASE ~Insert(c)
      <4>1. UNCHANGED rows /\ UNCHANGED script
        BY <2>2, <3>2 DEF Begin, Register, UseAccount, Conflict, NoConflict, LoseRace, Welcome,
          RefreshGone, Login, InvalidCredentials, Authenticate, Unauthorized, Answer, Depart
      <4>2. WebOK'
        BY <2>2, <3>2, BeginOK, RefusedOK, IssuedOK, AuthenticateOK, NoConflictOK
        DEF Register, UseAccount
      <4> QED
        BY <2>1, <4>1, <4>2
    <3> QED
      BY <3>1, <3>2
  <2>3. ASSUME NEW s \in Seeders, Seed(s)
        PROVE  TableOK' /\ WebOK' /\ ScriptOK'
    <3>1. CASE CreateUser(s)
      BY <3>1, CreateUserOK, WebForward DEF Grows
    <3>2. CASE Reset(s)
      BY <3>2, ResetOK, WebForward
    <3>3. CASE AddBookmarks(s)
      BY <3>3, AddBookmarksOK, WebForward DEF Grows
    <3>4. CASE \/ StartSeed(s) \/ Skip(s) \/ NobodyThere(s)
               \/ RefreshUser(s) \/ SeedFails(s) \/ CutOff(s)
      <4>1. ScriptOK' /\ UNCHANGED <<rows, web>>
        BY <3>4, RunStepOK
      <4>2. TableOK' /\ Forward
        BY <4>1, SameRows DEF rows, Grows
      <4> QED
        BY <4>1, <4>2, WebForward
    <3> QED
      BY <2>3, <3>1, <3>2, <3>3, <3>4 DEF Seed
  <2>4. CASE Crash
    BY <2>1, <2>4, CrashOK DEF Crash
  <2>5. CASE UNCHANGED vars
    <3>1. UNCHANGED rows /\ UNCHANGED web /\ UNCHANGED script
      BY <2>5 DEF vars
    <3>2. Forward
      BY <3>1, SameRows DEF rows, Grows
    <3> QED
      BY <2>1, <3>1, <3>2, WebForward
  <2> QED
    BY <2>2, <2>3, <2>4, <2>5 DEF Next
<1> QED
  BY <1>1, <1>2, PTL DEF Spec

\* No two accounts share a username or, in whatever spelling, a mailbox.
THEOREM AccountsAreUnique == Spec => []KeysUnique
<1>1. AccountsInv => KeysUnique
  BY DEF AccountsInv
<1> QED
  BY <1>1, AccountsKept, PTL

\* A token lets its holder in as the account it was issued for or not at all.
THEOREM TokensStayTrue == Spec => []TokensNameTheirAccount
<1>1. AccountsInv => TokensNameTheirAccount
  BY DEF AccountsInv
<1> QED
  BY <1>1, AccountsKept, PTL

\* Wherever runs of the script are cut off or wiped, bob has sample bookmarks
\* only if alice has hers.
THEOREM SampleStaysOrdered == Spec => []SampleIsOrdered
<1>1. AccountsInv => SampleIsOrdered
  BY DEF AccountsInv
<1> QED
  BY <1>1, AccountsKept, PTL

\* A run that reports that it has seeded leaves both users with bookmarks.
THEOREM SeededRunsAreComplete == Spec => SeededIsComplete
<1>1. ASSUME TableOK, ScriptOK, [Next]_vars, NEW s \in Seeders,
             seed[s] # "seeded", seed'[s] = "seeded"
      PROVE  {created[s]["alice"], created[s]["bob"]} \subseteq sampled' \cap DOMAIN users'
  <2>1. AddBookmarks(s) /\ seed[s] = "bookmarksBob"
    <3>1. seed' # seed
      BY <1>1
    <3>2. PICK o \in Seeders : Seed(o)
      BY <1>1, <3>1 DEF Next, vars, script, Begin, Register, UseAccount, Conflict, NoConflict,
        Insert, LoseRace, Welcome, RefreshGone, Login, InvalidCredentials, Authenticate,
        Unauthorized, Answer, Depart, Crash
    <3>3. PICK next : seed' = [seed EXCEPT ![o] = next]
      BY <3>2 DEF Seed, StartSeed, Reset, Skip, NobodyThere, CreateUser, RefreshUser, AddBookmarks,
        SeedFails, CutOff, GiveUp, Proceed, SeedGoto
    <3>4. o = s /\ seed'[s] = next
      BY <1>1, <3>3 DEF ScriptOK
    <3>5. seed[s] \in DOMAIN NextStep /\ seed' = [seed EXCEPT ![s] = NextStep[seed[s]]]
            => seed[s] = "bookmarksBob"
      BY <1>1, NextStepIs DEF ScriptOK
    <3>6. seed'[s] # "idle" /\ seed'[s] \notin {"reset", "count"}
      BY <1>1
    <3>7. \/ CreateUser(s) \/ Reset(s) \/ NobodyThere(s) \/ RefreshUser(s) \/ AddBookmarks(s)
      BY <1>1, <3>2, <3>4, <3>6
      DEF Seed, StartSeed, Skip, SeedFails, CutOff, GiveUp, SeedGoto, ScriptOK
    <3>8. seed' = [seed EXCEPT ![s] = NextStep[seed[s]]] /\ seed[s] \in DOMAIN NextStep
      BY <3>7, NextStepIs DEF CreateUser, Reset, NobodyThere, RefreshUser, AddBookmarks,
        OwnerThere, Proceed, SeedGoto, SampleNames
    <3> QED
      BY <3>5, <3>7, <3>8 DEF CreateUser, Reset, NobodyThere, RefreshUser, SampleNames
  <2>2. created[s]["bob"] \in DOMAIN users /\ sampled' = sampled \cup {created[s]["bob"]}
    BY <2>1 DEF AddBookmarks, OwnerThere, Owner
  <2>3. created[s]["alice"] \in sampled /\ sampled \subseteq DOMAIN users
    BY <1>1, <2>1, <2>2 DEF ScriptOK, RunOK
  <2> QED
    BY <2>1, <2>2, <2>3 DEF AddBookmarks
<1>2. AccountsInv /\ [Next]_vars =>
        [\A s \in Seeders :
           seed[s] # "seeded" /\ seed'[s] = "seeded" =>
             {created[s]["alice"], created[s]["bob"]} \subseteq sampled' \cap DOMAIN users']_vars
  BY <1>1, Parts
<1> QED
  BY <1>2, AccountsKept, PTL DEF Spec, SeededIsComplete

=============================================================================
