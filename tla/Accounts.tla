------------------------------- MODULE Accounts -------------------------------
(***************************************************************************)
(* The accounts of the API: registration, login, the token that a client   *)
(* holds and the user it is resolved to, and beside them the seeding       *)
(* script, a process of its own that wipes and fills the same tables.      *)
(*                                                                         *)
(* As in Bookmarks, requests run in threads with a session each, and one   *)
(* action is one statement with the code that follows it.  INSERT and      *)
(* COMMIT of one row are one action: the other sessions wait for the       *)
(* commit if they insert the same key, and nothing runs between.           *)
(*                                                                         *)
(* Ids come from a PostgreSQL sequence.                                    *)
(***************************************************************************)
EXTENDS Integers, FiniteSets

CONSTANTS
  Clients,      \* concurrent callers, each with one request in flight
  Seeders,      \* processes that run scripts/seed.py
  Boxes,        \* mailbox names
  Usernames,
  Passwords,
  Calls,        \* the requests the clients may send
  MaxRequests,  \* bound on the requests of one behaviour
  MaxSeedRuns   \* bound on the runs of the script

\* An address is a mailbox in some spelling; Email is what register stores.
Address == [box : Boxes, case : {"lower", "mixed"}]

\* email.strip().lower()
Canonical(address) == [box |-> address.box, case |-> "lower"]

CallType ==
  [op : {"register", "login", "resource"}, username : Usernames,
   email : Address, password : Passwords]

ASSUME CallsAssumption == Calls \subseteq CallType

SampleNames == {"alice", "bob"}

ASSUME SampleAssumption ==
  SampleNames \subseteq Usernames /\ SampleNames \subseteq Boxes /\ "sample" \in Passwords

ASSUME BoundsAssumption == MaxRequests \in Nat /\ MaxSeedRuns \in Nat

VARIABLES
  users,     \* committed rows of the table users: id -> Account
  sampled,   \* ids of users that own the sample bookmarks
  nextId,    \* next value of the sequence
  started,   \* requests begun so far
  pc,        \* per client: the statement its request executes next
  call,      \* per client: the request
  loaded,    \* per client: the id of the user it has inserted or looked up
  reply,     \* per client: the outcome of its last registration
  tokens,    \* access tokens issued: the subject, and the account it stood for
  actor,     \* per client: the token it was last let in with, and as whom
  runs,      \* runs of the script begun so far
  seed,      \* per seeder: the next step of its run
  created    \* per seeder: the ids of the users its run has created

rows == <<users, sampled, nextId>>
web == <<started, pc, call, loaded, reply, tokens, actor>>
script == <<runs, seed, created>>
vars == <<rows, web, script>>

Account == [username : Usernames, email : Address, password : Passwords]

NoCall == [op |-> "none"]

Nobody == [token |-> "none"]

-----------------------------------------------------------------------------
(* The table users *)

\* Fault: the address is looked up as it is spelled in the request.
HasSpelling(address) == \E id \in DOMAIN users : users[id].email = address

HasEmail(address) == \E id \in DOMAIN users : Canonical(users[id].email) = Canonical(address)

HasUsername(name) == \E id \in DOMAIN users : users[id].username = name

\* The unique indexes on username and on email, as it is spelled.
KeysFree(account) ==
  \A id \in DOMAIN users :
    users[id].username # account.username /\ users[id].email # account.email

\* Fault: ids are given like SQLite row ids, one past the largest in the table.
RowId == CHOOSE id \in 1..nextId : \A other \in DOMAIN users \cup {0} : other < id
                                  /\ (id = 1 \/ id - 1 \in DOMAIN users)

NewId == nextId

InsertUser(account) ==
  /\ users' = [id \in DOMAIN users \cup {NewId} |->
                 IF id = NewId THEN account ELSE users[id]]
  /\ nextId' = nextId + 1
  /\ UNCHANGED sampled

-----------------------------------------------------------------------------
(* Requests *)

At(c, statement) == pc[c] = statement

Goto(c, statement) == pc' = [pc EXCEPT ![c] = statement]

Finish(c) ==
  /\ Goto(c, "idle")
  /\ call' = [call EXCEPT ![c] = NoCall]
  /\ loaded' = [loaded EXCEPT ![c] = 0]

FirstStatement ==
  [register |-> "selectEmail", login |-> "selectUser", resource |-> "authenticate"]

Begin(c) ==
  /\ At(c, "idle") /\ started < MaxRequests
  /\ started' = started + 1
  /\ \E request \in Calls :
       /\ call' = [call EXCEPT ![c] = request]
       /\ Goto(c, FirstStatement[request.op])
       /\ reply' = IF request.op = "register" THEN [reply EXCEPT ![c] = "none"] ELSE reply
  /\ UNCHANGED <<rows, loaded, tokens, actor, script>>

Answer(c, outcome) ==
  /\ Finish(c)
  /\ reply' = [reply EXCEPT ![c] = outcome]
  /\ UNCHANGED <<rows, started, actor, script>>

\* Fault: the address is stored as it is spelled in the request.
AsSpelled(request) ==
  [username |-> request.username, email |-> request.email, password |-> request.password]

\* The row that AuthService.register builds.
NewUser(request) ==
  [username |-> request.username, email |-> Canonical(request.email),
   password |-> request.password]

\* get_by_email, then get_by_username: ConflictError, 409.
Conflict(c) ==
  /\ \/ At(c, "selectEmail") /\ HasEmail(call[c].email)
     \/ At(c, "selectUsername") /\ HasUsername(call[c].username)
  /\ Answer(c, "conflict")
  /\ UNCHANGED tokens

NoConflict(c) ==
  /\ \/ At(c, "selectEmail") /\ ~HasEmail(call[c].email) /\ Goto(c, "selectUsername")
     \/ At(c, "selectUsername") /\ ~HasUsername(call[c].username) /\ Goto(c, "insert")
  /\ UNCHANGED <<rows, started, call, loaded, reply, tokens, actor, script>>

Insert(c) ==
  /\ At(c, "insert") /\ KeysFree(NewUser(call[c]))
  /\ InsertUser(NewUser(call[c]))
  /\ loaded' = [loaded EXCEPT ![c] = NewId]
  /\ Goto(c, "refresh")
  /\ UNCHANGED <<started, call, reply, tokens, actor, script>>

\* Another session has committed one of the keys since they were looked for:
\* the IntegrityError is not caught and becomes 500.
LoseRace(c) ==
  /\ At(c, "insert") /\ ~KeysFree(NewUser(call[c]))
  /\ Answer(c, "integrityError")
  /\ UNCHANGED tokens

\* create_access_token: the subject is the id of the user object.
Issue(id, account) == tokens' = tokens \cup {[sub |-> id, account |-> account]}

Welcome(c) ==
  /\ At(c, "refresh") /\ loaded[c] \in DOMAIN users
  /\ Issue(loaded[c], users[loaded[c]])
  /\ Answer(c, "created")

\* The row has been wiped since the commit: "Could not refresh instance", 500.
RefreshGone(c) ==
  /\ At(c, "refresh") /\ loaded[c] \notin DOMAIN users
  /\ Answer(c, "refreshError")
  /\ UNCHANGED tokens

-----------------------------------------------------------------------------
(* Login (without the guard, see LoginGuard) and requests with a token *)

Depart(c) ==
  /\ Finish(c)
  /\ UNCHANGED <<rows, started, reply, script>>

\* The user is looked up and the password verified against the loaded object;
\* the token is issued in the same step, no statement runs after the lookup.
Login(c) ==
  /\ At(c, "selectUser")
  /\ \E id \in DOMAIN users :
       /\ Canonical(users[id].email) = Canonical(call[c].email)
       /\ users[id].password = call[c].password
       /\ Issue(id, users[id])
  /\ Depart(c)
  /\ UNCHANGED actor

InvalidCredentials(c) ==
  /\ At(c, "selectUser")
  /\ \A id \in DOMAIN users :
       ~(Canonical(users[id].email) = Canonical(call[c].email)
         /\ users[id].password = call[c].password)
  /\ Depart(c)
  /\ UNCHANGED <<tokens, actor>>

\* get_current_user: the subject of the token is looked up by its id.
Authenticate(c) ==
  /\ At(c, "authenticate")
  /\ \E token \in tokens :
       /\ token.sub \in DOMAIN users
       /\ actor' = [actor EXCEPT ![c] = [token |-> token, user |-> users[token.sub]]]
  /\ Depart(c)
  /\ UNCHANGED tokens

\* No token, one that is expired, malformed or of another type, or one whose
\* account no longer exists: 401.
Unauthorized(c) ==
  /\ At(c, "authenticate")
  /\ Depart(c)
  /\ UNCHANGED <<tokens, actor>>

-----------------------------------------------------------------------------
(* scripts/seed.py: four commits, one after the other; with --reset the    *)
(* tables are emptied first, in a transaction of its own.                  *)

SampleUser(name) ==
  [username |-> name, email |-> [box |-> name, case |-> "lower"], password |-> "sample"]

\* Fault: bob's bookmarks come first.
BobFirst ==
  [reset |-> "count", count |-> "alice", alice |-> "refreshAlice",
   refreshAlice |-> "bob", bob |-> "refreshBob", refreshBob |-> "bookmarksBob",
   bookmarksBob |-> "bookmarksAlice", bookmarksAlice |-> "seeded"]

NextStep ==
  [reset |-> "count", count |-> "alice", alice |-> "refreshAlice",
   refreshAlice |-> "bob", bob |-> "refreshBob", refreshBob |-> "bookmarksAlice",
   bookmarksAlice |-> "bookmarksBob", bookmarksBob |-> "seeded"]

\* Before a run and after one that has skipped or failed, or that has seeded.
Ended == {"idle", "seeded"}

NoUsers == [name \in SampleNames |-> 0]

SeedGoto(s, step) == seed' = [seed EXCEPT ![s] = step]

Proceed(s) == SeedGoto(s, NextStep[seed[s]])

GiveUp(s) ==
  /\ SeedGoto(s, "idle")
  /\ created' = [created EXCEPT ![s] = NoUsers]
  /\ UNCHANGED <<rows, web, runs>>

\* python -m scripts.seed, with or without --reset.
StartSeed(s) ==
  /\ seed[s] \in Ended /\ runs < MaxSeedRuns
  /\ runs' = runs + 1
  /\ \E step \in {"reset", "count"} : SeedGoto(s, step)
  /\ UNCHANGED <<rows, web, created>>

\* Users and all that hangs on them; the sequence goes on.
Reset(s) ==
  /\ seed[s] = "reset"
  /\ users' = [id \in {} |-> users[id]]
  /\ sampled' = {}
  /\ Proceed(s)
  /\ UNCHANGED <<nextId, web, runs, created>>

Skip(s) ==
  /\ seed[s] = "count" /\ DOMAIN users # {}
  /\ GiveUp(s)

NobodyThere(s) ==
  /\ seed[s] = "count" /\ DOMAIN users = {}
  /\ Proceed(s)
  /\ UNCHANGED <<rows, web, runs, created>>

CreateUser(s) ==
  /\ seed[s] \in SampleNames /\ KeysFree(SampleUser(seed[s]))
  /\ InsertUser(SampleUser(seed[s]))
  /\ created' = [created EXCEPT ![s] =
                  [name \in SampleNames |-> IF name = seed[s] THEN NewId ELSE created[s][name]]]
  /\ Proceed(s)
  /\ UNCHANGED <<web, runs>>

RefreshUser(s) ==
  /\ \/ seed[s] = "refreshAlice" /\ created[s]["alice"] \in DOMAIN users
     \/ seed[s] = "refreshBob" /\ created[s]["bob"] \in DOMAIN users
  /\ Proceed(s)
  /\ UNCHANGED <<rows, web, runs, created>>

\* The user is loaded again, its bookmarks are inserted and committed.
Owner(s) == IF seed[s] = "bookmarksAlice" THEN created[s]["alice"] ELSE created[s]["bob"]

\* Fault: the id at hand is used, and no foreign key checks it.
OwnerUnchecked(s) == seed[s] \in {"bookmarksAlice", "bookmarksBob"}

OwnerThere(s) ==
  seed[s] \in {"bookmarksAlice", "bookmarksBob"} /\ Owner(s) \in DOMAIN users

AddBookmarks(s) ==
  /\ OwnerThere(s)
  /\ sampled' = sampled \cup {Owner(s)}
  /\ Proceed(s)
  /\ created' = IF seed[s] = "bookmarksBob" THEN [created EXCEPT ![s] = NoUsers] ELSE created
  /\ UNCHANGED <<users, nextId, web, runs>>

\* A key that a request or another run has committed since the count, or a user
\* that another run has wiped: the error is not caught.  What is committed stays.
SeedFails(s) ==
  /\ \/ seed[s] \in SampleNames /\ ~KeysFree(SampleUser(seed[s]))
     \/ seed[s] = "refreshAlice" /\ created[s]["alice"] \notin DOMAIN users
     \/ seed[s] = "refreshBob" /\ created[s]["bob"] \notin DOMAIN users
     \/ seed[s] \in {"bookmarksAlice", "bookmarksBob"} /\ Owner(s) \notin DOMAIN users
  /\ GiveUp(s)

\* The process is killed, or a request has committed a tag that get_or_create
\* was about to insert.
CutOff(s) ==
  /\ seed[s] \notin Ended
  /\ GiveUp(s)

-----------------------------------------------------------------------------

\* The API process dies with the requests in flight, and is started again.
Crash ==
  /\ \E c \in Clients : ~At(c, "idle")
  /\ pc' = [c \in Clients |-> "idle"]
  /\ call' = [c \in Clients |-> NoCall]
  /\ loaded' = [c \in Clients |-> 0]
  /\ UNCHANGED <<rows, started, reply, tokens, actor, script>>

Init ==
  /\ users = [id \in {} |-> id] /\ sampled = {} /\ nextId = 1
  /\ started = 0
  /\ pc = [c \in Clients |-> "idle"]
  /\ call = [c \in Clients |-> NoCall]
  /\ loaded = [c \in Clients |-> 0]
  /\ reply = [c \in Clients |-> "none"]
  /\ tokens = {}
  /\ actor = [c \in Clients |-> Nobody]
  /\ runs = 0
  /\ seed = [s \in Seeders |-> "idle"]
  /\ created = [s \in Seeders |-> NoUsers]

Register(c) ==
  \/ Conflict(c) \/ NoConflict(c) \/ Insert(c) \/ LoseRace(c)
  \/ Welcome(c) \/ RefreshGone(c)

UseAccount(c) ==
  Login(c) \/ InvalidCredentials(c) \/ Authenticate(c) \/ Unauthorized(c)

Seed(s) ==
  \/ StartSeed(s) \/ Reset(s) \/ Skip(s) \/ NobodyThere(s)
  \/ CreateUser(s) \/ RefreshUser(s) \/ AddBookmarks(s) \/ SeedFails(s) \/ CutOff(s)

Next ==
  \/ \E c \in Clients : Begin(c) \/ Register(c) \/ UseAccount(c)
  \/ \E s \in Seeders : Seed(s)
  \/ Crash

Spec == Init /\ [][Next]_vars

-----------------------------------------------------------------------------
(* Properties *)

Token == [sub : Nat, account : Account]

TypeOK ==
  /\ users = [id \in DOMAIN users |-> users[id]]
  /\ \A id \in DOMAIN users : id \in Nat \ {0} /\ id < nextId /\ users[id] \in Account
  /\ sampled \subseteq DOMAIN users
  /\ nextId \in Nat \ {0}
  /\ started \in 0..MaxRequests
  /\ pc \in [Clients -> {"idle", "selectEmail", "selectUsername", "insert", "refresh",
                          "selectUser", "authenticate"}]
  /\ call \in [Clients -> {NoCall} \cup Calls]
  /\ loaded \in [Clients -> Nat]
  /\ reply \in [Clients -> {"none", "created", "conflict", "integrityError", "refreshError"}]
  /\ tokens \subseteq Token
  /\ actor \in [Clients -> {Nobody} \cup [token : Token, user : Account]]
  /\ runs \in 0..MaxSeedRuns
  /\ seed \in [Seeders -> Ended \cup DOMAIN NextStep]
  /\ created \in [Seeders -> [SampleNames -> Nat]]

\* One account per username and per mailbox however it is spelled, although
\* register looks first and inserts later and the index compares spellings.
KeysUnique ==
  \A id, other \in DOMAIN users :
    \/ users[id].username = users[other].username
    \/ Canonical(users[id].email) = Canonical(users[other].email)
    => id = other

\* A token never lets its holder in as anybody but the account it was issued
\* for, also after the tables were wiped and filled again.
TokensNameTheirAccount ==
  /\ \A token \in tokens :
       token.sub \in DOMAIN users => users[token.sub] = token.account
  /\ \A c \in Clients : actor[c] # Nobody => actor[c].user = actor[c].token.account

\* What a run of the script leaves when it is cut off is a beginning of the
\* whole: nobody has sample bookmarks before alice has hers, and a run that is
\* overtaken by a wipe adds nothing to what comes after.
SampleIsOrdered ==
  \A id \in sampled :
    \E first \in sampled : users[first].username = "alice" /\ users[id].username \in SampleNames

\* A run that says it has seeded has: both its users and their bookmarks are
\* there at that moment, whatever registrations and wipes ran beside it.
SeededIsComplete ==
  [][\A s \in Seeders :
       seed[s] # "seeded" /\ seed'[s] = "seeded" =>
         {created[s]["alice"], created[s]["bob"]} \subseteq sampled' \cap DOMAIN users']_vars

-----------------------------------------------------------------------------
(* Why the properties hold *)

Registers(c) == call[c].op = "register"

SessionOK(c) ==
  /\ pc[c] = "idle" <=> call[c] = NoCall
  /\ pc[c] \in {"selectEmail", "selectUsername", "insert", "refresh"} => Registers(c)
  /\ pc[c] \in {"selectUser", "authenticate"} => ~Registers(c)
  /\ loaded[c] < nextId
  /\ pc[c] = "refresh" /\ loaded[c] \in DOMAIN users => users[loaded[c]] = NewUser(call[c])

\* The users a run has created are its own until they are wiped, and a wipe that
\* takes alice's bookmarks takes bob along.
RunOK(s) ==
  /\ \A name \in SampleNames :
       /\ created[s][name] < nextId
       /\ created[s][name] \in DOMAIN users => users[created[s][name]] = SampleUser(name)
  /\ seed[s] = "bookmarksBob" /\ created[s]["bob"] \in DOMAIN users
       => created[s]["alice"] \in sampled

\* Stored addresses are canonical, so that the index compares mailboxes, and ids
\* of tokens and of requests and runs under way lie behind the sequence.
AccountsInv ==
  /\ TypeOK /\ KeysUnique /\ TokensNameTheirAccount /\ SampleIsOrdered
  /\ \A id \in DOMAIN users : users[id].email.case = "lower"
  /\ \A token \in tokens : token.sub < nextId
  /\ \A c \in Clients : SessionOK(c)
  /\ \A s \in Seeders : RunOK(s)

-----------------------------------------------------------------------------
(* Registration implements a registry whose entries are made in one step. *)

Phase ==
  [c \in Clients |-> IF ~Registers(c) THEN "idle"
                     ELSE IF pc[c] = "refresh" THEN "enrolled" ELSE "pending"]

Request == [c \in Clients |-> IF Registers(c) THEN NewUser(call[c]) ELSE NoCall]

Reply ==
  [c \in Clients |-> IF reply[c] \in {"integrityError", "refreshError"}
                     THEN "error" ELSE reply[c]]

\* The account has a key that the request has found free before.
PassedBy(c, account) ==
  \/ pc[c] \in {"selectUsername", "insert"} /\ account.email = NewUser(call[c]).email
  \/ pc[c] = "insert" /\ account.username = call[c].username

Overtaken == {c \in Clients : \E id \in DOMAIN users : PassedBy(c, users[id])}

Abstract ==
  INSTANCE Registry
    WITH Entries <- {NewUser(request) : request \in Calls},
         SampleEntries <- {SampleUser(name) : name \in SampleNames},
         NoEntry <- NoCall,
         accounts <- {users[id] : id \in DOMAIN users},
         phase <- Phase, request <- Request, overtaken <- Overtaken, answer <- Reply

\* Looking for the keys and inserting them in three statements is as good as
\* one step: who gets an account does so at a moment when none has one of its keys,
\* and who gets none at a moment when one has.  It is told so, "409: Email or
\* username already in use." (routers/auth.py); an error in its place is left to
\* requests that are overtaken: no lookup misses a key that was taken before.
ImplementsRegistry == Abstract!RSpec

=============================================================================
