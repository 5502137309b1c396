---------------------------- MODULE RegistryProofs ----------------------------
(***************************************************************************)
(* Registration in three statements beside other registrations, seeding    *)
(* runs and wipes implements the registry that enters accounts in one      *)
(* step.                                                                   *)
(***************************************************************************)
EXTENDS AccountsProofs

-----------------------------------------------------------------------------
(* What the table says and what the registry says *)

LEMMA TakenIsNotFree ==
  ASSUME NEW entry
  PROVE  Abstract!Taken(entry) <=> ~KeysFree(entry)
BY DEF Abstract!Taken, Abstract!SameKey, KeysFree

\* Who finds one of its keys could not insert them.
LEMMA LookedUpIsTaken ==
  ASSUME TableOK, NEW request \in CallType,
         HasEmail(request.email) \/ HasUsername(request.username)
  PROVE  ~KeysFree(NewUser(request))
<1>1. CASE HasUsername(request.username)
  BY <1>1 DEF HasUsername, KeysFree, NewUser
<1>2. CASE HasEmail(request.email)
  <2>1. PICK id \in DOMAIN users : Canonical(users[id].email) = Canonical(request.email)
    BY <1>2 DEF HasEmail
  <2>2. /\ users[id].email \in Address /\ users[id].email.case = "lower"
        /\ Canonical(request.email) \in Address /\ Canonical(request.email).case = "lower"
        /\ Canonical(Canonical(request.email)) = Canonical(request.email)
    BY DEF TableOK, Account, CallType, Address, Canonical
  <2>3. users[id].email = Canonical(request.email)
    BY <2>1, <2>2, SameMailbox
  <2> QED
    BY <2>3 DEF KeysFree, NewUser
<1> QED
  BY <1>1, <1>2

LEMMA RegistersIsRequest ==
  ASSUME WebOK, NEW c \in Clients, Registers(c)
  PROVE  /\ call[c] \in Calls /\ call[c] \in CallType
         /\ Request[c] = NewUser(call[c])
         /\ Phase[c] = IF pc[c] = "refresh" THEN "enrolled" ELSE "pending"
BY CallsAssumption DEF WebOK, WebType, Registers, NoCall, Request, Phase

\* A client that does not move, or moves without registering, is as before.
LEMMA SameClients ==
  ASSUME \A c \in Clients :
           \/ (pc'[c] = pc[c] /\ call'[c] = call[c])
           \/ (~Registers(c) /\ ~Registers(c)')
  PROVE  Phase' = Phase /\ Request' = Request
BY DEF Phase, Request, Registers, NewUser, Canonical

\* Who is behind changes with the table, and when a lookup is passed.
LEMMA SameOvertaken ==
  ASSUME users' = users,
         \A c \in Clients :
           \/ (pc'[c] = pc[c] /\ call'[c] = call[c])
           \/ {pc[c], pc'[c]} \cap {"selectUsername", "insert"} = {}
  PROVE  Overtaken' = Overtaken
BY DEF Overtaken, PassedBy, NewUser, Canonical

LEMMA OneClientEnds ==
  ASSUME WebOK, NEW c \in Clients, Finish(c), users' = users
  PROVE  /\ Phase' = [Phase EXCEPT ![c] = "idle"]
         /\ Request' = [Request EXCEPT ![c] = NoCall]
         /\ Overtaken' = Overtaken \ {c}
<1>1. /\ pc'[c] = "idle" /\ call'[c] = NoCall
      /\ \A o \in Clients \ {c} : pc'[o] = pc[o] /\ call'[o] = call[o]
  BY Finished DEF WebOK
<1>2. ~Registers(c)'
  BY <1>1 DEF Registers, NoCall
<1>3. \A o \in Clients \ {c} : Registers(o)' <=> Registers(o)
  BY <1>1 DEF Registers
<1>4. Phase' = [Phase EXCEPT ![c] = "idle"]
  BY <1>1, <1>2, <1>3 DEF Phase
<1>5. Request' = [Request EXCEPT ![c] = NoCall]
  BY <1>1, <1>2, <1>3 DEF Request, NewUser, Canonical
<1>6. Overtaken' = Overtaken \ {c}
  BY <1>1 DEF Overtaken, PassedBy, NewUser, Canonical
<1> QED
  BY <1>4, <1>5, <1>6

\* An account that is entered comes in the way of those who ask for one of its
\* keys, and of nobody else.
LEMMA EnteredOvertakes ==
  ASSUME TableOK, WebOK, NEW account, InsertUser(account),
         NEW movers \in SUBSET Clients,
         \A c \in movers : pc'[c] = "refresh" /\ c \notin Overtaken,
         \A c \in Clients \ movers : pc'[c] = pc[c] /\ call'[c] = call[c]
  PROVE  \E late \in SUBSET (Abstract!Rivals(account) \ movers) :
           Overtaken' = Overtaken \cup late
<1>1. /\ DOMAIN users' = DOMAIN users \cup {nextId} /\ nextId \notin DOMAIN users
      /\ users'[nextId] = account
      /\ \A id \in DOMAIN users : users'[id] = users[id]
  BY DEF InsertUser, NewId, TableOK
<1>2. \A c \in movers : c \notin Overtaken /\ c \notin Overtaken'
  BY DEF Overtaken, PassedBy
<1>3. ASSUME NEW c \in Clients \ movers
      PROVE  (c \in Overtaken') <=> (c \in Overtaken \/ PassedBy(c, account))
  <2>1. \A other : PassedBy(c, other)' <=> PassedBy(c, other)
    BY <1>3 DEF PassedBy, NewUser, Canonical
  <2>2. (c \in Overtaken') <=> \E id \in DOMAIN users' : PassedBy(c, users[id])'
    BY DEF Overtaken
  <2>3. (c \in Overtaken) <=> \E id \in DOMAIN users : PassedBy(c, users[id])
    BY DEF Overtaken
  <2> QED
    BY <1>1, <2>1, <2>2, <2>3 DEF PassedBy, NewUser, Canonical
<1>4. ASSUME NEW c \in Clients, PassedBy(c, account)
      PROVE  c \in Abstract!Rivals(account)
  <2>1. pc[c] \in {"selectUsername", "insert"} /\ Registers(c)
    BY <1>4 DEF PassedBy, WebOK, SessionOK
  <2>2. Phase[c] = "pending" /\ Request[c] = NewUser(call[c])
    BY <2>1, RegistersIsRequest
  <2>3. Abstract!SameKey(account, Request[c])
    BY <1>4, <2>2 DEF PassedBy, Abstract!SameKey, NewUser
  <2> QED
    BY <2>2, <2>3 DEF Abstract!Rivals
<1>5. Overtaken \subseteq Clients /\ Overtaken' \subseteq Clients
  BY DEF Overtaken
<1>6. (Overtaken' \ Overtaken) \in SUBSET (Abstract!Rivals(account) \ movers)
  BY <1>2, <1>3, <1>4, <1>5
<1>7. Overtaken' = Overtaken \cup (Overtaken' \ Overtaken)
  BY <1>2, <1>3, <1>5
<1> QED
  BY <1>6, <1>7

LEMMA OneAnswer ==
  ASSUME WebOK, NEW c \in Clients,
         NEW how \in {"none", "created", "conflict", "integrityError", "refreshError"},
         reply' = [reply EXCEPT ![c] = how]
  PROVE  Reply' = [Reply EXCEPT ![c] =
                     IF how \in {"integrityError", "refreshError"} THEN "error" ELSE how]
<1>1. reply'[c] = how /\ \A o \in Clients \ {c} : reply'[o] = reply[o]
  BY DEF WebOK, WebType
<1> QED
  BY <1>1 DEF Reply

-----------------------------------------------------------------------------
(* Every step is a step of the registry *)

LEMMA BeginSubmits ==
  ASSUME WebOK, NEW c \in Clients, Begin(c)
  PROVE  [Abstract!RNext]_(Abstract!rvars)
<1>1. PICK r \in Calls :
        /\ call' = [call EXCEPT ![c] = r]
        /\ Goto(c, FirstStatement[r.op])
        /\ reply' = IF r.op = "register" THEN [reply EXCEPT ![c] = "none"] ELSE reply
  BY DEF Begin
<1>2. /\ pc[c] = "idle" /\ ~Registers(c)
      /\ call'[c] = r /\ pc'[c] = FirstStatement[r.op]
      /\ \A o \in Clients \ {c} : pc'[o] = pc[o] /\ call'[o] = call[o]
      /\ users' = users
  BY <1>1 DEF Begin, At, rows, Goto, WebOK, WebType, SessionOK, Registers, NoCall
<1>3. Overtaken' = Overtaken
  <2>1. pc'[c] \in {"selectEmail", "selectUser", "authenticate"}
    BY <1>2, CallsAssumption DEF FirstStatement, CallType
  <2> QED
    BY <1>2, <2>1, SameOvertaken
<1>4. CASE r.op # "register"
  <2>1. ~Registers(c)' /\ reply' = reply
    BY <1>1, <1>2, <1>4 DEF Registers
  <2>2. Phase' = Phase /\ Request' = Request
    BY <1>2, <2>1, SameClients
  <2> QED
    BY <1>2, <1>3, <2>1, <2>2 DEF Abstract!rvars, Reply
<1>5. CASE r.op = "register"
  <2>1. /\ Registers(c)' /\ pc'[c] = "selectEmail"
        /\ \A o \in Clients \ {c} : Registers(o)' <=> Registers(o)
    BY <1>2, <1>5 DEF Registers, FirstStatement
  <2>2. Phase' = [Phase EXCEPT ![c] = "pending"] /\ Phase[c] = "idle"
    BY <1>2, <2>1 DEF Phase
  <2>3. Request' = [Request EXCEPT ![c] = NewUser(r)]
    BY <1>2, <2>1 DEF Request, NewUser, Canonical
  <2>4. Reply' = [Reply EXCEPT ![c] = "none"]
    BY <1>1, <1>5, OneAnswer
  <2>5. Abstract!Submit(c)
    BY <1>2, <1>3, <2>2, <2>3, <2>4 DEF Abstract!Submit
  <2> QED
    BY <2>5 DEF Abstract!RNext
<1> QED
  BY <1>4, <1>5

LEMMA RefusalIsJustified ==
  ASSUME TableOK, WebOK, NEW c \in Clients, Conflict(c) \/ LoseRace(c)
  PROVE  IF Conflict(c) THEN Abstract!Refuse(c) ELSE Abstract!Fail(c)
<1>1. pc[c] \in {"selectEmail", "selectUsername", "insert"} /\ Registers(c)
  BY DEF Conflict, LoseRace, At, WebOK, SessionOK
<1>2. /\ Phase[c] = "pending" /\ Request[c] = NewUser(call[c])
      /\ call[c] \in CallType
  BY <1>1, RegistersIsRequest
<1>3. Abstract!Taken(Request[c])
  BY <1>2, LookedUpIsTaken, TakenIsNotFree DEF Conflict, LoseRace
<1>4. Finish(c) /\ users' = users
  BY DEF Conflict, LoseRace, Answer, rows
<1>5. CASE Conflict(c)
  <2>1. Reply' = [Reply EXCEPT ![c] = "conflict"]
    BY <1>5, OneAnswer DEF Conflict, Answer
  <2> QED
    BY <1>2, <1>3, <1>4, <1>5, <2>1, OneClientEnds DEF Abstract!Refuse, Abstract!Return
<1>6. CASE ~Conflict(c)
  <2>1. Reply' = [Reply EXCEPT ![c] = "error"]
    BY <1>6, OneAnswer DEF LoseRace, Answer
  <2>2. c \in Overtaken
    BY <1>6 DEF LoseRace, At, KeysFree, Overtaken, PassedBy, NewUser
  <2> QED
    BY <1>2, <1>4, <1>6, <2>1, <2>2, OneClientEnds DEF Abstract!Fail, Abstract!Return
<1> QED
  BY <1>5, <1>6

LEMMA InsertEnrolls ==
  ASSUME TableOK, WebOK, NEW c \in Clients, Insert(c)
  PROVE  Abstract!Enroll(c)
<1>1. pc[c] = "insert" /\ Registers(c)
  BY DEF Insert, At, WebOK, SessionOK
<1>2. Phase[c] = "pending" /\ Request[c] = NewUser(call[c])
  BY <1>1, RegistersIsRequest
<1>3. ~Abstract!Taken(Request[c])
  BY <1>2, TakenIsNotFree DEF Insert
<1>4. {users'[id] : id \in DOMAIN users'} = {users[id] : id \in DOMAIN users} \cup {Request[c]}
  <2>1. /\ DOMAIN users' = DOMAIN users \cup {nextId} /\ nextId \notin DOMAIN users
        /\ users'[nextId] = NewUser(call[c])
        /\ \A id \in DOMAIN users : users'[id] = users[id]
    BY DEF Insert, InsertUser, NewId, TableOK
  <2> QED
    BY <1>2, <2>1
<1>5. /\ pc' = [pc EXCEPT ![c] = "refresh"] /\ call' = call /\ reply' = reply
  BY DEF Insert, Goto
<1>6. pc'[c] = "refresh" /\ \A o \in Clients \ {c} : pc'[o] = pc[o]
  BY <1>5 DEF WebOK, WebType
<1>7. Phase' = [Phase EXCEPT ![c] = "enrolled"]
  BY <1>1, <1>5, <1>6 DEF Phase, Registers
<1>8. Request' = Request /\ Reply' = Reply
  BY <1>5 DEF Request, Reply, Registers, NewUser, Canonical
<1>9. Abstract!Overtake(Abstract!Rivals(Request[c]) \ {c})
  <2>1. InsertUser(Request[c]) /\ c \notin Overtaken
    BY <1>1, <1>2 DEF Insert, KeysFree, Overtaken, PassedBy, NewUser
  <2>2. {c} \in SUBSET Clients /\ \A o \in {c} : pc'[o] = "refresh" /\ o \notin Overtaken
    BY <1>6, <2>1
  <2>3. \A o \in Clients \ {c} : pc'[o] = pc[o] /\ call'[o] = call[o]
    BY <1>5, <1>6
  <2>4. \E late \in SUBSET (Abstract!Rivals(Request[c]) \ {c}) :
          Overtaken' = Overtaken \cup late
    <3> DEFINE entry == Request[c]
               movers == {c}
    <3>1. /\ InsertUser(entry) /\ movers \in SUBSET Clients
          /\ \A o \in movers : pc'[o] = "refresh" /\ o \notin Overtaken
          /\ \A o \in Clients \ movers : pc'[o] = pc[o] /\ call'[o] = call[o]
      BY <2>1, <2>2, <2>3
    <3> HIDE DEF entry, movers
    <3>2. \E late \in SUBSET (Abstract!Rivals(entry) \ movers) :
            Overtaken' = Overtaken \cup late
      BY <3>1, EnteredOvertakes
    <3> QED
      BY <3>2 DEF entry, movers
  <2> QED
    BY <2>4 DEF Abstract!Overtake
<1> QED
  BY <1>2, <1>3, <1>4, <1>7, <1>8, <1>9 DEF Abstract!Enroll

LEMMA AnswerConfirms ==
  ASSUME TableOK, WebOK, NEW c \in Clients, Welcome(c) \/ RefreshGone(c)
  PROVE  Abstract!Confirm(c)
<1>1. pc[c] = "refresh" /\ Registers(c)
  BY DEF Welcome, RefreshGone, At, WebOK, SessionOK
<1>2. Phase[c] = "enrolled" /\ Request[c] = NewUser(call[c])
  BY <1>1, RegistersIsRequest
<1>3. Finish(c) /\ users' = users
  BY DEF Welcome, RefreshGone, Answer, rows
<1>4. CASE Welcome(c)
  <2>1. Reply' = [Reply EXCEPT ![c] = "created"]
    BY <1>4, OneAnswer DEF Welcome, Answer
  <2>2. Request[c] \in {users[id] : id \in DOMAIN users}
    BY <1>1, <1>2, <1>4 DEF Welcome, WebOK, SessionOK
  <2> QED
    BY <1>2, <1>3, <2>1, <2>2, OneClientEnds DEF Abstract!Confirm, Abstract!Return
<1>5. CASE RefreshGone(c)
  <2>1. Reply' = [Reply EXCEPT ![c] = "error"]
    BY <1>5, OneAnswer DEF RefreshGone, Answer
  <2> QED
    BY <1>2, <1>3, <2>1, OneClientEnds DEF Abstract!Confirm, Abstract!Return
<1> QED
  BY <1>4, <1>5

\* A lookup that finds nothing leaves nobody behind: no account has the key.
LEMMA NothingPassed ==
  ASSUME TableOK, WebOK, NEW c \in Clients, NoConflict(c)
  PROVE  Overtaken' = Overtaken
<1>1. /\ users' = users /\ call' = call
      /\ \A o \in Clients \ {c} : pc'[o] = pc[o]
  BY DEF NoConflict, rows, Goto, WebOK, WebType
<1>2. \/ /\ pc[c] = "selectEmail" /\ pc'[c] = "selectUsername"
         /\ ~HasEmail(call[c].email)
      \/ /\ pc[c] = "selectUsername" /\ pc'[c] = "insert"
         /\ ~HasUsername(call[c].username)
  BY DEF NoConflict, At, Goto, WebOK, WebType
<1>3. \A o \in Clients \ {c} : (o \in Overtaken') <=> (o \in Overtaken)
  BY <1>1 DEF Overtaken, PassedBy, NewUser, Canonical
<1>4. (c \in Overtaken') <=> (c \in Overtaken)
  <2>1. CASE pc[c] = "selectEmail"
    <3>1. \A id \in DOMAIN users : users[id].email # NewUser(call[c]).email
      BY <1>2, <2>1 DEF HasEmail, NewUser, Canonical
    <3> QED
      BY <1>1, <1>2, <2>1, <3>1 DEF Overtaken, PassedBy, NewUser, Canonical
  <2>2. CASE pc[c] = "selectUsername"
    BY <1>1, <1>2, <2>2 DEF HasUsername, Overtaken, PassedBy, NewUser, Canonical
  <2> QED
    BY <1>2, <2>1, <2>2
<1>5. Overtaken \subseteq Clients /\ Overtaken' \subseteq Clients
  BY DEF Overtaken
<1> QED
  BY <1>3, <1>4, <1>5

\* The lookups that find nothing, and the requests that do not register.
LEMMA LookupsStutter ==
  ASSUME TableOK, WebOK, NEW c \in Clients, NoConflict(c) \/ UseAccount(c)
  PROVE  UNCHANGED Abstract!rvars
<1>1. users' = users /\ Reply' = Reply
  BY DEF NoConflict, UseAccount, Login, InvalidCredentials, Authenticate, Unauthorized, Depart,
    rows, Reply
<1>2. CASE NoConflict(c)
  <2>1. /\ call' = call
        /\ \A o \in Clients : (pc'[o] = "refresh") <=> (pc[o] = "refresh")
    BY <1>2 DEF NoConflict, At, Goto, WebOK, WebType
  <2>2. \A o \in Clients : Registers(o)' <=> Registers(o)
    BY <2>1 DEF Registers
  <2>3. Phase' = Phase
    BY <2>1, <2>2 DEF Phase
  <2>4. Request' = Request
    BY <2>1, <2>2 DEF Request, NewUser, Canonical
  <2>5. Overtaken' = Overtaken
    BY <1>1, <1>2, NothingPassed
  <2> QED
    BY <1>1, <2>3, <2>4, <2>5 DEF Abstract!rvars
<1>3. CASE UseAccount(c)
  <2>1. Finish(c) /\ ~Registers(c)
    BY <1>3 DEF UseAccount, Login, InvalidCredentials, Authenticate, Unauthorized, Depart, At,
      WebOK, SessionOK
  <2>2. /\ ~Registers(c)'
        /\ \A o \in Clients \ {c} : pc'[o] = pc[o] /\ call'[o] = call[o]
    BY <2>1, Finished DEF WebOK, Registers, NoCall
  <2>3. Phase' = Phase /\ Request' = Request
    BY <2>1, <2>2, SameClients
  <2>4. {pc[c], pc'[c]} \cap {"selectUsername", "insert"} = {}
    BY <1>3, <2>1, Finished DEF UseAccount, Login, InvalidCredentials, Authenticate,
      Unauthorized, Depart, At, WebOK
  <2>5. Overtaken' = Overtaken
    BY <1>1, <2>2, <2>4, SameOvertaken
  <2> QED
    BY <1>1, <2>3, <2>5 DEF Abstract!rvars
<1> QED
  BY <1>2, <1>3

LEMMA CrashLosesAll ==
  ASSUME Crash
  PROVE  Abstract!LoseAll
<1>1. \A c \in Clients : ~Registers(c)'
  BY DEF Crash, Registers, NoCall
<1>2. Phase' = [c \in Clients |-> "idle"]
  BY <1>1 DEF Phase
<1>3. Request' = [c \in Clients |-> NoCall]
  BY <1>1 DEF Request
<1>4. users' = users /\ Reply' = Reply
  BY DEF Crash, rows, Reply
<1>5. Overtaken' = {}
  BY DEF Crash, Overtaken, PassedBy
<1> QED
  BY <1>2, <1>3, <1>4, <1>5 DEF Abstract!LoseAll

LEMMA ScriptEntersOrWipes ==
  ASSUME TableOK, WebOK, NEW s \in Seeders, Seed(s)
  PROVE  [Abstract!RNext]_(Abstract!rvars)
<1>1. /\ Phase' = Phase /\ Request' = Request /\ Reply' = Reply
      /\ pc' = pc /\ call' = call
  <2>1. UNCHANGED web
    BY DEF Seed, StartSeed, Reset, Skip, NobodyThere, CreateUser, RefreshUser, AddBookmarks,
      SeedFails, CutOff, GiveUp
  <2>2. pc' = pc /\ call' = call /\ reply' = reply
    BY <2>1 DEF web
  <2> QED
    BY <2>2 DEF Phase, Request, Reply, Registers, NewUser, Canonical
<1>2. CASE Reset(s)
  <2>1. {users'[id] : id \in DOMAIN users'} = {}
    BY <1>2 DEF Reset
  <2>2. Overtaken' = {}
    BY <1>2 DEF Reset, Overtaken
  <2> QED
    BY <1>1, <2>1, <2>2 DEF Abstract!RNext, Abstract!Wipe
<1>3. CASE CreateUser(s)
  <2> DEFINE entry == SampleUser(seed[s])
  <2>1. seed[s] \in SampleNames /\ KeysFree(entry) /\ InsertUser(entry)
    BY <1>3 DEF CreateUser
  <2>2. ~Abstract!Taken(entry)
    BY <2>1, TakenIsNotFree
  <2>3. /\ DOMAIN users' = DOMAIN users \cup {nextId} /\ nextId \notin DOMAIN users
        /\ users'[nextId] = entry
        /\ \A id \in DOMAIN users : users'[id] = users[id]
    BY <2>1 DEF InsertUser, NewId, TableOK
  <2>4. {users'[id] : id \in DOMAIN users'} = {users[id] : id \in DOMAIN users} \cup {entry}
    BY <2>3
  <2>5. Abstract!Overtake(Abstract!Rivals(entry))
    <3>1. \E late \in SUBSET (Abstract!Rivals(entry) \ {}) : Overtaken' = Overtaken \cup late
      <4>1. /\ {} \in SUBSET Clients
            /\ \A c \in {} : pc'[c] = "refresh" /\ c \notin Overtaken
            /\ \A c \in Clients \ {} : pc'[c] = pc[c] /\ call'[c] = call[c]
        BY <1>1
      <4> HIDE DEF entry
      <4> QED
        BY <2>1, <4>1, EnteredOvertakes
    <3> QED
      BY <3>1 DEF Abstract!Overtake
  <2>6. Abstract!EnterSample
    BY <1>1, <2>1, <2>2, <2>4, <2>5 DEF Abstract!EnterSample
  <2> QED
    BY <2>6 DEF Abstract!RNext
<1>4. CASE \/ StartSeed(s) \/ Skip(s) \/ NobodyThere(s) \/ RefreshUser(s)
           \/ AddBookmarks(s) \/ SeedFails(s) \/ CutOff(s)
  <2>1. users' = users
    BY <1>4 DEF StartSeed, Skip, NobodyThere, RefreshUser, AddBookmarks, SeedFails, CutOff,
      GiveUp, rows
  <2>2. Overtaken' = Overtaken
    BY <1>1, <2>1, SameOvertaken
  <2> QED
    BY <1>1, <2>1, <2>2 DEF Abstract!rvars
<1> QED
  BY <1>2, <1>3, <1>4 DEF Seed

-----------------------------------------------------------------------------

\* Registration keeps to the registry: an account is entered in one step when
\* none of its keys is taken, and whoever gets none, with a conflict or with an
\* error, does so at a moment when one of them is; with an error only if the key was
\* entered since the request looked for it (AuthService.register).
THEOREM RegistrationIsOneStep == Spec => ImplementsRegistry
<1>1. Init => Abstract!RInit
  <2> SUFFICES ASSUME Init PROVE Abstract!RInit
    OBVIOUS
  <2>1. {users[id] : id \in DOMAIN users} = {}
    BY DEF Init
  <2>2. \A c \in Clients : ~Registers(c) /\ reply[c] = "none"
    BY DEF Init, Registers, NoCall
  <2>3. Phase = [c \in Clients |-> "idle"] /\ Request = [c \in Clients |-> NoCall]
    BY <2>2 DEF Phase, Request
  <2>4. Reply = [c \in Clients |-> "none"]
    BY <2>2 DEF Reply
  <2>5. Overtaken = {}
    BY DEF Init, Overtaken
  <2> QED
    BY <2>1, <2>3, <2>4, <2>5 DEF Abstract!RInit
<1>2. AccountsInv /\ [Next]_vars => [Abstract!RNext]_(Abstract!rvars)
  <2> SUFFICES ASSUME TableOK, WebOK, [Next]_vars
               PROVE  [Abstract!RNext]_(Abstract!rvars)
    BY Parts
  <2>1. ASSUME NEW c \in Clients, Begin(c)
        PROVE  [Abstract!RNext]_(Abstract!rvars)
    BY <2>1, BeginSubmits
  <2>2. ASSUME NEW c \in Clients, Conflict(c) \/ LoseRace(c)
        PROVE  [Abstract!RNext]_(Abstract!rvars)
    BY <2>2, RefusalIsJustified DEF Abstract!RNext
  <2>3. ASSUME NEW c \in Clients, Insert(c)
        PROVE  [Abstract!RNext]_(Abstract!rvars)
    BY <2>3, InsertEnrolls DEF Abstract!RNext
  <2>4. ASSUME NEW c \in Clients, Welcome(c) \/ RefreshGone(c)
        PROVE  [Abstract!RNext]_(Abstract!rvars)
    BY <2>4, AnswerConfirms DEF Abstract!RNext
  <2>5. ASSUME NEW c \in Clients, NoConflict(c) \/ UseAccount(c)
        PROVE  [Abstract!RNext]_(Abstract!rvars)
    BY <2>5, LookupsStutter
  <2>6. ASSUME NEW s \in Seeders, Seed(s)
        PROVE  [Abstract!RNext]_(Abstract!rvars)
    BY <2>6, ScriptEntersOrWipes
  <2>7. CASE Crash
    BY <2>7, CrashLosesAll DEF Abstract!RNext
  <2>8. CASE UNCHANGED vars
    BY <2>8 DEF vars, rows, web, Abstract!rvars, Phase, Request, Overtaken, PassedBy, Reply,
      Registers, NewUser, Canonical
  <2> QED
    BY <2>1, <2>2, <2>3, <2>4, <2>5, <2>6, <2>7, <2>8 DEF Next, Register
<1> QED
  BY <1>1, <1>2, AccountsKept, PTL DEF Spec, ImplementsRegistry, Abstract!RSpec

=============================================================================
