--------------------------- MODULE BookmarksProofs ---------------------------
(***************************************************************************)
(* Proofs about Bookmarks, for any clients, users, tags, calls and bound.  *)
(***************************************************************************)
EXTENDS Bookmarks, TLAPS

Statuses == {0, 200, 201, 204, 404, 412, 428, 500}

\* What the variables of the sessions look like, apart from the table.
SessionTypes ==
  /\ started \in 0..MaxRequests
  /\ pc \in [Clients -> {"idle"} \cup Statements]
  /\ call \in [Clients -> {NoCall} \cup CallType]
  /\ loaded \in [Clients -> View]
  /\ todo \in [Clients -> SUBSET Tags]
  /\ held \in [Clients -> SUBSET Tags]
  /\ reply \in [Clients -> [status : Statuses, etag : Nat]]
  /\ seen \in [Clients -> View]

TableTypes ==
  /\ rows = [id \in DOMAIN rows |-> rows[id]]
  /\ \A id \in DOMAIN rows : id \in Nat \ {0} /\ rows[id] \in Row
  /\ tagNames \subseteq Tags
  /\ nextId \in Nat \ {0}

LEMMA TypeParts == TypeOK <=> SessionTypes /\ TableTypes
BY DEF TypeOK, SessionTypes, TableTypes, Statuses

LEMMA NoViewType == NoView \in View
BY DEF NoView, View

\* Ending a request leaves its session as it was at the start.
LEMMA FinishTypes ==
  ASSUME TypeOK, NEW c \in Clients, NEW status \in Statuses, NEW etag \in Nat,
         Finish(c, status, etag), seen' \in [Clients -> View]
  PROVE  SessionTypes'
<1>1. pc' \in [Clients -> {"idle"} \cup Statements]
  BY DEF TypeOK, Finish, Goto
<1>2. reply' \in [Clients -> [status : Statuses, etag : Nat]]
  BY DEF TypeOK, Finish, Reply, Statuses
<1>3. call' \in [Clients -> {NoCall} \cup CallType]
  BY DEF TypeOK, Finish
<1>4. loaded' \in [Clients -> View]
  BY NoViewType DEF TypeOK, Finish
<1>5. todo' \in [Clients -> SUBSET Tags] /\ held' \in [Clients -> SUBSET Tags]
  BY DEF TypeOK, Finish
<1>6. started' \in 0..MaxRequests
  BY DEF TypeOK, Finish
<1> QED
  BY <1>1, <1>2, <1>3, <1>4, <1>5, <1>6 DEF SessionTypes

LEMMA RefuseTypes ==
  ASSUME TypeOK, NEW c \in Clients, NEW status \in Statuses, NEW etag \in Nat,
         Refuse(c, status, etag)
  PROVE  TypeOK'
<1>1. SessionTypes'
  BY FinishTypes DEF Refuse, TypeOK
<1>2. TableTypes'
  BY TypeParts DEF Refuse, TableTypes, db
<1> QED
  BY <1>1, <1>2, TypeParts DEF TypeOK, SessionTypes, TableTypes, Statuses

LEMMA SendTypes ==
  ASSUME TypeOK, NEW c \in Clients, NEW status \in Statuses, NEW view \in View,
         Send(c, status, view)
  PROVE  TypeOK'
<1>1. view.version \in Nat
  BY DEF View
<1>2. SessionTypes'
  BY <1>1, FinishTypes DEF Send, TypeOK
<1>3. TableTypes'
  BY TypeParts DEF Send, TableTypes, db
<1> QED
  BY <1>2, <1>3 DEF TypeOK, SessionTypes, TableTypes, Statuses

LEMMA ViewOfType ==
  ASSUME TypeOK, NEW id \in DOMAIN rows
  PROVE  /\ ViewOf(id) \in View
         /\ ViewOf(id).id = id
         /\ ViewOf(id).version = rows[id].version
         /\ ViewOf(id).body = rows[id].body
BY DEF TypeOK, Row, View, ViewOf

LEMMA WithTagsType ==
  ASSUME TypeOK, NEW c \in Clients
  PROVE  /\ WithTags(c) \in View
         /\ WithTags(c).id = loaded[c].id
         /\ WithTags(c).version = loaded[c].version
         /\ WithTags(c).body = loaded[c].body
         /\ WithTags(c).tags = LinksOf(loaded[c].id)
<1>1. LinksOf(loaded[c].id) \in SUBSET Tags
  BY DEF TypeOK, Row, LinksOf, Exists
<1>2. loaded[c] \in View
  BY DEF TypeOK
<1> QED
  BY <1>1, <1>2 DEF View, WithTags

\* The requests in flight are among those the clients may send.
LEMMA CallFields ==
  ASSUME SessionsOK, NEW c \in Clients, pc[c] # "idle"
  PROVE  /\ call[c] \in CallType
         /\ call[c].op = "create" => call[c].body \in Bodies /\ call[c].tags # Null
         /\ call[c].user \in Users
         /\ call[c].tags # Null => Names(call[c].tags) \subseteq Tags
<1>1. call[c] \in CallType /\ (call[c].op = "create" => call[c].body # Null /\ call[c].tags # Null)
  BY CallsAssumption DEF SessionsOK, SessionOK
<1>2. call[c].body \in {Null} \cup Bodies /\ call[c].user \in Users
        /\ call[c].tags \in {Null} \cup Seq(Tags)
  BY <1>1 DEF CallType
<1>3. ASSUME call[c].tags # Null
      PROVE  Names(call[c].tags) \subseteq Tags
  <2>1. call[c].tags \in Seq(Tags)
    BY <1>2, <1>3
  <2>2. \A i \in DOMAIN call[c].tags : call[c].tags[i] \in Tags
    BY <2>1
  <2> QED
    BY <2>2 DEF Names
<1> QED
  BY <1>1, <1>2, <1>3

LEMMA LinksTypes ==
  ASSUME TypeOK, SessionsOK, NEW c \in Clients, pc[c] # "idle"
  PROVE  Linked(c) \subseteq Tags /\ LinksOf(call[c].id) \subseteq Tags
<1>1. Linked(c) \subseteq Tags
  BY CallFields DEF Linked
<1>2. LinksOf(call[c].id) \subseteq Tags
  BY DEF LinksOf, TypeOK, Row, Exists
<1> QED
  BY <1>1, <1>2

\* The row an edit leaves behind, field by field.
LEMMA EditedFields ==
  ASSUME TypeOK, SessionsOK, NEW c \in Clients, pc[c] # "idle", NEW row \in Row
  PROVE  /\ Edited(c, row) \in Row
         /\ Edited(c, row).owner = row.owner
         /\ Edited(c, row).version = loaded[c].version + 1
         /\ Edited(c, row).body = IF call[c].body = Null THEN row.body ELSE call[c].body
         /\ Edited(c, row).tags = (row.tags \ Unlinked(c)) \cup Linked(c)
<1>1. loaded[c].version + 1 \in Nat \ {0}
  BY DEF TypeOK, View
<1>2. Linked(c) \subseteq Tags
  BY LinksTypes
<1>3. call[c].body \in {Null} \cup Bodies
  BY CallFields DEF CallType
<1> QED
  BY <1>1, <1>2, <1>3 DEF Edited, Row

\* The table after a commit is again a table of rows.
LEMMA CommitTypes ==
  ASSUME TypeOK, NEW c \in Clients, NEW table, Commit(c, table),
         table = [id \in DOMAIN table |-> table[id]],
         \A id \in DOMAIN table : id \in Nat \ {0} /\ table[id] \in Row,
         nextId' \in Nat \ {0}
  PROVE  TableTypes'
BY DEF TypeOK, TableTypes, Commit

-----------------------------------------------------------------------------
(* Types *)

LEMMA InitTypes == Init => TypeOK
<1> SUFFICES ASSUME Init PROVE TypeOK
  OBVIOUS
<1>1. TableTypes
  BY StoredAssumption DEF Init, TableTypes, Row
<1>2. SessionTypes
  BY NoViewType, BoundAssumption DEF Init, SessionTypes, NoReply, Reply, Statuses
<1> QED
  BY <1>1, <1>2, TypeParts

LEMMA CommitStepTypes ==
  ASSUME TypeOK, SessionsOK, NEW c \in Clients, InsertRow(c) \/ UpdateLinks(c)
  PROVE  TypeOK'
<1>1. CASE InsertRow(c)
  <2>1. PICK new \in 1..nextId :
          /\ Commit(c, [id \in DOMAIN rows \cup {new} |->
                          IF id = new THEN NewRow(c) ELSE rows[id]])
          /\ loaded' = [loaded EXCEPT ![c].id = new]
    BY <1>1 DEF InsertRow
  <2> DEFINE table == [id \in DOMAIN rows \cup {new} |->
                        IF id = new THEN NewRow(c) ELSE rows[id]]
  <2>2. new \in Nat \ {0}
    BY DEF TypeOK
  <2>3. NewRow(c) \in Row
    <3>1. pc[c] = "insertRow" /\ call[c].op = "create"
      BY <1>1 DEF InsertRow, At, SessionsOK, SessionOK
    <3> QED
      BY <3>1, CallFields DEF NewRow, Row
  <2>4. \A id \in DOMAIN table : id \in Nat \ {0} /\ table[id] \in Row
    BY <2>2, <2>3 DEF TypeOK
  <2>5. TableTypes'
    <3>1. Commit(c, table) /\ nextId' \in Nat \ {0}
      BY <1>1, <2>1 DEF InsertRow, TypeOK
    <3>2. table = [id \in DOMAIN table |-> table[id]]
      OBVIOUS
    <3> HIDE DEF table
    <3> QED
      BY <2>4, <3>1, <3>2, CommitTypes
  <2>6. loaded' \in [Clients -> View]
    <3>1. loaded[c] \in View
      BY DEF TypeOK
    <3>2. [loaded[c] EXCEPT !.id = new] \in View
      BY <2>2, <3>1 DEF View
    <3> QED
      BY <2>1, <3>2 DEF TypeOK
  <2>7. pc' \in [Clients -> {"idle"} \cup Statements]
    BY <1>1 DEF InsertRow, TypeOK, Goto, Statements
  <2>8. held' \in [Clients -> SUBSET Tags]
    BY <1>1 DEF InsertRow, Commit, TypeOK
  <2> QED
    BY <1>1, <2>5, <2>6, <2>7, <2>8 DEF InsertRow, TypeOK, TableTypes
<1>2. CASE UpdateLinks(c)
  <2> DEFINE table == [rows EXCEPT ![call[c].id] = Edited(c, rows[call[c].id])]
  <2>1. \A id \in DOMAIN table : id \in Nat \ {0} /\ table[id] \in Row
    <3>1. pc[c] # "idle"
      BY <1>2 DEF UpdateLinks, At
    <3>2. \A row \in Row : Edited(c, row) \in Row
      BY <3>1, EditedFields
    <3> QED
      BY <3>2 DEF TypeOK
  <2>2. TableTypes'
    <3>1. Commit(c, table) /\ nextId' \in Nat \ {0}
      BY <1>2 DEF UpdateLinks, TypeOK
    <3>2. table = [id \in DOMAIN table |-> table[id]]
      BY DEF TypeOK
    <3> HIDE DEF table
    <3> QED
      BY <2>1, <3>1, <3>2, CommitTypes
  <2>3. pc' \in [Clients -> {"idle"} \cup Statements]
    BY <1>2 DEF UpdateLinks, TypeOK, Goto, Statements
  <2>4. held' \in [Clients -> SUBSET Tags]
    BY <1>2 DEF UpdateLinks, Commit, TypeOK
  <2> QED
    BY <1>2, <2>2, <2>3, <2>4 DEF UpdateLinks, TypeOK, TableTypes
<1> QED
  BY <1>1, <1>2

\* Every step keeps the types.
LEMMA TypeStep ==
  ASSUME TypeOK, SessionsOK, [Next]_vars
  PROVE  TypeOK'
<1>1. CASE Crash
  BY <1>1, NoViewType DEF Crash, TypeOK, db
<1>2. ASSUME NEW c \in Clients, Begin(c)
      PROVE  TypeOK'
  <2>1. started' \in 0..MaxRequests
    BY <1>2, BoundAssumption DEF Begin, TypeOK
  <2>2. call' \in [Clients -> {NoCall} \cup CallType]
    BY <1>2, CallsAssumption DEF Begin, TypeOK
  <2>3. pc' \in [Clients -> {"idle"} \cup Statements]
    BY <1>2 DEF Begin, TypeOK, Goto, Statements
  <2> QED
    BY <1>2, <2>1, <2>2, <2>3 DEF Begin, TypeOK, db, NoReply, Reply
<1>3. ASSUME NEW c \in Clients, Read(c)
      PROVE  TypeOK'
  <2>1. loaded[c].version \in Nat
    BY DEF TypeOK, View
  <2>2. CASE NotFound(c) \/ RequirePrecondition(c) \/ FailPrecondition(c)
    BY <2>1, <2>2, RefuseTypes
       DEF NotFound, RequirePrecondition, FailPrecondition, Statuses
  <2>3. CASE ServeGet(c)
    BY <2>3, WithTagsType, SendTypes DEF ServeGet, Statuses
  <2>4. CASE LoadRow(c)
    <3>1. ViewOf(call[c].id) \in View
      BY <2>4, ViewOfType DEF LoadRow, Owned, Exists
    <3> QED
      BY <2>4, <3>1 DEF LoadRow, TypeOK, Goto, Statements, db
  <2>5. CASE PassPrecondition(c)
    <3>1. AfterPrecondition(c) \in Statements
      BY DEF AfterPrecondition, Statements
    <3> QED
      BY <2>5, <3>1, WithTagsType DEF PassPrecondition, TypeOK, Goto, db
  <2> QED
    BY <1>3, <2>2, <2>3, <2>4, <2>5 DEF Read
<1>4. ASSUME NEW c \in Clients, ResolveTags(c)
      PROVE  TypeOK'
  <2>1. CASE SelectTags(c)
    <3>1. Missing(c) \in SUBSET Tags
      <4>1. pc[c] # "idle" /\ call[c].tags # Null
        BY <2>1 DEF SelectTags, At, SessionsOK, SessionOK
      <4> QED
        BY <4>1, CallFields DEF Missing
    <3> QED
      BY <2>1, <3>1 DEF SelectTags, TypeOK, Goto, WriteOf, Statements, db
  <2>2. CASE InsertTag(c)
    BY <2>2 DEF InsertTag, TypeOK, Goto, WriteOf, Statements, db
  <2>3. CASE TagExists(c)
    BY <2>3, RefuseTypes DEF TagExists, Statuses
  <2> QED
    BY <1>4, <2>1, <2>2, <2>3 DEF ResolveTags
<1>5. ASSUME NEW c \in Clients, Write(c)
      PROVE  TypeOK'
  <2>1. CASE InsertRow(c) \/ UpdateLinks(c)
    BY <2>1, CommitStepTypes
  <2>2. CASE UpdateRow(c) \/ DeleteLinks(c)
    BY <2>2 DEF UpdateRow, DeleteLinks, TypeOK, Goto, Statements, db
  <2>3. CASE DeleteRow(c)
    <3>1. SessionTypes'
      BY <2>3, FinishTypes DEF DeleteRow, Statuses, TypeOK
    <3>2. TableTypes'
      BY <2>3 DEF DeleteRow, TableTypes, TypeOK
    <3> QED
      BY <3>1, <3>2 DEF TypeOK, SessionTypes, TableTypes, Statuses
  <2>4. CASE LoseRace(c)
    BY <2>4 DEF LoseRace, TypeOK, Goto, Statements, db
  <2>5. CASE ReportConflict(c)
    <3>1. (IF Owned(c) THEN rows[call[c].id].version ELSE 0) \in Nat
      BY DEF Owned, Exists, TypeOK, Row
    <3> QED
      BY <2>5, <3>1, RefuseTypes DEF ReportConflict, Statuses
  <2> QED
    BY <1>5, <2>1, <2>2, <2>3, <2>4, <2>5 DEF Write
<1>6. ASSUME NEW c \in Clients, Refresh(c)
      PROVE  TypeOK'
  <2>1. CASE RefreshRow(c)
    <3>1. ViewOf(loaded[c].id) \in View
      BY <2>1, ViewOfType DEF RefreshRow, Exists
    <3> QED
      BY <2>1, <3>1 DEF RefreshRow, TypeOK, Goto, Statements, db
  <2>2. CASE RefreshGone(c)
    BY <2>2, RefuseTypes DEF RefreshGone, Statuses
  <2>3. CASE ServeWrite(c)
    <3>1. (IF call[c].op = "create" THEN 201 ELSE 200) \in Statuses
      BY DEF Statuses
    <3> QED
      BY <2>3, <3>1, WithTagsType, SendTypes DEF ServeWrite
  <2> QED
    BY <1>6, <2>1, <2>2, <2>3 DEF Refresh
<1>7. ASSUME NEW c \in Clients, DeadlockVictim(c) \/ LockTimeout(c)
      PROVE  TypeOK'
  BY <1>7, RefuseTypes DEF DeadlockVictim, LockTimeout, Statuses
<1>8. CASE UNCHANGED vars
  BY <1>8 DEF TypeOK, vars, db
<1> QED
  BY <1>1, <1>2, <1>3, <1>4, <1>5, <1>6, <1>7, <1>8 DEF Next, Step

-----------------------------------------------------------------------------
(* What a step does to the sessions *)

\* The session of d is not touched.
SameSession(d) ==
  /\ pc'[d] = pc[d] /\ call'[d] = call[d] /\ loaded'[d] = loaded[d]
  /\ todo'[d] = todo[d] /\ held'[d] = held[d] /\ seen'[d] = seen[d]

\* The request of c has ended.
Ended(c) ==
  /\ pc'[c] = "idle" /\ call'[c] = NoCall /\ loaded'[c] = NoView
  /\ todo'[c] = {} /\ held'[c] = {}

LEMMA FinishEnds ==
  ASSUME TypeOK, NEW c \in Clients, NEW status, NEW etag, Finish(c, status, etag)
  PROVE  /\ Ended(c)
         /\ \A d \in Clients \ {c} :
              /\ pc'[d] = pc[d] /\ call'[d] = call[d] /\ loaded'[d] = loaded[d]
              /\ todo'[d] = todo[d] /\ held'[d] = held[d]
BY DEF TypeOK, Finish, Goto, Ended

LEMMA RefuseEnds ==
  ASSUME TypeOK, NEW c \in Clients, NEW status, NEW etag, Refuse(c, status, etag)
  PROVE  /\ Ended(c)
         /\ \A d \in Clients \ {c} : SameSession(d)
         /\ UNCHANGED <<rows, tagNames, nextId, seen>>
<1>1. Finish(c, status, etag) /\ UNCHANGED <<rows, tagNames, nextId, seen>>
  BY DEF Refuse, db
<1> QED
  BY <1>1, FinishEnds DEF SameSession

LEMMA SendEnds ==
  ASSUME TypeOK, NEW c \in Clients, NEW status, NEW view, Send(c, status, view)
  PROVE  /\ Ended(c)
         /\ \A d \in Clients \ {c} : SameSession(d)
         /\ seen'[c] = view
         /\ UNCHANGED <<rows, tagNames, nextId>>
<1>1. Finish(c, status, view.version) /\ UNCHANGED <<rows, tagNames, nextId>>
        /\ seen' = [seen EXCEPT ![c] = view]
  BY DEF Send, db
<1>2. seen'[c] = view /\ \A d \in Clients \ {c} : seen'[d] = seen[d]
  BY <1>1 DEF TypeOK
<1> QED
  BY <1>1, <1>2, FinishEnds DEF SameSession

\* The steps that answer without a representation and change no table.
Refusal(c) ==
  \/ NotFound(c) \/ RequirePrecondition(c) \/ FailPrecondition(c)
  \/ TagExists(c) \/ ReportConflict(c) \/ RefreshGone(c)
  \/ DeadlockVictim(c) \/ LockTimeout(c)

LEMMA RefusalEnds ==
  ASSUME TypeOK, NEW c \in Clients, Refusal(c)
  PROVE  /\ Ended(c)
         /\ \A d \in Clients \ {c} : SameSession(d)
         /\ UNCHANGED <<rows, tagNames, nextId, seen>>
<1>1. PICK status, etag : Refuse(c, status, etag)
  BY DEF Refusal, NotFound, RequirePrecondition, FailPrecondition, TagExists,
         ReportConflict, RefreshGone, DeadlockVictim, LockTimeout
<1> QED
  BY <1>1, RefuseEnds

\* The two steps that send a representation.
Delivery(c) == ServeGet(c) \/ ServeWrite(c)

LEMMA DeliveryEnds ==
  ASSUME TypeOK, NEW c \in Clients, Delivery(c)
  PROVE  /\ Ended(c)
         /\ \A d \in Clients \ {c} : SameSession(d)
         /\ seen'[c] = WithTags(c)
         /\ UNCHANGED <<rows, tagNames, nextId>>
<1>1. PICK status : Send(c, status, WithTags(c))
  BY DEF Delivery, ServeGet, ServeWrite
<1> QED
  BY <1>1, SendEnds

\* Every step belongs to one client and leaves the sessions of others alone,
\* except the crash, which ends them all.
LEMMA StepCases ==
  ASSUME NEW c \in Clients, Step(c)
  PROVE  \/ Refusal(c) \/ Delivery(c) \/ LoadRow(c) \/ PassPrecondition(c)
         \/ SelectTags(c) \/ InsertTag(c) \/ InsertRow(c) \/ UpdateRow(c)
         \/ UpdateLinks(c) \/ DeleteLinks(c) \/ DeleteRow(c) \/ LoseRace(c)
         \/ RefreshRow(c)
BY DEF Step, Read, ResolveTags, Write, Refresh, Refusal, Delivery

LEMMA OthersUntouched ==
  ASSUME TypeOK, NEW c \in Clients, Begin(c) \/ Step(c)
  PROVE  \A d \in Clients \ {c} : SameSession(d)
<1>1. CASE Begin(c)
  BY <1>1 DEF Begin, TypeOK, Goto, SameSession
<1>2. CASE Refusal(c) \/ Delivery(c)
  BY <1>2, RefusalEnds, DeliveryEnds
<1>3. CASE LoadRow(c) \/ PassPrecondition(c) \/ SelectTags(c) \/ RefreshRow(c)
  BY <1>3 DEF LoadRow, PassPrecondition, SelectTags, RefreshRow, TypeOK, Goto, SameSession
<1>4. CASE InsertTag(c)
  BY <1>4 DEF InsertTag, TypeOK, Goto, SameSession
<1>7. CASE InsertRow(c)
  BY <1>7 DEF InsertRow, Commit, TypeOK, Goto, SameSession
<1>5. CASE UpdateRow(c) \/ UpdateLinks(c) \/ DeleteLinks(c) \/ LoseRace(c)
  BY <1>5 DEF UpdateRow, UpdateLinks, DeleteLinks, LoseRace, Commit, TypeOK, Goto, SameSession
<1>6. CASE DeleteRow(c)
  BY <1>6, FinishEnds DEF DeleteRow, SameSession
<1> QED
  BY <1>1, <1>2, <1>3, <1>4, <1>5, <1>6, <1>7, StepCases

-----------------------------------------------------------------------------
(* Sessions *)

LEMMA EndedOK ==
  ASSUME NEW c \in Clients, Ended(c)
  PROVE  SessionOK(c)'
BY DEF Ended, SessionOK, WriteStatements

LEMMA SameSessionOK ==
  ASSUME NEW d \in Clients, SessionOK(d), SameSession(d)
  PROVE  SessionOK(d)'
BY DEF SameSession, SessionOK, WriteStatements

\* A step of c leaves what c knows of its own request right.
LEMMA OwnSessionOK ==
  ASSUME TypeOK, SessionsOK, NEW c \in Clients, Begin(c) \/ Step(c)
  PROVE  SessionOK(c)'
<1> USE DEF SessionsOK
<1>1. CASE Begin(c)
  <2>1. PICK request \in Calls :
          /\ call' = [call EXCEPT ![c] = request]
          /\ Goto(c, IF request.op # "create" THEN "load"
                     ELSE IF request.tags = <<>> THEN "insertRow" ELSE "selectTags")
    BY <1>1 DEF Begin
  <2>2. call'[c] = request /\ loaded'[c] = NoView /\ held'[c] = {}
    <3>1. pc[c] = "idle" /\ loaded' = loaded /\ held' = held
      BY <1>1 DEF Begin
    <3>2. loaded[c] = NoView /\ held[c] = {}
      BY <3>1 DEF SessionOK
    <3> QED
      BY <2>1, <3>1, <3>2 DEF TypeOK
  <2>3. pc'[c] = IF request.op # "create" THEN "load"
                 ELSE IF request.tags = <<>> THEN "insertRow" ELSE "selectTags"
    BY <2>1 DEF TypeOK, Goto
  <2>4. request.op = "create" => request.tags # Null
    BY CallsAssumption
  <2> QED
    BY <2>2, <2>3, <2>4 DEF SessionOK, WriteStatements
<1>2. CASE Refusal(c) \/ Delivery(c)
  BY <1>2, RefusalEnds, DeliveryEnds, EndedOK
<1>3. CASE LoadRow(c)
  <2>1. pc[c] = "load" /\ pc'[c] = "loadTags" /\ call'[c] = call[c] /\ held'[c] = held[c]
    BY <1>3 DEF LoadRow, At, Goto, TypeOK
  <2>2. loaded'[c].id = call[c].id
    BY <1>3, ViewOfType DEF LoadRow, Owned, Exists, TypeOK
  <2> QED
    BY <2>1, <2>2 DEF SessionOK, WriteStatements
<1>4. CASE PassPrecondition(c)
  <2>1. /\ pc[c] = "loadTags" /\ call'[c] = call[c] /\ held'[c] = held[c]
        /\ pc'[c] = AfterPrecondition(c) /\ loaded'[c] = WithTags(c)
        /\ call[c].op # "get" /\ call[c].ifMatch.present
        /\ Matches(call[c].ifMatch, loaded[c].version)
    BY <1>4 DEF PassPrecondition, At, Goto, TypeOK
  <2>2. loaded'[c].id = call[c].id /\ loaded'[c].version = loaded[c].version
    BY <2>1, WithTagsType DEF SessionOK
  <2>3. call[c].op \in {"update", "delete"}
    BY <2>1, CallFields DEF SessionOK, CallType
  <2>4. /\ call[c].op = "delete" => pc'[c] \in {"deleteRow", "deleteLinks"}
        /\ call[c].op = "update" => pc'[c] \in {"updateRow", "selectTags"}
        /\ pc'[c] = "selectTags" => call[c].tags # Null
    BY <2>1, <2>3 DEF AfterPrecondition
  <2> QED
    BY <2>1, <2>2, <2>3, <2>4 DEF SessionOK, WriteStatements
<1>5. CASE SelectTags(c)
  <2>1. /\ pc[c] = "selectTags" /\ pc'[c] \in {"insertTag", WriteOf(c)}
        /\ call'[c] = call[c] /\ held'[c] = held[c] /\ loaded'[c] = loaded[c]
    BY <1>5 DEF SelectTags, At, Goto, TypeOK
  <2> QED
    BY <2>1 DEF SessionOK, WriteStatements, WriteOf
<1>6. CASE InsertTag(c)
  <2>1. /\ pc[c] = "insertTag" /\ pc'[c] \in {"insertTag", WriteOf(c)}
        /\ call'[c] = call[c] /\ loaded'[c] = loaded[c]
    BY <1>6 DEF InsertTag, At, Goto, TypeOK
  <2> QED
    BY <2>1 DEF SessionOK, WriteStatements, WriteOf
<1>7. CASE InsertRow(c) \/ UpdateLinks(c)
  <2>1. /\ pc[c] \in {"insertRow", "updateLinks"} /\ pc'[c] = "refresh"
        /\ call'[c] = call[c] /\ held'[c] = {}
    <3>1. CASE InsertRow(c)
      BY <3>1 DEF InsertRow, At, Goto, Commit, TypeOK
    <3>2. CASE UpdateLinks(c)
      BY <3>2 DEF UpdateLinks, At, Goto, Commit, TypeOK
    <3> QED
      BY <1>7, <3>1, <3>2
  <2> QED
    BY <2>1 DEF SessionOK, WriteStatements
<1>8. CASE UpdateRow(c)
  <2>1. /\ pc[c] = "updateRow" /\ pc'[c] = "updateLinks"
        /\ call'[c] = call[c] /\ held'[c] = held[c] /\ loaded'[c] = loaded[c]
    BY <1>8 DEF UpdateRow, At, Goto, TypeOK
  <2> QED
    BY <2>1 DEF SessionOK, WriteStatements
<1>9. CASE DeleteLinks(c)
  <2>1. /\ pc[c] = "deleteLinks" /\ pc'[c] = "deleteRow"
        /\ call'[c] = call[c] /\ held'[c] = held[c] /\ loaded'[c] = loaded[c]
    BY <1>9 DEF DeleteLinks, At, Goto, TypeOK
  <2> QED
    BY <2>1 DEF SessionOK, WriteStatements
<1>10. CASE DeleteRow(c)
  BY <1>10, FinishEnds, EndedOK DEF DeleteRow
<1>11. CASE LoseRace(c)
  <2>1. /\ pc[c] \in {"updateRow", "updateLinks", "deleteLinks", "deleteRow"}
        /\ pc'[c] = "reread" /\ held'[c] = {}
        /\ call'[c] = call[c] /\ loaded'[c] = loaded[c]
    BY <1>11 DEF LoseRace, Stale, Goto, TypeOK
  <2> QED
    BY <2>1 DEF SessionOK, WriteStatements
<1>12. CASE RefreshRow(c)
  <2>1. /\ pc[c] = "refresh" /\ pc'[c] = "refreshTags"
        /\ call'[c] = call[c] /\ held'[c] = held[c]
    BY <1>12 DEF RefreshRow, At, Goto, TypeOK
  <2> QED
    BY <2>1 DEF SessionOK, WriteStatements
<1> QED
  BY <1>1, <1>2, <1>3, <1>4, <1>5, <1>6, <1>7, <1>8, <1>9, <1>10, <1>11, <1>12, StepCases

LEMMA CrashEnds ==
  ASSUME Crash
  PROVE  /\ \A c \in Clients : Ended(c)
         /\ UNCHANGED <<rows, tagNames, nextId, seen>>
BY DEF Crash, Ended, db

LEMMA SessionsStep ==
  ASSUME TypeOK, SessionsOK, [Next]_vars
  PROVE  SessionsOK'
<1>1. CASE Crash
  BY <1>1, CrashEnds, EndedOK DEF SessionsOK
<1>2. ASSUME NEW c \in Clients, Begin(c) \/ Step(c)
      PROVE  SessionsOK'
  BY <1>2, OwnSessionOK, OthersUntouched, SameSessionOK DEF SessionsOK
<1>3. CASE UNCHANGED vars
  BY <1>3, SameSessionOK DEF SessionsOK, vars, db, SameSession
<1> QED
  BY <1>1, <1>2, <1>3 DEF Next

-----------------------------------------------------------------------------
(* Tags *)

\* The steps that neither commit nor insert anything.
QuietStep(c) ==
  \/ Begin(c) \/ Refusal(c) \/ Delivery(c) \/ LoadRow(c) \/ PassPrecondition(c)
  \/ SelectTags(c) \/ UpdateRow(c) \/ DeleteLinks(c) \/ LoseRace(c) \/ RefreshRow(c)

LEMMA StepKinds ==
  ASSUME NEW c \in Clients, Begin(c) \/ Step(c)
  PROVE  \/ QuietStep(c) \/ InsertTag(c) \/ InsertRow(c) \/ UpdateLinks(c)
         \/ DeleteRow(c)
BY StepCases DEF QuietStep

LEMMA QuietTables ==
  ASSUME TypeOK, NEW c \in Clients, QuietStep(c)
  PROVE  UNCHANGED <<rows, tagNames, nextId>> /\ held'[c] \subseteq held[c]
<1>1. CASE Refusal(c) \/ Delivery(c)
  BY <1>1, RefusalEnds, DeliveryEnds DEF Ended
<1>2. CASE Begin(c) \/ LoadRow(c) \/ PassPrecondition(c) \/ SelectTags(c) \/ RefreshRow(c)
  BY <1>2 DEF Begin, LoadRow, PassPrecondition, SelectTags, RefreshRow, db
<1>3. CASE UpdateRow(c) \/ DeleteLinks(c) \/ LoseRace(c)
  BY <1>3 DEF UpdateRow, DeleteLinks, LoseRace, db, TypeOK
<1> QED
  BY <1>1, <1>2, <1>3 DEF QuietStep

LEMMA DeleteRowTables ==
  ASSUME TypeOK, NEW c \in Clients, DeleteRow(c)
  PROVE  /\ UNCHANGED <<tagNames, nextId, seen>>
         /\ rows' = [id \in DOMAIN rows \ {call[c].id} |-> rows[id]]
         /\ Ended(c)
BY FinishEnds DEF DeleteRow

LEMMA UpdateLinksTables ==
  ASSUME TypeOK, NEW c \in Clients, UpdateLinks(c)
  PROVE  /\ rows' = [rows EXCEPT ![call[c].id] = Edited(c, rows[call[c].id])]
         /\ DOMAIN rows' = DOMAIN rows
         /\ \A id \in DOMAIN rows :
              rows'[id] = IF id = call[c].id THEN Edited(c, rows[id]) ELSE rows[id]
         /\ tagNames' = tagNames \cup held[c]
         /\ held'[c] = {}
         /\ nextId' = nextId
         /\ pc[c] = "updateLinks"
<1>1. /\ rows' = [rows EXCEPT ![call[c].id] = Edited(c, rows[call[c].id])]
      /\ tagNames' = tagNames \cup held[c]
      /\ held' = [held EXCEPT ![c] = {}]
      /\ nextId' = nextId
      /\ pc[c] = "updateLinks"
  BY DEF UpdateLinks, Commit, At
<1> QED
  BY <1>1 DEF TypeOK

LEMMA InsertRowTables ==
  ASSUME TypeOK, NEW c \in Clients, InsertRow(c)
  PROVE  \E new \in Nat \ {0} :
           /\ IsNewId(new)
           /\ rows' = [id \in DOMAIN rows \cup {new} |->
                         IF id = new THEN NewRow(c) ELSE rows[id]]
           /\ tagNames' = tagNames \cup held[c]
           /\ held'[c] = {}
           /\ nextId' = nextId + 1
           /\ pc[c] = "insertRow"
           /\ loaded'[c].id = new
<1>1. PICK new \in 1..nextId :
        /\ IsNewId(new)
        /\ Commit(c, [id \in DOMAIN rows \cup {new} |->
                        IF id = new THEN NewRow(c) ELSE rows[id]])
        /\ loaded' = [loaded EXCEPT ![c].id = new]
  BY DEF InsertRow
<1>2. /\ new \in Nat \ {0} /\ pc[c] = "insertRow" /\ nextId' = nextId + 1
      /\ held'[c] = {}
  BY <1>1 DEF InsertRow, At, Commit, TypeOK
<1>3. loaded'[c].id = new
  BY <1>1 DEF TypeOK, View
<1> QED
  BY <1>1, <1>2, <1>3 DEF Commit

\* A name that is inserted is not waiting in any other transaction.
LEMMA InsertTagFacts ==
  ASSUME TypeOK, NEW c \in Clients, InsertTag(c)
  PROVE  \E name \in Tags \ tagNames :
           /\ \A d \in Clients \ {c} : name \notin held[d]
           /\ held'[c] = held[c] \cup {name}
           /\ todo'[c] = todo[c] \ {name}
           /\ pc'[c] = IF todo[c] = {name} THEN WriteOf(c) ELSE "insertTag"
           /\ pc[c] = "insertTag" /\ call'[c] = call[c]
           /\ UNCHANGED <<rows, tagNames, nextId>>
<1>1. PICK name \in todo[c] \ tagNames :
        /\ IsNext(c, name)
        /\ held' = [held EXCEPT ![c] = @ \cup {name}]
        /\ todo' = [todo EXCEPT ![c] = @ \ {name}]
        /\ Goto(c, IF todo[c] = {name} THEN WriteOf(c) ELSE "insertTag")
  BY DEF InsertTag
<1>2. name \in Tags \ tagNames
  BY DEF TypeOK
<1>3. ASSUME NEW d \in Clients \ {c}
      PROVE  name \notin held[d]
  <2>1. pc[c] = "insertTag" /\ ~BlockedBy(c, d)
    BY DEF InsertTag, At, Blocked
  <2>2. CASE Backend = "sqlite"
    BY <2>1, <2>2 DEF BlockedBy, InWriteTransaction, WriteStatements
  <2>3. CASE Backend # "sqlite"
    BY <1>1, <2>1, <2>3 DEF BlockedBy, BlockedByKeyOrRow
  <2> QED
    BY <2>2, <2>3
<1>4. UNCHANGED <<rows, tagNames, nextId, call>> /\ pc[c] = "insertTag"
  BY DEF InsertTag, At, db
<1>5. /\ held'[c] = held[c] \cup {name} /\ todo'[c] = todo[c] \ {name}
      /\ pc'[c] = IF todo[c] = {name} THEN WriteOf(c) ELSE "insertTag"
  BY <1>1 DEF TypeOK, Goto
<1> QED
  BY <1>2, <1>3, <1>4, <1>5

LEMMA EditedTags ==
  ASSUME TypeOK, SessionsOK, TagsConsistent, NamesResolved,
         NEW c \in Clients, pc[c] = "updateLinks", call[c].id \in DOMAIN rows
  PROVE  Edited(c, rows[call[c].id]).tags \subseteq tagNames \cup held[c]
<1>1. rows[call[c].id] \in Row /\ rows[call[c].id].tags \subseteq tagNames
  BY DEF TypeOK, TagsConsistent
<1>2. Linked(c) \subseteq tagNames \cup held[c]
  BY DEF Linked, NamesResolved, NamesOK
<1> QED
  BY <1>1, <1>2, EditedFields

\* Uniqueness of tag names and validity of links survive every step.
LEMMA TagsConsistentStep ==
  ASSUME TypeOK, SessionsOK, TagsConsistent, NamesResolved,
         NEW c \in Clients, Begin(c) \/ Step(c)
  PROVE  TagsConsistent'
<1>1. \A d \in Clients \ {c} : held'[d] = held[d]
  BY OthersUntouched DEF SameSession
<1>2. CASE QuietStep(c)
  <2>1. UNCHANGED <<rows, tagNames>> /\ \A d \in Clients : held'[d] \subseteq held[d]
    BY <1>1, <1>2, QuietTables
  <2> QED
    BY <2>1 DEF TagsConsistent
<1>3. CASE InsertTag(c)
  <2>1. PICK name \in Tags \ tagNames :
          /\ \A d \in Clients \ {c} : name \notin held[d]
          /\ held'[c] = held[c] \cup {name}
          /\ UNCHANGED <<rows, tagNames>>
    BY <1>3, InsertTagFacts
  <2>2. \A d \in Clients : held'[d] \cap tagNames' = {}
    BY <1>1, <2>1 DEF TagsConsistent
  <2>3. \A d, e \in Clients : d # e => held'[d] \cap held'[e] = {}
    BY <1>1, <2>1 DEF TagsConsistent
  <2>4. \A id \in DOMAIN rows' : rows'[id].tags \subseteq tagNames'
    BY <2>1 DEF TagsConsistent
  <2> QED
    BY <2>2, <2>3, <2>4 DEF TagsConsistent
<1>4. CASE InsertRow(c) \/ UpdateLinks(c)
  <2>1. tagNames' = tagNames \cup held[c] /\ held'[c] = {}
    BY <1>4, InsertRowTables, UpdateLinksTables
  <2>2. \A d \in Clients : held'[d] \cap tagNames' = {}
    BY <1>1, <2>1 DEF TagsConsistent
  <2>3. \A d, e \in Clients : d # e => held'[d] \cap held'[e] = {}
    BY <1>1, <2>1 DEF TagsConsistent
  <2>4. ASSUME NEW id \in DOMAIN rows'
        PROVE  rows'[id].tags \subseteq tagNames'
    <3>1. CASE UpdateLinks(c)
      BY <2>1, <2>4, <3>1, UpdateLinksTables, EditedTags DEF TagsConsistent
    <3>2. CASE InsertRow(c)
      <4>1. PICK new : /\ pc[c] = "insertRow"
                       /\ rows' = [i \in DOMAIN rows \cup {new} |->
                                     IF i = new THEN NewRow(c) ELSE rows[i]]
        BY <3>2, InsertRowTables
      <4>2. NewRow(c).tags \subseteq tagNames \cup held[c]
        <5>1. call[c].op = "create"
          BY <4>1 DEF SessionsOK, SessionOK
        <5>2. call[c].tags # Null
          BY <4>1, <5>1, CallFields
        <5> QED
          BY <4>1, <5>2 DEF NamesResolved, NamesOK, NewRow
      <4> QED
        BY <2>1, <2>4, <4>1, <4>2 DEF TagsConsistent
    <3> QED
      BY <1>4, <3>1, <3>2
  <2> QED
    BY <2>2, <2>3, <2>4 DEF TagsConsistent
<1>5. CASE DeleteRow(c)
  <2>1. /\ tagNames' = tagNames /\ held'[c] = {}
        /\ rows' = [id \in DOMAIN rows \ {call[c].id} |-> rows[id]]
    BY <1>5, DeleteRowTables DEF Ended
  <2> QED
    BY <1>1, <2>1 DEF TagsConsistent
<1> QED
  BY <1>2, <1>3, <1>4, <1>5, StepKinds

\* Tags are only ever added.
LEMMA TagsGrow ==
  ASSUME TypeOK, NEW c \in Clients, Begin(c) \/ Step(c)
  PROVE  tagNames \subseteq tagNames'
<1>1. CASE QuietStep(c) \/ InsertTag(c) \/ DeleteRow(c)
  BY <1>1, QuietTables, InsertTagFacts, DeleteRowTables
<1>2. CASE InsertRow(c) \/ UpdateLinks(c)
  BY <1>2, InsertRowTables, UpdateLinksTables
<1> QED
  BY <1>1, <1>2, StepKinds

LEMMA OwnNamesOK ==
  ASSUME TypeOK, SessionsOK, NamesResolved, NEW c \in Clients, Begin(c) \/ Step(c)
  PROVE  NamesOK(c)'
<1>1. CASE Begin(c)
  <2>1. PICK request \in Calls :
          /\ call' = [call EXCEPT ![c] = request]
          /\ Goto(c, IF request.op # "create" THEN "load"
                     ELSE IF request.tags = <<>> THEN "insertRow" ELSE "selectTags")
    BY <1>1 DEF Begin
  <2>2. call'[c] = request
    BY <2>1 DEF TypeOK
  <2>3. pc'[c] = IF request.op # "create" THEN "load"
                 ELSE IF request.tags = <<>> THEN "insertRow" ELSE "selectTags"
    BY <2>1 DEF TypeOK, Goto
  <2>4. Names(<<>>) = {}
    BY DEF Names
  <2> QED
    BY <2>2, <2>3, <2>4 DEF NamesOK
<1>2. CASE Refusal(c) \/ Delivery(c) \/ DeleteRow(c)
  <2>1. pc'[c] = "idle"
    BY <1>2, RefusalEnds, DeliveryEnds, DeleteRowTables DEF Ended
  <2> QED
    BY <2>1 DEF NamesOK
<1>3. CASE LoadRow(c) \/ DeleteLinks(c) \/ LoseRace(c) \/ RefreshRow(c)
  <2>1. pc'[c] \in {"loadTags", "deleteRow", "reread", "refreshTags"}
    BY <1>3 DEF LoadRow, DeleteLinks, LoseRace, RefreshRow, Goto, TypeOK
  <2> QED
    BY <2>1 DEF NamesOK
<1>4. CASE PassPrecondition(c)
  <2>1. pc'[c] = AfterPrecondition(c) /\ call'[c] = call[c]
    BY <1>4 DEF PassPrecondition, Goto, TypeOK
  <2>2. pc'[c] = "updateRow" => call[c].tags \in {Null, <<>>}
    BY <2>1 DEF AfterPrecondition
  <2>3. pc'[c] \in {"deleteRow", "deleteLinks", "updateRow", "selectTags"}
    BY <2>1 DEF AfterPrecondition
  <2>4. Names(<<>>) = {}
    BY DEF Names
  <2> QED
    BY <2>1, <2>2, <2>3, <2>4 DEF NamesOK
<1>5. CASE SelectTags(c)
  <2>1. /\ pc'[c] = IF Missing(c) = {} THEN WriteOf(c) ELSE "insertTag"
        /\ call'[c] = call[c] /\ todo'[c] = Missing(c) /\ tagNames' = tagNames
    BY <1>5 DEF SelectTags, Goto, TypeOK, db
  <2> QED
    BY <2>1 DEF NamesOK, Missing, WriteOf
<1>6. CASE InsertTag(c)
  <2>1. PICK name :
           /\ held'[c] = held[c] \cup {name}
           /\ todo'[c] = todo[c] \ {name}
           /\ pc'[c] = IF todo[c] = {name} THEN WriteOf(c) ELSE "insertTag"
           /\ pc[c] = "insertTag" /\ call'[c] = call[c] /\ tagNames' = tagNames
    BY <1>6, InsertTagFacts
  <2>2. Names(call[c].tags) \subseteq tagNames \cup held[c] \cup todo[c]
    BY <2>1 DEF NamesResolved, NamesOK
  <2> QED
    BY <2>1, <2>2 DEF NamesOK, WriteOf
<1>7. CASE InsertRow(c) \/ UpdateLinks(c)
  <2>1. pc'[c] = "refresh"
    <3>1. CASE InsertRow(c)
      BY <3>1 DEF InsertRow, Goto, TypeOK
    <3>2. CASE UpdateLinks(c)
      BY <3>2 DEF UpdateLinks, Goto, TypeOK
    <3> QED
      BY <1>7, <3>1, <3>2
  <2> QED
    BY <2>1 DEF NamesOK
<1>8. CASE UpdateRow(c)
  <2>1. /\ pc[c] = "updateRow" /\ pc'[c] = "updateLinks"
        /\ call'[c] = call[c] /\ held'[c] = held[c] /\ tagNames' = tagNames
    BY <1>8 DEF UpdateRow, At, Goto, TypeOK, db
  <2> QED
    BY <2>1 DEF NamesOK, NamesResolved
<1> QED
  BY <1>1, <1>2, <1>3, <1>4, <1>5, <1>6, <1>7, <1>8, StepCases

LEMMA NamesStep ==
  ASSUME TypeOK, SessionsOK, NamesResolved, NEW c \in Clients, Begin(c) \/ Step(c)
  PROVE  NamesResolved'
<1>1. ASSUME NEW d \in Clients \ {c}
      PROVE  NamesOK(d)'
  <2>1. SameSession(d) /\ tagNames \subseteq tagNames'
    BY OthersUntouched, TagsGrow
  <2> QED
    BY <2>1 DEF SameSession, NamesResolved, NamesOK
<1> QED
  BY <1>1, OwnNamesOK DEF NamesResolved

\* Every step of a request in flight leaves its answer empty or ends it.
LEMMA UnansweredStep ==
  ASSUME TypeOK, Unanswered, NEW c \in Clients, Begin(c) \/ Step(c)
  PROVE  Unanswered'
<1> DEFINE Ends == \E status, etag : Finish(c, status, etag)
<1>1. CASE Ends
  BY <1>1 DEF Finish, Goto, Unanswered, TypeOK
<1>2. CASE Begin(c)
  BY <1>2 DEF Begin, Goto, Unanswered, TypeOK
<1>3. ASSUME pc[c] # "idle", reply' = reply,
             \A d \in Clients \ {c} : pc'[d] = pc[d]
      PROVE  Unanswered'
  BY <1>3 DEF Unanswered
<1>4. CASE Refusal(c)
  <2>1. Ends
    BY <1>4 DEF Refusal, NotFound, RequirePrecondition, FailPrecondition, TagExists,
                ReportConflict, RefreshGone, DeadlockVictim, LockTimeout, Refuse
  <2> QED
    BY <1>1, <2>1
<1>5. CASE Delivery(c)
  BY <1>1, <1>5 DEF Delivery, ServeGet, ServeWrite, Send
<1>6. CASE DeleteRow(c)
  BY <1>1, <1>6 DEF DeleteRow
<1>7. CASE \/ LoadRow(c) \/ PassPrecondition(c) \/ SelectTags(c) \/ InsertTag(c)
           \/ InsertRow(c) \/ UpdateRow(c) \/ UpdateLinks(c) \/ DeleteLinks(c)
           \/ LoseRace(c) \/ RefreshRow(c)
  <2>1. pc[c] # "idle"
    BY <1>7 DEF LoadRow, PassPrecondition, SelectTags, InsertTag, InsertRow,
                UpdateRow, UpdateLinks, DeleteLinks, LoseRace, RefreshRow, At,
                WriteStatements
  <2>2. reply' = reply
    BY <1>7 DEF LoadRow, PassPrecondition, SelectTags, InsertTag, InsertRow,
                UpdateRow, UpdateLinks, DeleteLinks, LoseRace, RefreshRow
  <2>3. \A d \in Clients \ {c} : pc'[d] = pc[d]
    BY OthersUntouched DEF SameSession
  <2> QED
    BY <1>3, <2>1, <2>2, <2>3
<1> QED
  BY <1>2, <1>4, <1>5, <1>6, <1>7, StepCases

LEMMA TagInvInit == Init => TagInv
<1> SUFFICES ASSUME Init PROVE TagInv
  OBVIOUS
<1>1. TypeOK
  BY InitTypes
<1>2. SessionsOK
  BY DEF Init, SessionsOK, SessionOK, WriteStatements
<1>3. TagsConsistent
  BY DEF Init, TagsConsistent
<1>4. NamesResolved /\ Unanswered
  BY DEF Init, NamesResolved, NamesOK, Unanswered
<1> QED
  BY <1>1, <1>2, <1>3, <1>4 DEF TagInv

LEMMA TagInvStep == TagInv /\ [Next]_vars => TagInv'
<1> SUFFICES ASSUME TagInv, [Next]_vars PROVE TagInv'
  OBVIOUS
<1>1. TypeOK' /\ SessionsOK'
  BY TypeStep, SessionsStep DEF TagInv
<1>2. CASE Crash
  BY <1>1, <1>2, CrashEnds
     DEF TagInv, TagsConsistent, NamesResolved, NamesOK, Unanswered, Ended
<1>3. ASSUME NEW c \in Clients, Begin(c) \/ Step(c)
      PROVE  TagInv'
  BY <1>1, <1>3, TagsConsistentStep, NamesStep, UnansweredStep DEF TagInv
<1>4. CASE UNCHANGED vars
  BY <1>1, <1>4
     DEF TagInv, vars, db, TagsConsistent, NamesResolved, NamesOK, Unanswered
<1> QED
  BY <1>2, <1>3, <1>4 DEF Next

\* Whatever the backend, the calls and the interleaving, every variable keeps
\* its type (Bookmarks as a whole).
THEOREM TypeCorrect == Spec => []TypeOK
<1>1. Spec => []TagInv
  BY TagInvInit, TagInvStep, PTL DEF Spec
<1>2. TagInv => TypeOK
  BY DEF TagInv
<1> QED
  BY <1>1, <1>2, PTL

\* Concurrent get_or_create never duplicates a tag name, and a bookmark is only
\* linked to committed tags (TagRepository and the commits that follow it).
THEOREM TagsAlwaysConsistent == Spec => []TagsConsistent
<1>1. Spec => []TagInv
  BY TagInvInit, TagInvStep, PTL DEF Spec
<1>2. TagInv => TagsConsistent
  BY DEF TagInv
<1> QED
  BY <1>1, <1>2, PTL

-----------------------------------------------------------------------------
(* Versions *)

\* One step leaves a row as it is or gives it the next version.
Kept(id) ==
  /\ id \in DOMAIN rows
  /\ \/ rows'[id] = rows[id]
     \/ /\ rows'[id].version = rows[id].version + 1
        /\ rows'[id].owner = rows[id].owner

\* How the table moves in one step: a used id stays used and is never filled
\* again, and its row is kept as it is or gets the next version.
Forward ==
  /\ \A id \in Nat : Used(id) => Used(id)'
  /\ \A id \in DOMAIN rows' :
       /\ Used(id)'
       /\ \/ ~Used(id)
          \/ /\ id \in DOMAIN rows
             /\ \/ rows'[id] = rows[id]
                \/ /\ rows'[id].version = rows[id].version + 1
                   /\ rows'[id].owner = rows[id].owner

\* A new id is not used, neither one of the sequence nor a row id.
LEMMA NewIdUnused ==
  ASSUME TypeOK, NEW new \in Nat \ {0}, IsNewId(new)
  PROVE  ~Used(new)
<1>1. CASE Backend = "sqlite"
  <2>1. \A other \in DOMAIN rows : other < new /\ other \in Nat
    BY <1>1 DEF IsNewId, IsNextRowId, TypeOK
  <2> QED
    BY <1>1, <2>1 DEF Used
<1>2. CASE Backend # "sqlite"
  BY <1>2 DEF IsNewId, Used, TypeOK
<1> QED
  BY <1>1, <1>2

LEMMA RowsAreUsed ==
  ASSUME TypeOK, RowsFresh, NEW new \in Nat \ {0}, IsNewId(new)
  PROVE  new \notin DOMAIN rows
BY NewIdUnused DEF RowsFresh

\* Ids stay used while the sequence runs and the newest row stays.
LEMMA UsedStays ==
  ASSUME TypeOK, TypeOK', NoReturn, nextId <= nextId', NEW id \in Nat, Used(id)
  PROVE  Used(id)'
<1>1. CASE Backend = "sqlite" /\ id # 0
  <2>1. PICK other \in DOMAIN rows : id <= other
    BY <1>1 DEF Used
  <2>2. CASE other \in DOMAIN rows'
    BY <1>1, <2>1, <2>2 DEF Used
  <2>3. CASE other \notin DOMAIN rows'
    <3>1. PICK newer \in DOMAIN rows' : other < newer
      BY <1>1, <2>3 DEF NoReturn
    <3>2. other \in Nat /\ newer \in Nat
      BY <3>1 DEF TypeOK
    <3> QED
      BY <1>1, <2>1, <3>1, <3>2 DEF Used
  <2> QED
    BY <2>2, <2>3
<1>2. CASE Backend # "sqlite"
  BY <1>2 DEF Used, TypeOK
<1>3. CASE id = 0
  BY <1>3 DEF Used
<1> QED
  BY <1>1, <1>2, <1>3

\* Rows are inserted under new ids, edited by who has locked them, or deleted.
LEMMA StepKeepsRows ==
  ASSUME TypeOK, TypeOK', SessionsOK, LocksOK,
         NEW c \in Clients, Begin(c) \/ Step(c)
  PROVE  /\ nextId <= nextId'
         /\ \A id \in DOMAIN rows' : Kept(id) \/ (~Used(id) /\ Used(id)')
<1> USE DEF Kept
<1>1. CASE QuietStep(c) \/ InsertTag(c)
  <2>1. UNCHANGED <<rows, nextId>>
    BY <1>1, QuietTables, InsertTagFacts
  <2> QED
    BY <2>1 DEF TypeOK
<1>2. CASE InsertRow(c)
  <2>1. PICK new \in Nat \ {0} :
           /\ IsNewId(new)
           /\ rows' = [id \in DOMAIN rows \cup {new} |->
                         IF id = new THEN NewRow(c) ELSE rows[id]]
           /\ nextId' = nextId + 1
    BY <1>2, InsertRowTables
  <2>2. ~Used(new)
    BY <2>1, NewIdUnused
  <2>3. Used(new)'
    BY <2>1 DEF Used, IsNewId, TypeOK
  <2>4. \A id \in DOMAIN rows' : id = new \/ (id \in DOMAIN rows /\ (id # new => rows'[id] = rows[id]))
    BY <2>1
  <2> QED
    BY <2>1, <2>2, <2>3, <2>4 DEF TypeOK
<1>3. CASE UpdateLinks(c)
  <2>1. /\ DOMAIN rows' = DOMAIN rows /\ nextId' = nextId
        /\ \A id \in DOMAIN rows :
             rows'[id] = IF id = call[c].id THEN Edited(c, rows[id]) ELSE rows[id]
        /\ pc[c] = "updateLinks"
    BY <1>3, UpdateLinksTables
  <2>2. SameVersion(c)
    BY <2>1 DEF LocksOK
  <2>3. /\ Edited(c, rows[call[c].id]).version = rows[call[c].id].version + 1
        /\ Edited(c, rows[call[c].id]).owner = rows[call[c].id].owner
    BY <2>1, <2>2, EditedFields DEF SameVersion, Exists, TypeOK
  <2> QED
    BY <2>1, <2>3 DEF TypeOK
<1>4. CASE DeleteRow(c)
  <2>1. nextId' = nextId /\ rows' = [id \in DOMAIN rows \ {call[c].id} |-> rows[id]]
    BY <1>4, DeleteRowTables
  <2>2. /\ DOMAIN rows' \subseteq DOMAIN rows
        /\ \A id \in DOMAIN rows' : rows'[id] = rows[id]
    BY <2>1
  <2> QED
    BY <2>1, <2>2 DEF TypeOK
<1> QED
  BY <1>1, <1>2, <1>3, <1>4, StepKinds

LEMMA StepForward ==
  ASSUME NoReturn, TypeOK, TypeOK', SessionsOK, RowsFresh, LocksOK,
         NEW c \in Clients, Begin(c) \/ Step(c)
  PROVE  Forward
<1>1. /\ nextId <= nextId'
      /\ \A id \in DOMAIN rows' : Kept(id) \/ (~Used(id) /\ Used(id)')
  BY StepKeepsRows
<1>2. \A id \in Nat : Used(id) => Used(id)'
  BY <1>1, UsedStays
<1>3. ASSUME NEW id \in DOMAIN rows'
      PROVE  Used(id)' /\ (~Used(id) \/ Kept(id))
  <2>1. Kept(id) => Used(id) /\ id \in Nat
    BY DEF Kept, RowsFresh, TypeOK
  <2> QED
    BY <1>1, <1>2, <2>1
<1> QED
  BY <1>2, <1>3 DEF Forward, Kept

\* The rows there are stay behind the sequence, or the newest of them.
LEMMA RowsFreshStep ==
  ASSUME TypeOK, TypeOK', SessionsOK, RowsFresh, LocksOK,
         NEW c \in Clients, Begin(c) \/ Step(c)
  PROVE  RowsFresh'
<1> SUFFICES ASSUME NEW id \in DOMAIN rows' PROVE Used(id)'
  BY DEF RowsFresh
<1>1. /\ nextId <= nextId' /\ nextId \in Nat /\ nextId' \in Nat /\ id \in Nat
      /\ Kept(id) \/ Used(id)'
  BY StepKeepsRows DEF TypeOK
<1>2. CASE Kept(id)
  <2>1. id \in DOMAIN rows /\ Used(id)
    BY <1>2 DEF Kept, RowsFresh
  <2> QED
    BY <1>1, <2>1 DEF Used
<1> QED
  BY <1>1, <1>2

\* A view that was older than the table or the same stays so.
LEMMA ViewForward ==
  ASSUME TypeOK, Forward, NEW view \in View, Used(view.id), OlderOrSame(view, rows)
  PROVE  OlderOrSame(view, rows')
<1> SUFFICES ASSUME view.id \in DOMAIN rows'
             PROVE  /\ view.version <= rows'[view.id].version
                    /\ view.version = rows'[view.id].version =>
                         SameContent(view, rows'[view.id])
  BY DEF OlderOrSame
<1>1. view.id \in Nat /\ view.version \in Nat
  BY DEF View
<1>2. /\ view.id \in DOMAIN rows
      /\ \/ rows'[view.id] = rows[view.id]
         \/ rows'[view.id].version = rows[view.id].version + 1
  BY <1>1 DEF Forward
<1>3. rows[view.id].version \in Nat
  BY <1>2 DEF TypeOK, Row
<1> QED
  BY <1>1, <1>2, <1>3 DEF OlderOrSame

\* With its tags loaded, a view is older than the table or the same.
LEMMA WithTagsOlder ==
  ASSUME TypeOK, NEW c \in Clients, LoadedOK(c), pc[c] \in {"loadTags", "refreshTags"}
  PROVE  OlderOrSame(WithTags(c), rows)
BY WithTagsType DEF LoadedOK, OlderOrSame, SameContent, LinksOf, Exists

\* What a step tells its client is unchanged or the view with its tags loaded.
LEMMA SeenStep ==
  ASSUME TypeOK, NEW c \in Clients, Begin(c) \/ Step(c)
  PROVE  \/ seen'[c] = seen[c]
         \/ seen'[c] = WithTags(c) /\ pc[c] \in {"loadTags", "refreshTags"}
<1>1. CASE Refusal(c)
  BY <1>1, RefusalEnds
<1>2. CASE Delivery(c)
  BY <1>2, DeliveryEnds DEF Delivery, ServeGet, ServeWrite, At
<1>3. CASE DeleteRow(c)
  BY <1>3, DeleteRowTables
<1>4. CASE \/ Begin(c) \/ LoadRow(c) \/ PassPrecondition(c) \/ SelectTags(c)
           \/ InsertTag(c) \/ InsertRow(c) \/ UpdateRow(c) \/ UpdateLinks(c)
           \/ DeleteLinks(c) \/ LoseRace(c) \/ RefreshRow(c)
  BY <1>4 DEF Begin, LoadRow, PassPrecondition, SelectTags, InsertTag, InsertRow,
              UpdateRow, UpdateLinks, DeleteLinks, LoseRace, RefreshRow
<1> QED
  BY <1>1, <1>2, <1>3, <1>4, StepCases

\* An object is loaded under an id of the table, or keeps the one it had.
LEMMA LoadedIds ==
  ASSUME TypeOK, NEW c \in Clients, Begin(c) \/ Step(c)
  PROVE  loaded'[c].id \in {0, loaded[c].id} \cup DOMAIN rows \cup DOMAIN rows'
<1>1. CASE Refusal(c) \/ Delivery(c) \/ DeleteRow(c)
  <2>1. loaded'[c] = NoView
    BY <1>1, RefusalEnds, DeliveryEnds, DeleteRowTables DEF Ended
  <2> QED
    BY <2>1 DEF NoView
<1>2. CASE \/ Begin(c) \/ SelectTags(c) \/ InsertTag(c) \/ UpdateRow(c)
           \/ UpdateLinks(c) \/ DeleteLinks(c) \/ LoseRace(c)
  BY <1>2 DEF Begin, SelectTags, InsertTag, UpdateRow, UpdateLinks, DeleteLinks,
              LoseRace
<1>3. CASE LoadRow(c)
  <2>1. loaded'[c] = ViewOf(call[c].id) /\ call[c].id \in DOMAIN rows
    BY <1>3 DEF LoadRow, Owned, Exists, TypeOK
  <2> QED
    BY <2>1, ViewOfType
<1>4. CASE PassPrecondition(c)
  <2>1. loaded'[c] = WithTags(c)
    BY <1>4 DEF PassPrecondition, TypeOK
  <2> QED
    BY <2>1, WithTagsType
<1>5. CASE InsertRow(c)
  BY <1>5, InsertRowTables
<1>6. CASE RefreshRow(c)
  <2>1. loaded'[c] = ViewOf(loaded[c].id) /\ loaded[c].id \in DOMAIN rows
    BY <1>6 DEF RefreshRow, Exists, TypeOK
  <2> QED
    BY <2>1, ViewOfType
<1> QED
  BY <1>1, <1>2, <1>3, <1>4, <1>5, <1>6, StepCases

LEMMA IdsFreshStep ==
  ASSUME TypeOK, TypeOK', IdsFresh, Forward, NEW c \in Clients, Begin(c) \/ Step(c)
  PROVE  IdsFresh'
<1>1. \A id \in Nat : Used(id) => Used(id)'
  BY DEF Forward
<1>2. \A id \in DOMAIN rows' : Used(id)'
  BY DEF Forward
<1>3. \A d \in Clients : seen[d].id \in Nat /\ loaded[d].id \in Nat
  BY DEF TypeOK, View
<1>4. \A id \in DOMAIN rows : id \in Nat /\ Used(id)
  BY DEF TypeOK, IdsFresh, RowsFresh
<1>5. \A d \in Clients : \A id \in Nat :
        /\ id = seen'[d].id /\ Used(id)' => Used(seen[d].id)'
        /\ id = loaded'[d].id /\ Used(id)' => Used(loaded[d].id)'
  BY DEF Used
<1>6. \E id \in Nat : id = seen'[c].id /\ Used(id)'
  <2>1. seen'[c].id \in {seen[c].id, loaded[c].id}
    BY SeenStep, WithTagsType
  <2> QED
    BY <1>1, <1>3, <2>1 DEF IdsFresh, RowsFresh
<1>7. \E id \in Nat : id = loaded'[c].id /\ Used(id)'
  <2>1. loaded'[c].id \in {0, loaded[c].id} \cup DOMAIN rows \cup DOMAIN rows'
    BY LoadedIds
  <2>2. \A id \in {0, loaded[c].id} \cup DOMAIN rows : id \in Nat /\ Used(id)
    BY <1>3, <1>4 DEF IdsFresh, RowsFresh, Used
  <2>3. \A id \in DOMAIN rows' : id \in Nat /\ Used(id)'
    BY <1>2 DEF TypeOK
  <2> QED
    BY <1>1, <2>1, <2>2, <2>3
<1>8. ASSUME NEW d \in Clients \ {c}
      PROVE  Used(seen[d].id)' /\ Used(loaded[d].id)'
  <2>1. seen'[d] = seen[d] /\ loaded'[d] = loaded[d]
    BY OthersUntouched DEF SameSession
  <2>2. Used(seen[d].id) /\ Used(loaded[d].id)
    BY DEF IdsFresh, RowsFresh
  <2> QED
    BY <1>1, <1>3, <1>5, <2>1, <2>2
<1>9. Used(seen[c].id)' /\ Used(loaded[c].id)'
  BY <1>5, <1>6, <1>7
<1> QED
  BY <1>2, <1>8, <1>9 DEF IdsFresh, RowsFresh

LEMMA SeenContentStep ==
  ASSUME TypeOK, IdsFresh, Forward, HeldETagNamesSeenContent,
         \A c \in Clients : LoadedOK(c),
         NEW c \in Clients, Begin(c) \/ Step(c)
  PROVE  HeldETagNamesSeenContent'
<1>1. \A d \in Clients : seen[d] \in View /\ Used(seen[d].id)
  BY DEF TypeOK, IdsFresh, RowsFresh
<1>2. ASSUME NEW d \in Clients, seen'[d] = seen[d]
      PROVE  OlderOrSame(seen'[d], rows')
  BY <1>1, <1>2, ViewForward DEF HeldETagNamesSeenContent
<1>3. ASSUME seen'[c] = WithTags(c), pc[c] \in {"loadTags", "refreshTags"}
      PROVE  OlderOrSame(seen'[c], rows')
  <2>1. WithTags(c) \in View /\ Used(WithTags(c).id)
    BY WithTagsType DEF IdsFresh, RowsFresh
  <2>2. OlderOrSame(WithTags(c), rows)
    BY <1>3, WithTagsOlder
  <2> QED
    BY <1>3, <2>1, <2>2, ViewForward
<1>4. \A d \in Clients \ {c} : seen'[d] = seen[d]
  BY OthersUntouched DEF SameSession
<1> QED
  BY <1>2, <1>3, <1>4, SeenStep DEF HeldETagNamesSeenContent

\* The session that moves: what it has loaded when it reaches a statement.
LEMMA OwnLoadedOK ==
  ASSUME TypeOK, SessionsOK, LocksOK,
         NEW c \in Clients, LoadedOK(c), Begin(c) \/ Step(c)
  PROVE  LoadedOK(c)'
<1>1. CASE \/ Refusal(c) \/ Delivery(c) \/ DeleteRow(c) \/ InsertRow(c)
           \/ UpdateLinks(c)
  <2>1. InsertRow(c) \/ UpdateLinks(c) => Goto(c, "refresh")
    BY Zenon DEF InsertRow, UpdateLinks
  <2>2. Refusal(c) \/ Delivery(c) \/ DeleteRow(c) => Ended(c)
    BY RefusalEnds, DeliveryEnds, DeleteRowTables
  <2>3. pc'[c] \in {"idle", "refresh"}
    BY <1>1, <2>1, <2>2 DEF Ended, Goto, TypeOK
  <2> QED
    BY <2>3 DEF LoadedOK, WriteStatements
<1>2. CASE Begin(c)
  <2>1. loaded'[c] = NoView /\ rows' = rows
    BY <1>2 DEF Begin, SessionsOK, SessionOK, db
  <2>2. pc'[c] \in {"load", "insertRow", "selectTags"}
    BY <1>2 DEF Begin, Goto, TypeOK
  <2>3. 0 \notin DOMAIN rows
    BY DEF TypeOK
  <2> QED
    BY <2>1, <2>2, <2>3 DEF LoadedOK, OlderOrSame, NoView, WriteStatements
<1>3. CASE LoadRow(c) \/ RefreshRow(c)
  <2>1. /\ pc'[c] \in {"loadTags", "refreshTags"} /\ rows' = rows
        /\ \E id \in DOMAIN rows : loaded'[c] = ViewOf(id)
    BY <1>3 DEF LoadRow, RefreshRow, Goto, Owned, Exists, db, TypeOK
  <2>2. PICK id \in DOMAIN rows : loaded'[c] = ViewOf(id)
    BY <2>1
  <2>3. /\ loaded'[c].id = id /\ loaded'[c].version = rows[id].version
        /\ loaded'[c].body = rows[id].body /\ rows[id].version \in Nat
    BY <2>2, ViewOfType DEF TypeOK, Row
  <2> QED
    BY <2>1, <2>3 DEF LoadedOK, WriteStatements
<1>4. CASE PassPrecondition(c)
  <2>1. loaded'[c] = WithTags(c) /\ rows' = rows /\ pc[c] = "loadTags"
    BY <1>4 DEF PassPrecondition, At, db, TypeOK
  <2>2. pc'[c] \in {"deleteRow", "deleteLinks", "updateRow", "selectTags"}
    BY <1>4 DEF PassPrecondition, AfterPrecondition, Goto, TypeOK
  <2>3. OlderOrSame(WithTags(c), rows)
    BY <2>1, WithTagsOlder
  <2> QED
    BY <2>1, <2>2, <2>3 DEF LoadedOK
<1>5. CASE \/ SelectTags(c) \/ InsertTag(c) \/ UpdateRow(c) \/ DeleteLinks(c)
  <2>1. loaded'[c] = loaded[c] /\ rows' = rows
    BY <1>5 DEF SelectTags, InsertTag, UpdateRow, DeleteLinks, db
  <2>2. pc[c] \in WriteStatements \cup {"selectTags"}
    BY <1>5 DEF SelectTags, InsertTag, UpdateRow, DeleteLinks, At, WriteStatements
  <2>3. pc'[c] \in WriteStatements
    BY <1>5 DEF SelectTags, InsertTag, UpdateRow, DeleteLinks, WriteOf, Goto,
                WriteStatements, TypeOK
  <2> QED
    BY <2>1, <2>2, <2>3 DEF LoadedOK, WriteStatements
<1>6. CASE LoseRace(c)
  <2>1. /\ loaded'[c] = loaded[c] /\ rows' = rows /\ pc'[c] = "reread"
        /\ pc[c] \in WriteStatements /\ Stale(c)
    BY <1>6 DEF LoseRace, Goto, db, TypeOK
  <2>2. pc[c] \in {"updateRow", "updateLinks", "deleteLinks", "deleteRow"}
    BY <2>1 DEF Stale
  <2>3. loaded[c].id = call[c].id
    BY <2>2 DEF SessionsOK, SessionOK, WriteStatements
  <2>4. OlderOrSame(loaded[c], rows)
    BY <2>2 DEF LoadedOK, WriteStatements
  <2>5. SUFFICES ASSUME loaded[c].id \in DOMAIN rows
                 PROVE  loaded[c].version < rows[loaded[c].id].version
    BY <2>1 DEF LoadedOK, Exists, WriteStatements
  <2>6. loaded[c].version \in Nat /\ rows[loaded[c].id].version \in Nat
    BY <2>5 DEF TypeOK, View, Row
  <2>7. loaded[c].version # rows[loaded[c].id].version
    <3>1. SUFFICES ASSUME loaded[c].version = rows[loaded[c].id].version
                   PROVE  FALSE
      OBVIOUS
    <3>2. LinksOf(call[c].id) = loaded[c].tags /\ SameVersion(c)
      BY <2>3, <2>4, <2>5, <3>1
         DEF OlderOrSame, SameContent, LinksOf, Exists, SameVersion
    <3> QED
      BY <2>1, <3>2 DEF Stale, Unlinked, Linked
  <2> QED
    BY <2>4, <2>5, <2>6, <2>7 DEF OlderOrSame
<1> QED
  BY <1>1, <1>2, <1>3, <1>4, <1>5, <1>6, StepCases

\* The other sessions: the table moves under what they have loaded.
LEMMA OtherLoadedOK ==
  ASSUME TypeOK, IdsFresh, Forward, NEW d \in Clients, LoadedOK(d), SameSession(d)
  PROVE  LoadedOK(d)'
<1>1. /\ loaded[d] \in View /\ Used(loaded[d].id)
      /\ loaded'[d] = loaded[d] /\ pc'[d] = pc[d]
  BY DEF TypeOK, IdsFresh, RowsFresh, SameSession
<1>2. OlderOrSame(loaded[d], rows) => OlderOrSame(loaded'[d], rows')
  BY <1>1, ViewForward
<1>3. ASSUME loaded[d].id \in DOMAIN rows'
      PROVE  /\ loaded[d].id \in DOMAIN rows
             /\ \/ rows'[loaded[d].id] = rows[loaded[d].id]
                \/ rows'[loaded[d].id].version = rows[loaded[d].id].version + 1
             /\ rows[loaded[d].id].version \in Nat /\ loaded[d].version \in Nat
  BY <1>1, <1>3 DEF Forward, TypeOK, View, Row
<1> QED
  BY <1>1, <1>2, <1>3 DEF LoadedOK, Exists

\* Only the UPDATE of its row brings a session to its links.
LEMMA ReachesLinks ==
  ASSUME TypeOK, NEW c \in Clients, Begin(c) \/ Step(c), pc'[c] = "updateLinks"
  PROVE  UpdateRow(c)
<1>1. Refusal(c) \/ Delivery(c) \/ DeleteRow(c) => Ended(c)
  BY RefusalEnds, DeliveryEnds, DeleteRowTables
<1>2. InsertRow(c) \/ UpdateLinks(c) => Goto(c, "refresh")
  BY Zenon DEF InsertRow, UpdateLinks
<1>3. CASE Begin(c) \/ SelectTags(c)
  BY <1>3 DEF Begin, SelectTags, WriteOf, Goto, TypeOK
<1>4. CASE InsertTag(c)
  BY <1>4, InsertTagFacts DEF WriteOf
<1>5. CASE LoadRow(c) \/ RefreshRow(c) \/ DeleteLinks(c) \/ LoseRace(c)
  BY <1>5 DEF LoadRow, RefreshRow, DeleteLinks, LoseRace, Goto, TypeOK
<1>6. CASE PassPrecondition(c)
  BY <1>6 DEF PassPrecondition, AfterPrecondition, Goto, TypeOK
<1> QED
  BY <1>1, <1>2, <1>3, <1>4, <1>5, <1>6, StepCases DEF Ended, Goto, TypeOK

\* No step of another session touches the row a session has updated: a writer
\* of the same row waits for its commit, and a new row has another id.
LEMMA RowLocked ==
  ASSUME TypeOK, SessionsOK, RowsFresh, LocksOK,
         NEW c \in Clients, Begin(c) \/ Step(c),
         NEW d \in Clients \ {c}, pc[d] = "updateLinks"
  PROVE  /\ call[d].id \in DOMAIN rows
         /\ call[d].id \in DOMAIN rows'
         /\ rows'[call[d].id] = rows[call[d].id]
<1>1. call[d].id \in DOMAIN rows
  BY DEF LocksOK, SameVersion, Exists
<1>2. CASE QuietStep(c) \/ InsertTag(c)
  BY <1>1, <1>2, QuietTables, InsertTagFacts
<1>3. CASE InsertRow(c)
  <2>1. PICK new \in Nat \ {0} :
           /\ IsNewId(new)
           /\ rows' = [id \in DOMAIN rows \cup {new} |->
                         IF id = new THEN NewRow(c) ELSE rows[id]]
    BY <1>3, InsertRowTables
  <2>2. call[d].id # new
    BY <1>1, <2>1, RowsAreUsed
  <2> QED
    BY <1>1, <2>1, <2>2
<1>4. CASE UpdateLinks(c)
  <2>1. call[c].id # call[d].id
    BY <1>4, UpdateLinksTables DEF LocksOK, SameRow
  <2> QED
    BY <1>1, <1>4, <2>1, UpdateLinksTables
<1>5. CASE DeleteRow(c)
  <2>1. pc[c] = "deleteRow" /\ ~BlockedBy(c, d)
    BY <1>5 DEF DeleteRow, At, Blocked
  <2>2. call[c].id # call[d].id
    BY <2>1 DEF BlockedBy, BlockedByKeyOrRow, InWriteTransaction, WriteStatements, SameRow
  <2>3. rows' = [id \in DOMAIN rows \ {call[c].id} |-> rows[id]]
    BY <1>5, DeleteRowTables
  <2> QED
    BY <1>1, <2>2, <2>3
<1> QED
  BY <1>2, <1>3, <1>4, <1>5, StepKinds

LEMMA LocksStep ==
  ASSUME TypeOK, SessionsOK, RowsFresh, LocksOK,
         NEW c \in Clients, Begin(c) \/ Step(c)
  PROVE  LocksOK'
<1>1. \A d \in Clients \ {c} :
        pc'[d] = pc[d] /\ call'[d] = call[d] /\ loaded'[d] = loaded[d]
  BY OthersUntouched DEF SameSession
<1>2. ASSUME NEW d \in Clients \ {c}, pc'[d] = "updateLinks"
      PROVE  SameVersion(d)'
  <2>1. /\ call[d].id \in DOMAIN rows'
        /\ rows'[call[d].id] = rows[call[d].id]
    BY <1>1, <1>2, RowLocked
  <2>2. SameVersion(d)
    BY <1>1, <1>2 DEF LocksOK
  <2> QED
    BY <1>1, <2>1, <2>2 DEF SameVersion, Exists
<1>3. ASSUME pc'[c] = "updateLinks"
      PROVE  /\ SameVersion(c)'
             /\ \A d \in Clients \ {c} : pc'[d] = "updateLinks" => ~SameRow(c, d)'
  <2>1. UpdateRow(c)
    BY <1>3, ReachesLinks
  <2>2. /\ pc[c] = "updateRow" /\ SameVersion(c) /\ rows' = rows
        /\ call' = call /\ loaded' = loaded
        /\ \A d \in Clients : ~BlockedBy(c, d)
    BY <2>1 DEF UpdateRow, At, Stale, Blocked, db
  <2>3. SameVersion(c)'
    BY <2>2 DEF SameVersion, Exists
  <2>4. ASSUME NEW d \in Clients \ {c}, pc'[d] = "updateLinks"
        PROVE  ~SameRow(c, d)'
    <3>1. pc[d] = "updateLinks" /\ ~SameRow(c, d)
      BY <1>1, <2>2, <2>4
         DEF BlockedBy, BlockedByKeyOrRow, InWriteTransaction, WriteStatements
    <3> QED
      BY <2>2, <3>1 DEF SameRow
  <2> QED
    BY <2>3, <2>4
<1>4. ASSUME NEW d \in Clients \ {c}, NEW e \in Clients \ {c}, d # e,
             pc'[d] = "updateLinks", pc'[e] = "updateLinks"
      PROVE  ~SameRow(d, e)'
  BY <1>1, <1>4 DEF LocksOK, SameRow
<1>5. \A d, e \in Clients : SameRow(d, e)' => SameRow(e, d)'
  BY DEF SameRow
<1> QED
  BY <1>2, <1>3, <1>4, <1>5 DEF LocksOK

-----------------------------------------------------------------------------
(* Rows under way, whether ids return or not *)

LEMMA LocksInvInit == Init => LocksInv
<1>1. Init => RowsFresh /\ LocksOK
  BY StoredAssumption, BackendAssumption DEF Init, RowsFresh, Used, LocksOK
<1> QED
  BY <1>1, TagInvInit DEF LocksInv

LEMMA LocksInvStep ==
  ASSUME LocksInv, [Next]_vars
  PROVE  LocksInv'
<1>1. TagInv' /\ TypeOK /\ TypeOK' /\ SessionsOK /\ RowsFresh /\ LocksOK
  BY TagInvStep DEF LocksInv, TagInv
<1>2. CASE UNCHANGED vars
  BY <1>1, <1>2 DEF vars, db, LocksInv, RowsFresh, Used, LocksOK, SameVersion, SameRow, Exists
<1>3. CASE Crash
  <2>1. UNCHANGED <<rows, nextId>> /\ \A c \in Clients : pc'[c] = "idle"
    BY <1>3 DEF Crash, db
  <2> QED
    BY <1>1, <2>1 DEF LocksInv, RowsFresh, Used, LocksOK
<1>4. ASSUME NEW c \in Clients, Begin(c) \/ Step(c)
      PROVE  LocksInv'
  BY <1>1, <1>4, RowsFreshStep, LocksStep DEF LocksInv
<1> QED
  BY <1>2, <1>3, <1>4 DEF Next

LEMMA EditStep ==
  ASSUME LocksInv, [Next]_vars
  PROVE  [EditsMoveVersions]_vars
<1> SUFFICES ASSUME NEW id \in DOMAIN rows \cap DOMAIN rows', rows'[id] # rows[id]
             PROVE  /\ rows'[id].version = rows[id].version + 1
                    /\ rows'[id].owner = rows[id].owner
  BY DEF EditsMoveVersions
<1>1. PICK c \in Clients : Begin(c) \/ Step(c)
  BY DEF Next, Crash, vars, db
<1>2. Kept(id) \/ ~Used(id)
  BY <1>1, TypeStep, StepKeepsRows DEF LocksInv, TagInv
<1> QED
  BY <1>2 DEF Kept, LocksInv, RowsFresh

\* Every edit that is committed moves the ETag on by one step, one that changes
\* the tags alone included, and leaves the owner, on either database and also
\* where ids return (BookmarkRepository.update and the version column): from
\* UPDATE to COMMIT the row is this session's alone, and still of the version
\* that its WHERE clause names.
THEOREM EditsMoveTheETag == Spec => EveryEditMovesTheETag
<1>1. Spec => []LocksInv
  BY LocksInvInit, LocksInvStep, PTL DEF Spec
<1>2. LocksInv /\ [Next]_vars => [EditsMoveVersions]_vars
  BY EditStep
<1> QED
  BY <1>1, <1>2, PTL DEF Spec, EveryEditMovesTheETag

-----------------------------------------------------------------------------
(* The inductive invariant, as long as no id returns *)

LEMMA VersionInvInit == Init => VersionInv
<1> SUFFICES ASSUME Init PROVE VersionInv
  OBVIOUS
<1>1. IdsFresh
  BY StoredAssumption, BackendAssumption DEF Init, IdsFresh, RowsFresh, Used, NoView
<1>2. 0 \notin DOMAIN rows
  BY StoredAssumption DEF Init
<1>3. HeldETagNamesSeenContent
  BY <1>2 DEF Init, HeldETagNamesSeenContent, OlderOrSame, NoView
<1>4. LocksOK /\ \A c \in Clients : LoadedOK(c)
  BY DEF Init, LocksOK, LoadedOK, WriteStatements
<1> QED
  BY <1>1, <1>3, <1>4 DEF VersionInv

\* A step that changes nothing brings no id back.
LEMMA StillNoReturn ==
  ASSUME [NoReturn]_vars
  PROVE  NoReturn
BY DEF NoReturn, vars, db

LEMMA VersionInvStep ==
  ASSUME InductiveInvariant, [Next]_vars, [NoReturn]_vars
  PROVE  VersionInv'
<1> USE DEF InductiveInvariant, TagInv, VersionInv
<1>1. TypeOK /\ TypeOK' /\ SessionsOK
  BY TypeStep
<1>2. CASE UNCHANGED vars
  BY <1>2 DEF vars, db, IdsFresh, RowsFresh, Used, HeldETagNamesSeenContent, LocksOK, LoadedOK,
              SameVersion, SameRow, Exists
<1>3. CASE Crash
  <2>1. /\ \A c \in Clients : pc'[c] = "idle" /\ loaded'[c] = NoView
        /\ UNCHANGED <<rows, nextId, seen>>
    BY <1>3 DEF Crash, db
  <2>2. nextId \in Nat \ {0}
    BY DEF TypeOK
  <2>3. IdsFresh' /\ HeldETagNamesSeenContent'
    BY <2>1, <2>2 DEF IdsFresh, RowsFresh, Used, HeldETagNamesSeenContent, NoView
  <2>4. LocksOK' /\ \A c \in Clients : LoadedOK(c)'
    BY <2>1 DEF LocksOK, LoadedOK, WriteStatements
  <2> QED
    BY <2>3, <2>4
<1>4. ASSUME NEW c \in Clients, Begin(c) \/ Step(c)
      PROVE  VersionInv'
  <2>1. NoReturn
    BY StillNoReturn
  <2>2. Forward
    BY <1>1, <1>4, <2>1, StepForward DEF IdsFresh
  <2>3. IdsFresh'
    BY <1>1, <1>4, <2>1, <2>2, IdsFreshStep
  <2>4. HeldETagNamesSeenContent'
    BY <1>1, <1>4, <2>2, SeenContentStep
  <2>5. LocksOK'
    BY <1>1, <1>4, LocksStep DEF IdsFresh
  <2>6. LoadedOK(c)'
    BY <1>1, <1>4, OwnLoadedOK
  <2>7. \A d \in Clients \ {c} : LoadedOK(d)'
    BY <1>1, <1>4, <2>2, OthersUntouched, OtherLoadedOK
  <2> QED
    BY <2>3, <2>4, <2>5, <2>6, <2>7
<1> QED
  BY <1>2, <1>3, <1>4 DEF Next

\* A sequence never returns to an id.
LEMMA SequencesNeverReturn ==
  ASSUME Backend = "postgresql"
  PROVE  Spec => IdsNeverReturn
<1>1. [Next]_vars => [NoReturn]_vars
  BY DEF NoReturn
<1> QED
  BY <1>1, PTL DEF Spec, IdsNeverReturn

\* The invariant behind the results about versions: it is inductive, for any
\* number of clients, calls, tags and requests (Bookmarks as a whole), on
\* PostgreSQL, and on SQLite for as long as the newest bookmark is not deleted.
THEOREM SessionsKnowTheirRows ==
  Spec /\ IdsNeverReturn => []InductiveInvariant
<1>1. Init => InductiveInvariant
  BY TagInvInit, VersionInvInit DEF InductiveInvariant
<1>2. InductiveInvariant /\ [Next]_vars /\ [NoReturn]_vars => InductiveInvariant'
  BY TagInvStep, VersionInvStep DEF InductiveInvariant
<1> QED
  BY <1>1, <1>2, PTL DEF Spec, IdsNeverReturn

\* While the ETag a client was sent is the one stored, what is stored is what
\* the client was sent, tags included, although BookmarkService.get reads the
\* row and its tags with two statements.
THEOREM HeldETagIsContent ==
  Spec /\ IdsNeverReturn => []HeldETagNamesSeenContent
<1>1. Spec /\ IdsNeverReturn => []InductiveInvariant
  BY SessionsKnowTheirRows
<1>2. InductiveInvariant => HeldETagNamesSeenContent
  BY DEF InductiveInvariant, VersionInv
<1> QED
  BY <1>1, <1>2, PTL

\* The id of a new bookmark is not used, what is loaded or was sent is.
LEMMA NewIdsStep ==
  ASSUME InductiveInvariant, [Next]_vars, [NoReturn]_vars
  PROVE  [NewIdsAreUnknown]_vars
<1> SUFFICES ASSUME NEW id \in DOMAIN rows' \ DOMAIN rows, NEW c \in Clients
             PROVE  id # seen[c].id /\ id # loaded[c].id
  BY DEF NewIdsAreUnknown
<1>1. PICK d \in Clients : Begin(d) \/ Step(d)
  BY DEF Next, Crash, vars, db
<1>2. Forward
  BY <1>1, StillNoReturn, TypeStep, StepForward
     DEF InductiveInvariant, TagInv, VersionInv, IdsFresh
<1>3. ~Used(id)
  BY <1>2 DEF Forward
<1> QED
  BY <1>3 DEF InductiveInvariant, VersionInv, IdsFresh

\* What a client was sent under an id, and what a session has loaded under it,
\* is never followed by another bookmark of that id (the id column of
\* models/bookmark.py; on PostgreSQL without a condition, see OnPostgreSQL).
THEOREM IdsAreNotShared ==
  Spec /\ IdsNeverReturn => IdsNameOneBookmark
<1>1. Spec /\ IdsNeverReturn => []InductiveInvariant
  BY SessionsKnowTheirRows
<1>2. InductiveInvariant /\ [Next]_vars /\ [NoReturn]_vars => [NewIdsAreUnknown]_vars
  BY NewIdsStep
<1> QED
  BY <1>1, <1>2, PTL DEF Spec, IdsNeverReturn, IdsNameOneBookmark

LEMMA OverwriteStep ==
  ASSUME InductiveInvariant, [Next]_vars, [NoReturn]_vars
  PROVE  [OverwritesSeenOnly]_vars
<1> SUFFICES ASSUME NEW c \in Clients, Overwrites(c), seen[c].id = call[c].id,
                    call[c].ifMatch.entries = {MakeETag(seen[c].version)}
             PROVE  SameContent(seen[c], rows[call[c].id])
  BY DEF OverwritesSeenOnly
<1>1. PICK d \in Clients : Begin(d) \/ Step(d)
  BY DEF Next, Crash, vars, db, Overwrites
<1>2. TypeOK /\ SessionsOK /\ HeldETagNamesSeenContent
  BY DEF InductiveInvariant, TagInv, VersionInv
<1>3. d = c
  BY <1>1, <1>2, OthersUntouched DEF SameSession, Overwrites
<1>4. UpdateLinks(c) \/ DeleteRow(c)
  <2>1. ~QuietStep(c) /\ ~InsertTag(c)
    BY <1>2, QuietTables, InsertTagFacts DEF Overwrites
  <2>2. ~InsertRow(c)
    BY <1>2, InsertRowTables DEF Overwrites
  <2> QED
    BY <1>1, <1>3, <2>1, <2>2, StepKinds
<1>5. SameVersion(c)
  <2>1. CASE UpdateLinks(c)
    BY <2>1, <1>2, UpdateLinksTables DEF InductiveInvariant, VersionInv, LocksOK
  <2>2. CASE DeleteRow(c)
    BY <2>2 DEF DeleteRow, At, Stale
  <2> QED
    BY <1>4, <2>1, <2>2
<1>6. Matches(call[c].ifMatch, loaded[c].version)
  BY <1>2 DEF SessionsOK, SessionOK, Overwrites, WriteStatements
<1>7. loaded[c].version = seen[c].version
  BY <1>6 DEF Matches, MakeETag
<1> QED
  BY <1>2, <1>5, <1>7 DEF HeldETagNamesSeenContent, OlderOrSame, SameVersion, Exists

\* No lost update: a write sent with the ETag of what its client was last sent
\* replaces or deletes exactly that content, however requests interleave, fail
\* and are cut off (BookmarkService.update and delete, the version column).
THEOREM NoUpdateIsLost ==
  Spec /\ IdsNeverReturn => NoLostUpdate
<1>1. Spec /\ IdsNeverReturn => []InductiveInvariant
  BY SessionsKnowTheirRows
<1>2. InductiveInvariant /\ [Next]_vars /\ [NoReturn]_vars => [OverwritesSeenOnly]_vars
  BY OverwriteStep
<1> QED
  BY <1>1, <1>2, PTL DEF Spec, IdsNeverReturn, NoLostUpdate

\* After a lost race a request reports the conflict or falls to the database.
LEMMA RereadEnds ==
  ASSUME TypeOK, NEW c \in Clients, Begin(c) \/ Step(c), pc[c] = "reread"
  PROVE  \/ ReportConflict(c)
         \/ Refuse(c, 500, 0)
<1>1. CASE Begin(c)
  BY <1>1 DEF Begin
<1>2. CASE Refusal(c)
  BY <1>2 DEF Refusal, NotFound, RequirePrecondition, FailPrecondition, TagExists,
              RefreshGone, DeadlockVictim, LockTimeout, At
<1>3. CASE \/ Delivery(c) \/ LoadRow(c) \/ PassPrecondition(c) \/ SelectTags(c)
           \/ InsertTag(c) \/ InsertRow(c) \/ UpdateRow(c) \/ UpdateLinks(c)
           \/ DeleteLinks(c) \/ DeleteRow(c) \/ LoseRace(c) \/ RefreshRow(c)
  BY <1>3 DEF Delivery, ServeGet, ServeWrite, LoadRow, PassPrecondition, SelectTags,
              InsertTag, InsertRow, UpdateRow, UpdateLinks, DeleteLinks, DeleteRow,
              LoseRace, RefreshRow, At, WriteStatements
<1> QED
  BY <1>1, <1>2, <1>3, StepCases

LEMMA ConflictStep ==
  ASSUME InductiveInvariant, [Next]_vars, [NoReturn]_vars
  PROVE  [ConflictsReportLater]_vars
<1> SUFFICES ASSUME NEW c \in Clients, pc[c] = "reread", pc'[c] = "idle",
                    reply'[c].etag # 0
             PROVE  reply'[c].etag > loaded[c].version
  BY DEF ConflictsReportLater
<1>1. TypeOK /\ SessionsOK /\ LoadedOK(c) /\ reply[c].etag = 0
  BY DEF InductiveInvariant, TagInv, VersionInv, Unanswered, NoReply, Reply
<1>2. PICK d \in Clients : Begin(d) \/ Step(d)
  BY <1>1 DEF Next, Crash, vars, db
<1>3. d = c
  BY <1>1, <1>2, OthersUntouched DEF SameSession
<1>4. CASE Refuse(c, 500, 0)
  <2>1. reply'[c].etag = 0
    BY <1>1, <1>4 DEF Refuse, Finish, Reply, TypeOK
  <2> QED
    BY <2>1
<1>5. CASE ReportConflict(c)
  <2>1. /\ reply'[c].etag = IF Owned(c) THEN rows[call[c].id].version ELSE 0
    BY <1>1, <1>5 DEF ReportConflict, Refuse, Finish, Reply, TypeOK
  <2>2. Owned(c) /\ reply'[c].etag = rows[call[c].id].version
    BY <2>1
  <2>3. loaded[c].id = call[c].id
    BY <1>1 DEF SessionsOK, SessionOK
  <2>4. loaded[c].version < rows[call[c].id].version
    BY <1>1, <2>2, <2>3 DEF LoadedOK, Owned
  <2>5. loaded[c].version \in Nat /\ rows[call[c].id].version \in Nat
    BY <1>1, <2>2 DEF TypeOK, View, Row, Owned, Exists
  <2> QED
    BY <2>2, <2>4, <2>5
<1> QED
  BY <1>1, <1>2, <1>3, <1>4, <1>5, RereadEnds

\* The ETag a lost race is answered with is later than the one the request was
\* checked against (BookmarkService._conflict and _current_etag).
THEOREM ConflictsMakeProgress ==
  Spec /\ IdsNeverReturn => ConflictReportsProgress
<1>1. Spec /\ IdsNeverReturn => []InductiveInvariant
  BY SessionsKnowTheirRows
<1>2. InductiveInvariant /\ [Next]_vars /\ [NoReturn]_vars => [ConflictsReportLater]_vars
  BY ConflictStep
<1> QED
  BY <1>1, <1>2, PTL DEF Spec, IdsNeverReturn, ConflictReportsProgress

=============================================================================
