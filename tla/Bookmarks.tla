------------------------------ MODULE Bookmarks ------------------------------
(***************************************************************************)
(* The bookmark resource of the API: create, read, update and delete of    *)
(* one bookmark, from the router through BookmarkService and the bookmark  *)
(* and tag repositories down to the rows of the database.                  *)
(*                                                                         *)
(* The endpoints are synchronous functions that FastAPI runs in a thread   *)
(* pool, each request with a database session of its own, so requests      *)
(* interleave between any two database statements.  One action is one      *)
(* statement (with the Python code that follows it up to the next one).    *)
(* Only committed rows are state of the database here; what a session has  *)
(* flushed and not committed is state of that session: it is invisible to  *)
(* the others, but it blocks them.                                         *)
(***************************************************************************)
EXTENDS ETag, Integers, FiniteSets, Sequences

CONSTANTS
  Clients,      \* concurrent callers, each with one request in flight
  Users,        \* accounts (authentication is settled before these steps)
  Bodies,       \* values of url, title and description together
  Tags,         \* normalized tag names
  Null,         \* a field the request leaves out
  Calls,        \* the requests the clients may send
  Stored,       \* the table bookmarks (with its links) at the start
  FirstId,      \* the next value of the id sequence at the start
  Backend,      \* "postgresql" or "sqlite"
  MaxRequests   \* bound on the requests of one behaviour

Row == [owner : Users, version : Nat \ {0}, body : Bodies, tags : SUBSET Tags]

CallType ==
  [op : {"create", "get", "update", "delete"}, user : Users, id : Nat,
   ifMatch : Headers, body : {Null} \cup Bodies, tags : {Null} \cup Seq(Tags)]

ASSUME BackendAssumption == Backend \in {"postgresql", "sqlite"}

ASSUME CallsAssumption ==
  \A call \in Calls :
    /\ call \in CallType
    /\ call.op = "create" => call.id = 0 /\ call.body # Null /\ call.tags # Null
    /\ call.tags # Null =>
         \A i, j \in DOMAIN call.tags : call.tags[i] = call.tags[j] => i = j

ASSUME StoredAssumption ==
  /\ IsFiniteSet(DOMAIN Stored)
  /\ Stored = [id \in DOMAIN Stored |-> Stored[id]]
  /\ \A id \in DOMAIN Stored :
       id \in Nat \ {0} /\ id < FirstId /\ Stored[id] \in Row
  /\ FirstId \in Nat \ {0}

ASSUME BoundAssumption == MaxRequests \in Nat

VARIABLES
  rows,      \* committed bookmarks with their links: id -> Row
  tagNames,  \* committed rows of the table tags
  nextId,    \* next value of the PostgreSQL sequence
  started,   \* requests begun so far
  pc,        \* per client: the statement its request executes next
  call,      \* per client: the request
  loaded,    \* per client: the ORM object, as this session has read it
  todo,      \* per client: names get_or_create still has to insert
  held,      \* per client: tag rows inserted and not committed
  reply,     \* per client: status and ETag of the last answer
  seen       \* per client: the last representation it was sent

db == <<rows, tagNames, nextId>>
vars == <<db, started, pc, call, loaded, todo, held, reply, seen>>

-----------------------------------------------------------------------------
(* Values *)

NoCall ==
  [op |-> "none", user |-> Null, id |-> 0, ifMatch |-> NoHeader,
   body |-> Null, tags |-> Null]

NoView == [id |-> 0, version |-> 0, body |-> Null, tags |-> {}]

ViewOf(id) ==
  [id |-> id, version |-> rows[id].version, body |-> rows[id].body, tags |-> {}]

\* ETag 0 stands for an answer without an ETag header.
Reply(status, etag) == [status |-> status, etag |-> etag]

NoReply == Reply(0, 0)

Statements ==
  {"load", "loadTags", "selectTags", "insertTag", "insertRow", "updateRow",
   "updateLinks", "deleteLinks", "deleteRow", "reread", "refresh", "refreshTags"}

WriteStatements ==
  {"insertTag", "insertRow", "updateRow", "updateLinks", "deleteLinks", "deleteRow"}

Names(list) == {list[i] : i \in DOMAIN list}

Exists(id) == id \in DOMAIN rows

\* Fault: get_owned without its filter on the user.
OwnedByAnyone(c) == Exists(call[c].id)

Owned(c) == Exists(call[c].id) /\ rows[call[c].id].owner = call[c].user

LinksOf(id) == IF Exists(id) THEN rows[id].tags ELSE {}

\* The links an update deletes: those of the loaded object not asked for.
Unlinked(c) ==
  IF call[c].tags = Null THEN {} ELSE loaded[c].tags \ Names(call[c].tags)

Linked(c) ==
  IF call[c].tags = Null THEN {} ELSE Names(call[c].tags) \ loaded[c].tags

\* The first of the names still to insert, in the order of the request.
IsNext(c, name) ==
  \E i \in DOMAIN call[c].tags :
    /\ call[c].tags[i] = name
    /\ \A j \in 1..(i - 1) : call[c].tags[j] \notin todo[c]

\* SQLite's rowid is one past the largest in the table.
IsNextRowId(id) ==
  /\ \A other \in DOMAIN rows : other < id
  /\ id = 1 \/ Exists(id - 1)

\* A sequence never returns to an id; a row id is free again with its row.
IsNewId(id) == IF Backend = "sqlite" THEN IsNextRowId(id) ELSE id = nextId

-----------------------------------------------------------------------------
(* Locks.  PostgreSQL: an uncommitted unique key, an updated row and a     *)
(* deleted row block those who want the same key or row.  SQLite: one      *)
(* writer at a time.                                                       *)

InWriteTransaction(c) ==
  \/ held[c] # {}
  \/ pc[c] = "updateLinks"
  \/ pc[c] = "deleteRow" /\ loaded[c].tags # {}

SameRow(c, o) == call[c].id = call[o].id

BlockedByKeyOrRow(c, o) ==
  \/ pc[c] = "insertTag" /\ \E name \in todo[c] \cap held[o] : IsNext(c, name)
  \/ pc[c] \in {"updateRow", "deleteRow"} /\ pc[o] = "updateLinks" /\ SameRow(c, o)
  \/ pc[c] = "updateLinks" /\ pc[o] = "deleteRow" /\ SameRow(c, o)
       /\ Unlinked(c) \cap loaded[o].tags # {}
  \/ pc[c] = "deleteLinks" /\ pc[o] = "deleteRow" /\ SameRow(c, o)
       /\ loaded[c].tags \cap loaded[o].tags # {}

BlockedBy(c, o) ==
  /\ o # c
  /\ IF Backend = "sqlite"
     THEN pc[c] \in WriteStatements /\ InWriteTransaction(o)
     ELSE BlockedByKeyOrRow(c, o)

Blocked(c) == \E o \in Clients : BlockedBy(c, o)

\* A set of sessions that wait for each other in a circle.
Circle(S) ==
  /\ \A c \in S : \E o \in S : BlockedBy(c, o)
  /\ \A o \in S : \E c \in S : BlockedBy(c, o)

-----------------------------------------------------------------------------
(* How a request moves on, and how it ends *)

At(c, statement) == pc[c] = statement /\ ~Blocked(c)

Goto(c, statement) == pc' = [pc EXCEPT ![c] = statement]

\* The answer is sent and the session closed; what it had not committed is
\* rolled back by close().
Finish(c, status, etag) ==
  /\ Goto(c, "idle")
  /\ reply' = [reply EXCEPT ![c] = Reply(status, etag)]
  /\ call' = [call EXCEPT ![c] = NoCall]
  /\ loaded' = [loaded EXCEPT ![c] = NoView]
  /\ todo' = [todo EXCEPT ![c] = {}]
  /\ held' = [held EXCEPT ![c] = {}]
  /\ UNCHANGED started

\* An answer without a representation leaves what the client has seen alone.
Refuse(c, status, etag) == Finish(c, status, etag) /\ UNCHANGED <<db, seen>>

Send(c, status, view) ==
  /\ Finish(c, status, view.version)
  /\ seen' = [seen EXCEPT ![c] = view]
  /\ UNCHANGED db

Commit(c, table) ==
  /\ rows' = table
  /\ tagNames' = tagNames \cup held[c]
  /\ held' = [held EXCEPT ![c] = {}]

\* The statement after the tags are resolved.
WriteOf(c) == IF call[c].op = "create" THEN "insertRow" ELSE "updateRow"

-----------------------------------------------------------------------------
(* A client sends a request; the dependencies have resolved its user. *)

Begin(c) ==
  /\ pc[c] = "idle" /\ started < MaxRequests
  /\ started' = started + 1
  /\ \E request \in Calls :
       /\ call' = [call EXCEPT ![c] = request]
       /\ Goto(c, IF request.op # "create" THEN "load"
                  ELSE IF request.tags = <<>> THEN "insertRow" ELSE "selectTags")
  /\ reply' = [reply EXCEPT ![c] = NoReply]
  /\ UNCHANGED <<db, loaded, todo, held, seen>>

-----------------------------------------------------------------------------
(* BookmarkService.get: SELECT the row, then SELECT its tags ("selectin"), *)
(* each statement against the rows committed when it runs.                 *)

NotFound(c) ==
  /\ At(c, "load") /\ ~Owned(c)
  /\ Refuse(c, 404, 0)

LoadRow(c) ==
  /\ At(c, "load") /\ Owned(c)
  /\ loaded' = [loaded EXCEPT ![c] = ViewOf(call[c].id)]
  /\ Goto(c, "loadTags")
  /\ UNCHANGED <<db, started, call, todo, held, reply, seen>>

WithTags(c) == [loaded[c] EXCEPT !.tags = LinksOf(loaded[c].id)]

ServeGet(c) ==
  /\ At(c, "loadTags") /\ call[c].op = "get"
  /\ Send(c, 200, WithTags(c))

\* _check_precondition: no header is 428, no match is 412, both with the ETag.
RequirePrecondition(c) ==
  /\ At(c, "loadTags") /\ call[c].op # "get"
  /\ ~call[c].ifMatch.present
  /\ Refuse(c, 428, loaded[c].version)

FailPrecondition(c) ==
  /\ At(c, "loadTags") /\ call[c].op # "get"
  /\ call[c].ifMatch.present
  /\ ~Matches(call[c].ifMatch, loaded[c].version)
  /\ Refuse(c, 412, loaded[c].version)

\* An update resolves its tags before it assigns anything to the bookmark.
AfterPrecondition(c) ==
  IF call[c].op = "delete"
  THEN IF LinksOf(loaded[c].id) = {} THEN "deleteRow" ELSE "deleteLinks"
  ELSE IF call[c].tags \in {Null, <<>>} THEN "updateRow" ELSE "selectTags"

PassPrecondition(c) ==
  /\ At(c, "loadTags") /\ call[c].op # "get"
  /\ call[c].ifMatch.present
  /\ Matches(call[c].ifMatch, loaded[c].version)
  /\ loaded' = [loaded EXCEPT ![c] = WithTags(c)]
  /\ Goto(c, AfterPrecondition(c))
  /\ UNCHANGED <<db, started, call, todo, held, reply, seen>>

-----------------------------------------------------------------------------
(* TagRepository.get_or_create: one SELECT, then one INSERT per name that  *)
(* was missing, in the order of the request.                               *)

\* Fault: the SELECT also takes names other sessions have not committed.
MissingAfterDirtyRead(c) ==
  Names(call[c].tags) \ (tagNames \cup UNION {held[o] : o \in Clients})

Missing(c) == Names(call[c].tags) \ tagNames

SelectTags(c) ==
  /\ At(c, "selectTags")
  /\ todo' = [todo EXCEPT ![c] = Missing(c)]
  /\ Goto(c, IF Missing(c) = {} THEN WriteOf(c) ELSE "insertTag")
  /\ UNCHANGED <<db, started, call, loaded, held, reply, seen>>

InsertTag(c) ==
  /\ At(c, "insertTag")
  /\ \E name \in todo[c] \ tagNames :
       /\ IsNext(c, name)
       /\ held' = [held EXCEPT ![c] = @ \cup {name}]
       /\ todo' = [todo EXCEPT ![c] = @ \ {name}]
       /\ Goto(c, IF todo[c] = {name} THEN WriteOf(c) ELSE "insertTag")
  /\ UNCHANGED <<db, started, call, loaded, reply, seen>>

\* The name was committed after the SELECT: the IntegrityError of the flush is
\* not caught and ends in the handler for unexpected errors.
TagExists(c) ==
  /\ At(c, "insertTag")
  /\ \E name \in todo[c] \cap tagNames : IsNext(c, name)
  /\ Refuse(c, 500, 0)

-----------------------------------------------------------------------------
(* BookmarkRepository.add: INSERT the row and its links, and commit. *)

\* Fault: the version counter starts at 0.
NewRowUnversioned(c) ==
  [owner |-> call[c].user, version |-> 0, body |-> call[c].body,
   tags |-> Names(call[c].tags)]

NewRow(c) ==
  [owner |-> call[c].user, version |-> 1, body |-> call[c].body,
   tags |-> Names(call[c].tags)]

InsertRow(c) ==
  /\ At(c, "insertRow")
  /\ \E new \in 1..nextId :
       /\ IsNewId(new)
       /\ Commit(c, [id \in DOMAIN rows \cup {new} |->
                       IF id = new THEN NewRow(c) ELSE rows[id]])
       /\ loaded' = [loaded EXCEPT ![c].id = new]
  /\ nextId' = nextId + 1
  /\ Goto(c, "refresh")
  /\ UNCHANGED <<started, call, todo, reply, seen>>

-----------------------------------------------------------------------------
(* BookmarkRepository.update and delete.  UPDATE and DELETE name the       *)
(* version that was loaded; if they meet no row the session is rolled back *)
(* and StaleVersionError raised.                                           *)

\* Fault: version_id_col is not set, so UPDATE and DELETE name the id alone.
SameRowOnly(c) == Exists(call[c].id)

SameVersion(c) ==
  /\ Exists(call[c].id)
  /\ rows[call[c].id].version = loaded[c].version

\* The next statement meets other rows than the session has loaded: no row of
\* that version, a link that is gone, or a link that is already there.
Stale(c) ==
  \/ pc[c] \in {"updateRow", "deleteRow"} /\ ~SameVersion(c)
  \/ pc[c] = "updateLinks" /\ ~(Unlinked(c) \subseteq LinksOf(call[c].id))
  \/ pc[c] = "updateLinks" /\ Linked(c) \cap LinksOf(call[c].id) # {}
  \/ pc[c] = "deleteLinks" /\ ~(loaded[c].tags \subseteq LinksOf(call[c].id))

\* updated_at is flagged modified, so the UPDATE is sent for every edit, and
\* with it the next version; the row stays locked until the commit.
UpdateRow(c) ==
  /\ At(c, "updateRow") /\ ~Stale(c)
  /\ Goto(c, "updateLinks")
  /\ UNCHANGED <<db, started, call, loaded, todo, held, reply, seen>>

\* Fault: without flag_modified an edit of the tags alone updates no row.
EditedWithoutFlag(c, row) ==
  [row EXCEPT !.version = IF call[c].body = Null THEN @ ELSE loaded[c].version + 1,
              !.body = IF call[c].body = Null THEN @ ELSE call[c].body,
              !.tags = (@ \ Unlinked(c)) \cup Linked(c)]

\* Fault: the fields are assigned before get_or_create, whose flush then sends
\* an UPDATE of its own.
EditedByTwoFlushes(c, row) ==
  [row EXCEPT !.version = loaded[c].version + IF held[c] = {} THEN 1 ELSE 2,
              !.body = IF call[c].body = Null THEN @ ELSE call[c].body,
              !.tags = (@ \ Unlinked(c)) \cup Linked(c)]

\* Fault: new tags are added to those the bookmark has.
EditedByMerging(c, row) ==
  [row EXCEPT !.version = loaded[c].version + 1,
              !.body = IF call[c].body = Null THEN @ ELSE call[c].body,
              !.tags = @ \cup Linked(c)]

\* Fault: the version is never moved on.
EditedInPlace(c, row) ==
  [row EXCEPT !.body = IF call[c].body = Null THEN @ ELSE call[c].body,
              !.tags = (@ \ Unlinked(c)) \cup Linked(c)]

Edited(c, row) ==
  [row EXCEPT !.version = loaded[c].version + 1,
              !.body = IF call[c].body = Null THEN @ ELSE call[c].body,
              !.tags = (@ \ Unlinked(c)) \cup Linked(c)]

\* DELETE and INSERT of the links that changed, and COMMIT.
UpdateLinks(c) ==
  /\ At(c, "updateLinks") /\ ~Stale(c)
  /\ Commit(c, [rows EXCEPT ![call[c].id] = Edited(c, @)])
  /\ Goto(c, "refresh")
  /\ UNCHANGED <<nextId, started, call, loaded, todo, reply, seen>>

\* Deleting a bookmark deletes the links that were loaded with it first.
DeleteLinks(c) ==
  /\ At(c, "deleteLinks") /\ ~Stale(c)
  /\ Goto(c, "deleteRow")
  /\ UNCHANGED <<db, started, call, loaded, todo, held, reply, seen>>

DeleteRow(c) ==
  /\ At(c, "deleteRow") /\ ~Stale(c)
  /\ rows' = [id \in DOMAIN rows \ {call[c].id} |-> rows[id]]
  /\ Finish(c, 204, 0)
  /\ UNCHANGED <<tagNames, nextId, seen>>

\* Fault: the stale statement is sent again and again, with what was loaded.
RetryBlindly(c) ==
  /\ pc[c] \in WriteStatements /\ ~Blocked(c) /\ Stale(c)
  /\ UNCHANGED vars

\* StaleDataError, or IntegrityError for the link: rollback; the tags this
\* request inserted disappear again.
LoseRace(c) ==
  /\ pc[c] \in WriteStatements /\ ~Blocked(c) /\ Stale(c)
  /\ held' = [held EXCEPT ![c] = {}]
  /\ Goto(c, "reread")
  /\ UNCHANGED <<db, started, call, loaded, todo, reply, seen>>

\* Fault: the 412 carries the version of the object at hand.
ReportLoadedVersion(c) ==
  /\ At(c, "reread")
  /\ Refuse(c, 412, loaded[c].version)

\* _current_etag: the 412 carries the version now stored, if the row is there.
ReportConflict(c) ==
  /\ At(c, "reread")
  /\ Refuse(c, 412, IF Owned(c) THEN rows[call[c].id].version ELSE 0)

-----------------------------------------------------------------------------
(* db.refresh after the commit: two SELECTs of a new transaction. *)

RefreshRow(c) ==
  /\ At(c, "refresh") /\ Exists(loaded[c].id)
  /\ loaded' = [loaded EXCEPT ![c] = ViewOf(@.id)]
  /\ Goto(c, "refreshTags")
  /\ UNCHANGED <<db, started, call, todo, held, reply, seen>>

\* The row was deleted since the commit: "Could not refresh instance".
RefreshGone(c) ==
  /\ At(c, "refresh") /\ ~Exists(loaded[c].id)
  /\ Refuse(c, 500, 0)

ServeWrite(c) ==
  /\ At(c, "refreshTags")
  /\ Send(c, IF call[c].op = "create" THEN 201 ELSE 200, WithTags(c))

-----------------------------------------------------------------------------
(* The database and the process *)

\* PostgreSQL aborts one of the sessions that wait in a circle; SQLite gives
\* up waiting for the writer ("database is locked").  Neither is caught.
DeadlockVictim(c) ==
  /\ Backend = "postgresql"
  /\ \E S \in SUBSET Clients : c \in S /\ Circle(S)
  /\ Refuse(c, 500, 0)

LockTimeout(c) ==
  /\ Backend = "sqlite" /\ Blocked(c)
  /\ Refuse(c, 500, 0)

\* The process dies and is restarted: transactions in flight are rolled back.
Crash ==
  /\ \E c \in Clients : pc[c] # "idle"
  /\ pc' = [c \in Clients |-> "idle"]
  /\ call' = [c \in Clients |-> NoCall]
  /\ loaded' = [c \in Clients |-> NoView]
  /\ todo' = [c \in Clients |-> {}]
  /\ held' = [c \in Clients |-> {}]
  /\ UNCHANGED <<db, started, reply, seen>>

-----------------------------------------------------------------------------

Init ==
  /\ rows = Stored
  /\ tagNames = UNION {Stored[id].tags : id \in DOMAIN Stored}
  /\ nextId = FirstId
  /\ started = 0
  /\ pc = [c \in Clients |-> "idle"]
  /\ call = [c \in Clients |-> NoCall]
  /\ loaded = [c \in Clients |-> NoView]
  /\ todo = [c \in Clients |-> {}]
  /\ held = [c \in Clients |-> {}]
  /\ reply = [c \in Clients |-> NoReply]
  /\ seen = [c \in Clients |-> NoView]

Read(c) ==
  \/ NotFound(c) \/ LoadRow(c) \/ ServeGet(c) \/ RequirePrecondition(c)
  \/ FailPrecondition(c) \/ PassPrecondition(c)

ResolveTags(c) == SelectTags(c) \/ InsertTag(c) \/ TagExists(c)

Write(c) ==
  \/ InsertRow(c) \/ UpdateRow(c) \/ UpdateLinks(c) \/ DeleteLinks(c)
  \/ DeleteRow(c) \/ LoseRace(c) \/ ReportConflict(c)

Refresh(c) == RefreshRow(c) \/ RefreshGone(c) \/ ServeWrite(c)

Step(c) ==
  \/ Read(c) \/ ResolveTags(c) \/ Write(c) \/ Refresh(c)
  \/ DeadlockVictim(c) \/ LockTimeout(c)

Next == Crash \/ \E c \in Clients : Begin(c) \/ Step(c)

\* The thread of a request keeps running, a lock queue serves its waiters and
\* the database resolves deadlocks; clients need not send anything.
Fairness == \A c \in Clients : SF_vars(Step(c))

Spec == Init /\ [][Next]_vars

FairSpec == Spec /\ Fairness

-----------------------------------------------------------------------------
(* Properties *)

View == [id : Nat, version : Nat, body : {Null} \cup Bodies, tags : SUBSET Tags]

\* Every variable holds values of its kind; rows is a finite table, and no
\* client is served beyond the bound.
TypeOK ==
  /\ rows = [id \in DOMAIN rows |-> rows[id]]
  /\ \A id \in DOMAIN rows : id \in Nat \ {0} /\ rows[id] \in Row
  /\ tagNames \subseteq Tags
  /\ nextId \in Nat \ {0}
  /\ started \in 0..MaxRequests
  /\ pc \in [Clients -> {"idle"} \cup Statements]
  /\ call \in [Clients -> {NoCall} \cup CallType]
  /\ loaded \in [Clients -> View]
  /\ todo \in [Clients -> SUBSET Tags]
  /\ held \in [Clients -> SUBSET Tags]
  /\ reply \in [Clients -> [status : {0, 200, 201, 204, 404, 412, 428, 500},
                             etag : Nat]]
  /\ seen \in [Clients -> View]

\* Tag names stay unique although get_or_create looks first and inserts later,
\* and no bookmark is ever linked to a tag whose insertion was rolled back.
TagsConsistent ==
  /\ \A c \in Clients : held[c] \cap tagNames = {}
  /\ \A c, d \in Clients : c # d => held[c] \cap held[d] = {}
  /\ \A id \in DOMAIN rows : rows[id].tags \subseteq tagNames

SameContent(view, row) == view.body = row.body /\ view.tags = row.tags

\* A view of a row in the table is older than the row, or the same.
OlderOrSame(view, table) ==
  view.id \in DOMAIN table =>
    /\ view.version <= table[view.id].version
    /\ view.version = table[view.id].version => SameContent(view, table[view.id])

\* The promise of the ETag as a client relies on it: as long as the ETag it was
\* sent with a representation is the one stored, what is stored is exactly that
\* representation, although row and tags were read by two statements.
HeldETagNamesSeenContent == \A c \in Clients : OlderOrSame(seen[c], rows)

\* An ETag fixes the url, title and description of every answer that carries
\* it, whoever reads it and whenever.
ETagFixesBody ==
  \A c, d \in Clients :
    seen[c].id = seen[d].id /\ seen[c].version = seen[d].version
      => seen[c].body = seen[d].body

\* "The ETag is a strong validator" (etag.py): two answers with the same ETag
\* carry the same representation, tags included.
ETagIsStrong ==
  \A c, d \in Clients :
    seen[c].id = seen[d].id /\ seen[c].version = seen[d].version
      => seen[c] = seen[d]

Overwrites(c) ==
  /\ pc[c] \in {"updateLinks", "deleteRow"}
  /\ rows' # rows /\ pc'[c] # pc[c]

OverwritesSeenOnly ==
  \A c \in Clients :
    /\ Overwrites(c)
    /\ seen[c].id = call[c].id
    /\ call[c].ifMatch.entries = {MakeETag(seen[c].version)}
    => SameContent(seen[c], rows[call[c].id])

\* No silent lost update: an update or deletion sent with the ETag of what the
\* client was last sent never replaces anything the client has not seen, for
\* every interleaving with other writers, crashes and retries.
NoLostUpdate == [][OverwritesSeenOnly]_vars

EditsMoveVersions ==
  \A id \in DOMAIN rows \cap DOMAIN rows' :
    rows'[id] # rows[id] =>
      /\ rows'[id].version = rows[id].version + 1
      /\ rows'[id].owner = rows[id].owner

\* Every committed edit, one of the tags alone included, moves the version on
\* by one, and nothing else does, as long as the bookmark is there; no edit
\* changes its owner.
EveryEditMovesTheETag == [][EditsMoveVersions]_vars

NewIdsAreUnknown ==
  \A id \in DOMAIN rows' \ DOMAIN rows :
    \A c \in Clients : id \notin {seen[c].id, loaded[c].id}

\* The id of a new bookmark is none that a client was last sent, or that a
\* session has loaded, of a bookmark deleted since: what they hold never comes
\* to name another one.
IdsNameOneBookmark == [][NewIdsAreUnknown]_vars

ConflictsReportLater ==
  \A c \in Clients :
    /\ pc[c] = "reread" /\ pc'[c] = "idle"
    /\ reply'[c].etag # 0
    => reply'[c].etag > loaded[c].version

\* A request that lost the race in the database is told an ETag later than the
\* one it was checked against, so that a retry with it can succeed.
ConflictReportsProgress == [][ConflictsReportLater]_vars

AnswersMoveForward ==
  \A c \in Clients :
    /\ pc[c] # "idle" /\ pc'[c] = "idle"
    /\ call[c].id = seen[c].id
    /\ reply'[c].etag # 0
    => reply'[c].etag >= seen[c].version

\* The ETags a client is sent for one bookmark never go back, whether they come
\* with a representation, a refusal or a lost race.
ETagsMoveForward == [][AnswersMoveForward]_vars

NoReturn ==
  Backend = "sqlite" =>
    \A id \in DOMAIN rows \ DOMAIN rows' : \E newer \in DOMAIN rows' : id < newer

\* What the properties about versions need of SQLite, which gives the id of the
\* newest bookmark out again once that is deleted: it is never deleted.  On
\* PostgreSQL this says nothing.
IdsNeverReturn == [][NoReturn]_vars

\* Every request is answered (or lost with the process): sessions that block
\* each other on new tag names, rows and links always come free again.
EveryRequestEnds == \A c \in Clients : pc[c] # "idle" ~> pc[c] = "idle"

-----------------------------------------------------------------------------
(* Why the properties hold: the invariant behind them. *)

\* What a session has established when it reaches a statement.
SessionOK(c) ==
  /\ pc[c] = "idle" => loaded[c] = NoView
  /\ pc[c] # "idle" => call[c] \in Calls
  /\ pc[c] = "insertRow" => call[c].op = "create"
  /\ pc[c] \in {"load", "loadTags"} => call[c].op # "create"
  /\ pc[c] \in {"selectTags", "insertTag"} =>
       call[c].op \in {"create", "update"} /\ call[c].tags # Null
  /\ pc[c] \in {"updateRow", "updateLinks"} => call[c].op = "update"
  /\ pc[c] \in {"deleteLinks", "deleteRow"} => call[c].op = "delete"
  /\ pc[c] = "reread" => call[c].op \in {"update", "delete"}
  /\ pc[c] \in {"refresh", "refreshTags"} => call[c].op \in {"create", "update"}
  /\ pc[c] = "loadTags" => loaded[c].id = call[c].id
  /\ pc[c] \in WriteStatements \cup {"selectTags", "reread"} /\ call[c].op # "create" =>
       /\ loaded[c].id = call[c].id
       /\ call[c].ifMatch.present
       /\ Matches(call[c].ifMatch, loaded[c].version)
  /\ held[c] # {} =>
       pc[c] \in {"insertTag", "insertRow", "updateRow", "updateLinks"}

SessionsOK == \A c \in Clients : SessionOK(c)

\* Each name a request asks for is committed, inserted by it, or still to do.
NamesOK(c) ==
  /\ pc[c] = "insertTag" => Names(call[c].tags) \subseteq tagNames \cup held[c] \cup todo[c]
  /\ pc[c] \in {"insertRow", "updateRow", "updateLinks"} /\ call[c].tags # Null =>
       Names(call[c].tags) \subseteq tagNames \cup held[c]

NamesResolved == \A c \in Clients : NamesOK(c)

\* A request in flight has not been answered.
Unanswered == \A c \in Clients : pc[c] # "idle" => reply[c] = NoReply

\* No new bookmark gets this id: the sequence, or the newest row, is past it.
Used(id) ==
  \/ id = 0
  \/ IF Backend = "sqlite" THEN \E other \in DOMAIN rows : id <= other ELSE id < nextId

RowsFresh == \A id \in DOMAIN rows : Used(id)

\* Every id in use or remembered is past.
IdsFresh ==
  /\ RowsFresh
  /\ \A c \in Clients : Used(seen[c].id) /\ Used(loaded[c].id)

\* What a session has loaded is older than what is stored, or it is the same;
\* until the tags are loaded that holds of the other fields.
LoadedOK(c) ==
  /\ pc[c] \in {"loadTags", "refreshTags"} /\ Exists(loaded[c].id) =>
       /\ loaded[c].version <= rows[loaded[c].id].version
       /\ loaded[c].version = rows[loaded[c].id].version =>
            loaded[c].body = rows[loaded[c].id].body
  /\ pc[c] \in WriteStatements \cup {"selectTags"} => OlderOrSame(loaded[c], rows)
  /\ pc[c] = "reread" /\ Exists(loaded[c].id) =>
       loaded[c].version < rows[loaded[c].id].version

\* Between UPDATE and COMMIT the row is this session's alone.
LocksOK ==
  /\ \A c \in Clients : pc[c] = "updateLinks" => SameVersion(c)
  /\ \A c, d \in Clients :
       c # d /\ pc[c] = "updateLinks" /\ pc[d] = "updateLinks" => ~SameRow(c, d)

TagInv == TypeOK /\ SessionsOK /\ Unanswered /\ TagsConsistent /\ NamesResolved

VersionInv ==
  /\ IdsFresh /\ HeldETagNamesSeenContent /\ LocksOK
  /\ \A c \in Clients : LoadedOK(c)

\* What holds of the rows under way on either database, whether ids return or not.
LocksInv == TagInv /\ RowsFresh /\ LocksOK

\* The inductive invariant of the service, as long as no id returns: every
\* session knows of the rows and tags it is about to write either the present or
\* an older state that its WHERE clause will not match.
InductiveInvariant == TagInv /\ VersionInv

\* What a client has been sent, and what a session has loaded, is of some row.
ViewsOfRows ==
  \A c \in Clients : \A view \in {seen[c], loaded[c]} : view.id = 0 => view = NoView

\* The row is loaded, and as soon as the tags are it may be sent.
InHand(c) == pc[c] \in {"loadTags", "refreshTags"}

SameBody(view, other) ==
  view.id = other.id /\ view.version = other.version => view.body = other.body

\* What has been sent and what is about to be sent agree, version by version.
BodiesFixed ==
  \A c, d \in Clients :
    /\ SameBody(seen[c], seen[d])
    /\ InHand(c) => SameBody(loaded[c], seen[d])
    /\ InHand(c) /\ InHand(d) => SameBody(loaded[c], loaded[d])

\* A session loads no older version than its client has seen before.
LoadedAfterSeen ==
  \A c \in Clients : loaded[c].id = seen[c].id => seen[c].version <= loaded[c].version

\* The row a session works on is its user's for as long as it is there.
RowIsOwn(c) ==
  /\ pc[c] \in {"loadTags", "selectTags"} \cup WriteStatements
  /\ call[c].op # "create" /\ Exists(call[c].id)
  => rows[call[c].id].owner = call[c].user

\* An update is answered with the bookmark it was about.
AnswersItsRow(c) ==
  pc[c] \in {"refresh", "refreshTags"} /\ call[c].op = "update" => loaded[c].id = call[c].id

\* What the answers of the service rest on, besides the invariant above: they
\* agree with each other and come in order, and each write is its user's.
AnswersInv ==
  /\ ViewsOfRows /\ BodiesFixed /\ LoadedAfterSeen
  /\ \A c \in Clients : RowIsOwn(c) /\ AnswersItsRow(c)

-----------------------------------------------------------------------------
(* The statements of a request implement one atomic conditional write. *)

Phase ==
  [c \in Clients |-> CASE pc[c] = "idle" -> "idle"
                       [] pc[c] \in {"refresh", "refreshTags"} -> "applied"
                       [] OTHER -> "pending"]

Answer ==
  [c \in Clients |-> CASE reply[c].status = 0 -> "none"
                       [] reply[c].status \in {200, 201, 204} -> "ok"
                       [] reply[c].status = 500 -> "error"
                       [] OTHER -> "refused"]

Abstract ==
  INSTANCE VersionedBookmarks
    WITH store <- rows, phase <- Phase, request <- call, answer <- Answer

\* Check-then-act over several transactions behaves as if If-Match, ownership
\* and the write were one step: what is committed is what was asked, its
\* precondition holds of the row it replaces, a refused request has no effect.
ImplementsVersionedBookmarks == Abstract!ASpec

=============================================================================
