-------------------------------- MODULE Startup --------------------------------
(***************************************************************************)
(* Starting the API: the entrypoint of the container applies the           *)
(* migrations, again and again until that succeeds, and then starts the    *)
(* server.  Containers share one database, which may come up later than    *)
(* they do; they may be killed at any moment and are started again.        *)
(*                                                                         *)
(* Alembic reads the stored revision and executes the statements of every  *)
(* later one.  On PostgreSQL all of them are one transaction.  On SQLite a *)
(* statement that changes the schema commits itself unless rows were       *)
(* written before it, and each revision is committed with its stamp.       *)
(***************************************************************************)
EXTENDS Integers, Sequences

CONSTANTS
  Containers,
  Backend,      \* "postgresql" or "sqlite"
  FirstStamps,  \* revisions the database may be at when the containers start
  MaxAttempts,  \* attempts of the entrypoint, 20 in the script
  MaxCrashes    \* bound on the crashes of one behaviour

ASSUME BackendAssumption == Backend \in {"postgresql", "sqlite"}
ASSUME StampsAssumption == FirstStamps \subseteq 0..3
ASSUME BoundsAssumption == MaxAttempts \in Nat \ {0} /\ MaxCrashes \in Nat

VARIABLES
  up,        \* the database accepts connections
  db,        \* what is committed: the schema, its stamp, and the stored links
  pc,        \* per container: what its process does next
  attempt,   \* per container: failed attempts since it was started
  lost,      \* history: those that failed although the database was up
  todo,      \* per container: the revision it applies and the statement there
  tx,        \* per container: the uncommitted state, or NoTransaction
  crashes

vars == <<up, db, pc, attempt, lost, todo, tx, crashes>>

\* What tx is outside a transaction; a database has a stamp, 0 when it is empty.
NoTransaction == [schema |-> {}, stamp |-> -1, links |-> FALSE]

-----------------------------------------------------------------------------
(* The revisions *)

Newest == 3

\* A statement adds one thing to the schema and fails if that is there already;
\* widening a column is no failure when it is wide.
InitialSchema ==
  <<"users", "ix_users_username", "ix_users_email", "tags", "ix_tags_name",
    "bookmarks", "ix_bookmarks_user_id", "ix_bookmarks_created_at", "bookmark_tags">>

BookmarkVersion == <<"bookmarks.version">>

UrlLenAndIndex ==
  (IF Backend = "sqlite" THEN <<"_alembic_tmp_bookmarks">> ELSE <<>>)
    \o <<"bookmarks.url(2083)", "ix_bookmarks_user_created">>

Statements(revision) == <<InitialSchema, BookmarkVersion, UrlLenAndIndex>>[revision]

AddedUpTo(revision) ==
  {s \in UNION {{Statements(r)[i] : i \in DOMAIN Statements(r)} : r \in 1..revision} :
     s # "_alembic_tmp_bookmarks"}

Clashes(statement, state) ==
  statement \in state.schema /\ statement # "bookmarks.url(2083)"

\* SQLite cannot widen a column: the rows are copied into a new table, the old
\* table is dropped and the new one renamed.  Dropping a table deletes its rows,
\* and foreign keys are enforced, so their links go with them.
Executed(statement, state) ==
  IF Backend = "sqlite" /\ statement = "bookmarks.url(2083)"
  THEN [schema |-> (state.schema \ {"_alembic_tmp_bookmarks"}) \cup {statement},
        stamp |-> state.stamp, links |-> FALSE]
  ELSE [state EXCEPT !.schema = state.schema \cup {statement}]

\* Fault: the connection commits after each statement (AUTOCOMMIT).
AnythingCommitsItself(c, statement) == TRUE

\* Statements that only change the schema; the copy of the rows does more.
CommitsItself(c, statement) ==
  Backend = "sqlite" /\ tx[c] = NoTransaction /\ statement # "bookmarks.url(2083)"

-----------------------------------------------------------------------------
(* alembic upgrade head *)

Goto(c, step) == pc' = [pc EXCEPT ![c] = step]

\* What the statements of this container see.
State(c) == IF tx[c] = NoTransaction THEN db ELSE tx[c]

\* The schema another container has changed and not committed is locked.
Locked(c) == \E o \in Containers \ {c} : tx[o] # NoTransaction

Statement(c) == Statements(todo[c].revision)[todo[c].step]

AtStatement(c) ==
  /\ pc[c] = "upgrade"
  /\ todo[c].step <= Len(Statements(todo[c].revision))

AtStamp(c) ==
  /\ pc[c] = "upgrade"
  /\ todo[c].step > Len(Statements(todo[c].revision))

\* Fault: without exit 1 the script goes on when it has given up.
FallThrough(c) ==
  /\ attempt' = [attempt EXCEPT ![c] = attempt[c] + 1]
  /\ Goto(c, IF attempt[c] + 1 >= MaxAttempts THEN "serving" ELSE "connect")
  /\ tx' = [tx EXCEPT ![c] = NoTransaction]
  /\ todo' = [todo EXCEPT ![c] = [revision |-> 1, step |-> 1]]

\* Fault: without the loop the first failure ends the container.
NoRetry(c) ==
  /\ attempt' = [attempt EXCEPT ![c] = attempt[c] + 1]
  /\ Goto(c, "exited")
  /\ tx' = [tx EXCEPT ![c] = NoTransaction]
  /\ todo' = [todo EXCEPT ![c] = [revision |-> 1, step |-> 1]]

\* The attempt has failed: until ... do; give up or sleep and try again.
GiveUpOrRetry(c) ==
  /\ attempt' = [attempt EXCEPT ![c] = attempt[c] + 1]
  /\ Goto(c, IF attempt[c] + 1 >= MaxAttempts THEN "exited" ELSE "connect")
  /\ tx' = [tx EXCEPT ![c] = NoTransaction]
  /\ todo' = [todo EXCEPT ![c] = [revision |-> 1, step |-> 1]]

NoConnection(c) ==
  /\ pc[c] = "connect" /\ ~up
  /\ GiveUpOrRetry(c)
  /\ UNCHANGED <<up, db, lost, crashes>>

\* The stored revision is read, and with it what is to be applied.
ReadStamp(c) ==
  /\ pc[c] = "connect" /\ up /\ db.stamp < Newest
  /\ todo' = [todo EXCEPT ![c] = [revision |-> db.stamp + 1, step |-> 1]]
  /\ Goto(c, "upgrade")
  /\ UNCHANGED <<up, db, attempt, lost, tx, crashes>>

NothingToDo(c) ==
  /\ pc[c] = "connect" /\ up /\ db.stamp = Newest
  /\ Goto(c, "serving")
  /\ UNCHANGED <<up, db, attempt, lost, todo, tx, crashes>>

Execute(c) ==
  /\ AtStatement(c) /\ ~Locked(c) /\ ~Clashes(Statement(c), State(c))
  /\ LET result == Executed(Statement(c), State(c)) IN
     IF CommitsItself(c, Statement(c))
     THEN db' = result /\ UNCHANGED tx
     ELSE tx' = [tx EXCEPT ![c] = result] /\ UNCHANGED db
  /\ todo' = [todo EXCEPT ![c] = [revision |-> todo[c].revision, step |-> todo[c].step + 1]]
  /\ UNCHANGED <<up, pc, attempt, lost, crashes>>

\* Somebody has added the thing meanwhile, or an attempt that was cut off has.
Clash(c) ==
  /\ AtStatement(c) /\ ~Locked(c) /\ Clashes(Statement(c), State(c))
  /\ GiveUpOrRetry(c)
  /\ lost' = [lost EXCEPT ![c] = lost[c] + 1]
  /\ UNCHANGED <<up, db, crashes>>

Stamped(c) == [State(c) EXCEPT !.stamp = todo[c].revision]

\* Fault: each revision is a transaction of its own (transaction_per_migration).
AfterEveryRevision(c) == TRUE

\* The transaction ends with the last revision, on SQLite with every one.
CommitsHere(c) == Backend = "sqlite" \/ todo[c].revision = Newest

\* A revision is stamped, and committed or followed by the next one.
Stamp(c) ==
  /\ AtStamp(c) /\ ~Locked(c)
  /\ IF CommitsHere(c)
     THEN db' = Stamped(c) /\ tx' = [tx EXCEPT ![c] = NoTransaction]
     ELSE tx' = [tx EXCEPT ![c] = Stamped(c)] /\ UNCHANGED db
  /\ IF todo[c].revision = Newest
     THEN Goto(c, "serving") /\ UNCHANGED todo
     ELSE /\ todo' = [todo EXCEPT ![c] = [revision |-> todo[c].revision + 1, step |-> 1]]
          /\ UNCHANGED pc
  /\ UNCHANGED <<up, attempt, lost, crashes>>

-----------------------------------------------------------------------------

DatabaseStarts ==
  /\ ~up /\ up' = TRUE
  /\ UNCHANGED <<db, pc, attempt, lost, todo, tx, crashes>>

\* The container is killed and started again; its transaction is rolled back.
Crash(c) ==
  /\ crashes < MaxCrashes /\ crashes' = crashes + 1
  /\ Goto(c, "connect")
  /\ attempt' = [attempt EXCEPT ![c] = 0]
  /\ lost' = [lost EXCEPT ![c] = 0]
  /\ todo' = [todo EXCEPT ![c] = [revision |-> 1, step |-> 1]]
  /\ tx' = [tx EXCEPT ![c] = NoTransaction]
  /\ UNCHANGED <<up, db>>

Init ==
  /\ up \in BOOLEAN
  /\ \E stamp \in FirstStamps :
       db = [schema |-> AddedUpTo(stamp), stamp |-> stamp, links |-> stamp > 0]
  /\ pc = [c \in Containers |-> "connect"]
  /\ attempt = [c \in Containers |-> 0]
  /\ lost = [c \in Containers |-> 0]
  /\ todo = [c \in Containers |-> [revision |-> 1, step |-> 1]]
  /\ tx = [c \in Containers |-> NoTransaction]
  /\ crashes = 0

Run(c) ==
  \/ NoConnection(c) \/ ReadStamp(c) \/ NothingToDo(c)
  \/ Execute(c) \/ Clash(c) \/ Stamp(c)

Next == DatabaseStarts \/ \E c \in Containers : Run(c) \/ Crash(c)

Spec == Init /\ [][Next]_vars

\* The processes run, the database comes up and lets a waiting session go on
\* when the lock is free.  Nothing makes a crash happen.
FairSpec == Spec /\ WF_vars(DatabaseStarts) /\ \A c \in Containers : SF_vars(Run(c))

-----------------------------------------------------------------------------
(* Properties *)

\* A server runs only on the schema of the newest revision, complete, and every
\* other container finds it so from then on.
ServesOnHead ==
  (\E c \in Containers : pc[c] = "serving")
    => db.stamp = Newest /\ db.schema = AddedUpTo(Newest)

\* On PostgreSQL the stamp names exactly what is there, however many containers
\* migrate at once and wherever they are cut off.
StampNamesSchema == Backend = "postgresql" => db.schema = AddedUpTo(db.stamp)

\* Migrating at once without a lock around it costs a container one attempt: it
\* gives up only if the database was down in all its other attempts.
RaceCostsOneAttempt == Backend = "postgresql" => \A c \in Containers : lost[c] <= 1

\* Once the database is up a container that starts comes to serve, also when
\* others migrate at the same time, or one before it was cut off half way.
StartsOnceDatabaseIsUp ==
  \A c \in Containers : (up /\ pc[c] = "connect" /\ attempt[c] = 0) ~> pc[c] = "serving"

\* A revision "widens bookmarks.url and adds an index" (0003): the migrations
\* leave the bookmarks with their tags.
KeepsLinks == [][db.links => db'.links]_vars

=============================================================================
