# A verification project for bookmarks-api

`bookmarks-api` is a small multi-user REST service (FastAPI, SQLAlchemy;
PostgreSQL in deployment, SQLite in tests and development).  Its code is
sequential Python, but its correctness is not sequential: endpoints are
synchronous functions run in a thread pool, every request has a database session
of its own, and each request is several statements and up to three
transactions.  What a request read may be out of date at its next statement.
Beside the API, containers migrate the database when they start, and a seeding
script wipes and fills its tables.  These modules model that: requests, scripts
and containers interleave between any two database statements, a process may
stop at any moment, and the database blocks, aborts or rolls back as PostgreSQL
and SQLite do.

## 1. Inventory

Layers: routers -> services -> repositories -> ORM models -> database.  The
functions of a request run in worker threads; requests share only the database,
the connection pool, the threads and the login guard.

| component | state | operations | what makes it correct |
|---|---|---|---|
| Bookmark service and repository (`services/bookmark`, `repositories/bookmark`, `models/bookmark.py`, `routers/bookmarks.py`) | rows of `bookmarks`, `bookmark_tags`; the version column | create, get, update, delete, list | no edit is lost, an ETag names one content, a refusal has no effect, foreign bookmarks are invisible |
| ETag service (`utils/etag`) | none | `make_etag`, `matches` | strong comparison; `*` matches, weak and unquoted entries do not |
| Tag repository (`repositories/tag`) | rows of `tags` | `get_or_create` | names stay unique, bookmarks are linked to committed tags |
| Listing (`service.list`, `list_offset`, `list_keyset`) | none (reads) | pages by offset and by cursor | a walk meets every lasting bookmark once |
| Statistics (`repositories/stats`) | none (reads) | four aggregates | the figures agree with each other as far as the table stood still |
| Auth service, users (`services/auth`, `repositories/user`) | rows of `users` | register, login | email and username stay unique; a registration is one step |
| Request authentication, tokens (`core/deps.py`, `utils/security`) | tokens in the hands of clients | `create_access_token`, `get_current_user` | a token names the account it was issued for or nobody |
| Login guard (`utils/login_guard`) | counters and lock ends per account, a mutex | assert, failure, success | an account is locked only for failures of its own, and not for ever; a lock holds |
| Sessions, pool, threads (`database.py`, `deps.py`, `main.py`) | connections checked out, threads taken | check-out, commit, rollback, close, timeout | every request is answered, no connection is lost, the probe tells the truth |
| Seeding (`scripts/seed.py`) | users and sample bookmarks | reset, count, four commits | what is left is a beginning of the whole |
| Migrations, entrypoint (`alembic`, `entrypoint.sh`) | the schema and its stamp | `upgrade head`, retry | the API serves on the newest schema only, and comes to serve |
| Tag normalizer (`utils/tags`, `schemas/tag.py`) | none | `normalize` | no duplicates, order kept, idempotent |
| Rate limit, middleware, errors, application factory | library counters | wrapping of requests | status and headers of each exception |

How they interact: `deps.py` builds one service per request around one session;
`get_current_user` reads the user in that session first, and the connection of
that read is kept while the request waits for a thread for its endpoint.
`BookmarkService` calls the tag repository *before* it changes the bookmark, then
the bookmark repository, which commits and refreshes.  A rollback anywhere in the
session takes the tags inserted by it along.  `seed.py` uses the same tables and
the same tag repository in a process of its own.

Hard behaviours, in the order of their weight:

1. Check-then-act on the version: `_check_precondition` compares the header with
   what was loaded in an earlier statement; only `WHERE version = ...` decides.
2. A bookmark is read by two SELECTs (row, then tags), in one transaction but not
   in one snapshot (READ COMMITTED), and again by two after the commit.
3. `get_or_create` looks first and inserts later; the unique key, its blocking
   and the order of insertion make conflicts, rollbacks and deadlocks.
   Registration does the same with two keys.
4. Update locks the row before the links, delete the links before the row.
5. A request holds a connection while it waits for a thread, and another holds a
   thread while it waits for a connection.
6. SQLite gives the id of a deleted newest row to the next one; tokens and ETags
   outlive the rows they name.
7. Containers migrate at once, without a lock; the process may stop half way.
8. The login guard's clock is read outside its mutex, and its check, the password
   and the count are three steps.
9. Multi-statement reads (pages, statistics) beside writers.
10. A process stops between commit and answer, or between two commits of a script.

## 2. Modules

| module | models |
|---|---|
| `ETag` | the ETag service: header entries, `MakeETag`, `Matches` |
| `VersionedBookmarks` | abstract: what the resource promises. Each accepted write is one atomic conditional step on the table |
| `Bookmarks` | detailed: requests for bookmarks, statement by statement, with the tag repository, sessions, locks of both databases, crash |
| `Pagination` | listing: one client walks the pages of `GET /api/bookmarks` beside writers |
| `Stats` | extends it: `GET /api/bookmarks/stats`, four statements beside the same writers |
| `Registry` | abstract: what registration promises. An account is entered in one step |
| `Accounts` | detailed: registration, login, tokens and the seeding script on one table of users, crash of either process |
| `LoginGuard` | login in worker threads with the guard and its clock |
| `Serving` | worker threads and pooled connections: what a request holds while it waits |
| `Startup` | containers that migrate one database and start the server |
| `MCBookmarks`, `MCPagination`, `MCAccounts`, `MCLoginGuard`, `MCServing`, `MCStartup` | the instances for TLC |
| `BookmarksProofs`, `VersionedBookmarksProofs`, `ReadsProofs`, `AccountsProofs`, `RegistryProofs`, `LoginGuardProofs`, `ServingProofs`, `StartupProofs` | theorems about them |

What each module takes of the others: `Pagination` and `Stats` need no more of the
writers than that they commit anything at any time (`Add`, `Edit`, `Drop` with any
row).  `Bookmarks` takes the resolved user and normalized tags as given.
`Accounts` leaves the guard out, which only makes some logins end early, and
`LoginGuard` takes the outcome of lookup and password as free.  `Serving` knows of
a request only which statements it executes and where it changes threads.

### Bookmarks

One action is one database statement and the Python code up to the next one.
`pc[c]` names the statement the request of client `c` executes next:

    get     load -> loadTags
    update  load -> loadTags -> [selectTags -> insertTag*] -> updateRow -> updateLinks
              -> refresh -> refreshTags            (a lost race: -> reread)
    delete  load -> loadTags -> [deleteLinks] -> deleteRow     (-> reread)
    create  [selectTags -> insertTag*] -> insertRow -> refresh -> refreshTags

| state | code |
|---|---|
| `rows`, `tagNames` | committed rows of `bookmarks` joined with `bookmark_tags`, and of `tags` |
| `nextId` | the id sequence of PostgreSQL |
| `call[c]` | the parsed request and the user it was authenticated as |
| `loaded[c]` | the `Bookmark` object in the session, as last read |
| `todo[c]`, `held[c]` | names missing from `by_name`; `Tag` rows flushed and not committed |
| `reply[c]`, `seen[c]` | status and ETag header of the last answer; the last representation sent |

What a session has written and not committed is not in `rows`; it is implied by
`pc` and `held`, and it blocks others (`BlockedBy`).  On PostgreSQL: an inserted
name blocks its second insertion, an updated row blocks UPDATE and DELETE of it,
deleted links block their second deletion.  Waiting in a circle ends with
`DeadlockVictim`.  On SQLite a write transaction blocks every other write
statement; `LockTimeout` is "database is locked".  `StaleDataError` and
`IntegrityError` of the final commit become `LoseRace`; the same error in
`get_or_create` is outside the `try` and becomes `TagExists`, a 500.

Abstracted: `url`, `title` and `description` are one value; timestamps are left
out (nothing compares them on this path); tag lists come normalized; an ETag is
its version number, and 0 stands for "no ETag"; the FastAPI layers that reject a
request before the service (422, 401, 413, 429) do not begin one.  The second
read after a lost race is one step, since only the version is used of it.

### Pagination and Stats

A request for a page is `Count`, then `SelectByCursor` or `SelectByOffset`, each
against the rows committed at that moment; writers commit in between.  A row is
the value of the column the listing is sorted by and whether it passes the filters
(owner, tag, keyword, dates); the page size is the client's, as router and service
bound it.  The extra row, `next_cursor`, the offset, `total_pages` and `has_next`
are those of the code.  Ids commit in any order, since a sequence number is drawn
before the commit, and an id may come back, as on SQLite.

`Stats` adds the links of the rows.  A request for the statistics is
`CountBookmarks`, `CountTags`, `SelectTopTags` and `CountPerMonth`; between any two
of them `Write` may commit a bookmark with its tags, other tags, or a deletion.
The filter of a row stands for its owner and the sort key for its month.

| state | code |
|---|---|
| `rows`, `links` | committed bookmarks; committed rows of `bookmark_tags` |
| `mode`, `perPage`, `first`, `cursor`, `page` | the query parameters of the client's requests |
| `pc`, `total` | the position in `BookmarkService.list`, and its `total` |
| `step`, `figures` | the position in `StatsRepository.get_stats`, and what it has read |
| `got`, `repeated`, `lasting`, `quiet`, `commits` | history: sent, sent twice, matching since the start, nothing written since, commits since the first statement |

Abstracted: the filters are one predicate, the SELECT of the tags adds content to
the page and decides nothing, and one reader stands for all, since readers do not
write.

### Accounts and Registry

`users` has one row per account.  A request is a register call (two lookups, an
INSERT with its commit, a refresh, the token), a login (a lookup, then the token)
or the use of a token (`get_current_user`).  A seeding run is

    [reset] -> count -> alice -> refreshAlice -> bob -> refreshBob
            -> bookmarksAlice -> bookmarksBob -> seeded

with a commit at `reset`, `alice`, `bob` and each `bookmarks` step; it may be cut off
before every one of them, and fails where another session has been faster.

| state | code |
|---|---|
| `users`, `nextId` | committed rows of `users`, the id sequence |
| `sampled` | users that own the sample bookmarks of `seed.py` |
| `call[c]`, `loaded[c]`, `reply[c]` | the request, the id of the `User` object in the session, the outcome of the last registration |
| `tokens` | tokens issued, with the account each stood for; `sub` is all that the code stores |
| `actor[c]` | the token a client was last let in with, and the user it was resolved to |
| `seed[s]`, `created[s]` | the position of a run, and the users `alice` and `bob` of its session |

An address is a mailbox in some spelling: `Canonical` is `strip().lower()`,
lookups compare canonical addresses, the unique index compares spellings.  The
keys are unique because what is stored is canonical, which is part of
`AccountsInv`.  The wipe of `--reset` keeps the sequence going, as DELETE does on
PostgreSQL.  `IntegrityError` at the INSERT is not caught by `register` and is a 500,
where the router documents 409.  `Registry` keeps the two apart: a conflict is told
only while a key is taken, and an error in its place only to a request that was `overtaken`, whose
key was entered between its lookup and its INSERT.

`Accounts` implements `Registry`: `Begin` submits, `Insert` enrolls, `Conflict`
refuses, `LoseRace` fails, `Welcome` and `RefreshGone` confirm, `Crash` loses all,
`CreateUser` enters a sample and `Reset` wipes; the lookups and all else stutter.

### LoginGuard

`login` is `Begin` (which reads the clock for `assert_not_locked`), `Refuse` or
`Admit`, the verification of the password (`Deny`, which reads the clock for
`record_failure`, or `Accept`) and `RecordFailure` or `RecordSuccess`.  Guard calls
are atomic under the mutex; the clock is read before the mutex is taken, so any
time may pass in between.  The outcome of the password check is free, which
covers unknown emails too: they are counted like wrong passwords.

| state | code |
|---|---|
| `clock` | `time.monotonic()`, in ticks |
| `entries` | `_state`; an absent entry is one of zeros, which behaves the same |
| `pc`, `account`, `now` | per thread: the position in `login`, its email, the clock as last read |
| `failures` | history: the failures recorded since the last success, with the time read and the time recorded |

The guard lives in the memory of one process: a restart is the initial state.
`clear()` is called by tests only.  The rate limit in front of login is left out:
it only makes some logins not begin.  The comment of the guard calls its window
sliding; it is a fixed window that restarts with count 0, as `Window` says.

### Serving

`Plan` says what each kind of request does: statements in a row are one `"query"`,
`"commit"` gives the connection back, and at `"thread"` a function returns and the
request waits for a thread for the next one.  A session takes a connection at its
first statement and keeps it until commit, rollback or close.

| state | code |
|---|---|
| `kind[r]`, `phase[r]`, `todo[r]` | the request in a slot, where it is, what it still does |
| `conn[r]` | its session has a connection checked out |
| `committed[r]`, `outcome[r]` | it has committed a write; how it is answered |

`Threads` is the framework's limit of 40, `Connections` is `db_pool_size` and
`db_max_overflow` together, 15.  (A SQLite file is given the library's default pool,
which has the same numbers; the comment in `database.py` names another one.)
`PoolTimeout` is the end of a wait of `db_pool_timeout`; it is possible only while
every connection is taken.  `Close` is the `finally` of `get_db`, for which the
framework reserves a thread.

### Startup

A container is in `connect` (the next attempt of the entrypoint), `upgrade`, `serving`
or `exited`.  An attempt reads the stamp, executes the statements of each later
revision and stamps it.  On PostgreSQL all of that is one transaction, and the first
statement that changes the schema locks the others out; on SQLite most statements
commit themselves.

| state | code |
|---|---|
| `up` | the database accepts connections |
| `db` | the committed schema (a set of names), `alembic_version`, and whether bookmarks have their links |
| `attempt[c]` | `attempt` in `entrypoint.sh` |
| `todo[c]`, `tx[c]` | the revision and statement at hand; what the transaction would commit |
| `lost[c]`, `crashes` | history: attempts that failed although the database was up; crashes so far |

### Runs

| run | instance | shows |
|---|---|---|
| `requests_postgresql` | 2 clients of two users, 13 calls with every kind of If-Match header, creations, foreign and missing ids, 4 requests | no lost update, ETags name content and move forward, the id of a new bookmark is unknown to all, a conflict reports a later ETag; `Bookmarks` implements `VersionedBookmarks`; the two inductive invariants of the proofs |
| `tagging_postgresql` | 3 clients, new tags in opposite orders, deletion against an edit that removes a tag, fairness | tags consistent; every request ends |
| `requests_sqlite` | 2 clients, two bookmarks of which the newer is never deleted, new tags in opposite orders, 4 requests, fairness | with one writer and timeouts every request ends; with no id used twice, SQLite gives the guarantees of PostgreSQL |
| `strong_etag` | the edits of `requests_postgresql` | violated: two answers with one ETag differ in their tags |
| `id_reuse_sqlite` | delete and create beside a client that holds the ETag | violated: an update with a deleted bookmark's ETag overwrites another bookmark |
| `reads` | 3 ids, 2 keys or months, 2 tags, page sizes 1 and 2, a top list of 1, unbounded writers of a walk, 2 commits beside the statistics, fairness of the walk | a cursor walk ends and sends each lasting bookmark exactly once; an offset walk is exact while nobody writes; figures agree, or differ by no more than was committed; the inductive invariants of both kinds of walk |
| `accounts` | 2 clients, 2 seeding processes, 3 requests, 2 runs of the script | keys unique, tokens true, samples in order; `Accounts` implements `Registry`; the inductive invariant of the proofs |
| `guard` | 2 threads, 1 account, 5 logins, limit 2, lockout of 2 ticks, clock up to 6 | locks are deserved and end, and enough failures in a window set one; the inductive invariant of the proofs |
| `lock_holds` | the instance of `guard` | violated: a success or a late failure under way ends or shortens a lock |
| `serving` | 3 requests of 4 kinds, 2 threads, 1 connection, fairness | a stall needs as many requests as threads and connections together; a pool timeout needs more than connections; the probe is never an error; every request is answered |
| `startup` | 3 containers, PostgreSQL at any revision, up or not yet, 3 attempts, 2 crashes, fairness | served on the newest schema only; the stamp names the schema; a race costs one attempt; every container comes to serve once the database is up |
| `upgrade_sqlite` | 1 container, SQLite at any revision | violated: the upgrade takes the links of all bookmarks along |

Bounds.  `MaxRequests` (in the guard of `Begin`) ends each behaviour after three
to five requests; everything else is finite by itself.  A lost update needs a
reader who then writes and one writer in between: three requests of two
clients.  A torn read needs two, a deadlock on names or links two, a deadlock
whose victim meets a third waiter three clients.  Four requests leave one for a
retry.  Two clients are interchangeable, so symmetry is used where only safety
is checked, never with liveness.  `CHECK_DEADLOCK FALSE` is set because clients
may stop sending and the bound ends the behaviour; that no request hangs is
checked as `EveryRequestEnds`.

Three ids and pages of one and two rows give walks of up to three pages and last
pages that are full and that are not; two commits fall before and after each of
the inner statements of the statistics, and a top list of one is shorter than the
list of tags.  Two ticks of lockout and six of clock hold a window, its end and
the window after it; five logins hold a lock of two failures, two more that were
admitted before it, and a success.  One account is enough because entries do not
share anything, one more thread than one makes every late record.  `MaxTime` and
`MaxAttempts` are guards of `Tick` and `Begin`.

Two registrations and a login, or two registrations and a use of the token,
beside two runs of the script hold each race of three parties for a key, a wipe
between any two steps of another run, and a token that outlives its account.
Three requests are as many as a stall of two threads and one connection needs, and
`serving` reaches the stall.  Three containers are the winner of a race, the loser,
and one that comes while the loser tries again; two crashes hit the winner in its
transaction and the one that takes over.

Fairness.  `WF_vars(FollowWalk)` in `Stats` (`WF_vars(Request)` in `Pagination`): the
client asks for the next page and is answered; writers are not fair and not
bounded, so the end of a cursor walk does not rest on them stopping.  `LoginGuard`
and `Accounts` need none.  In `Bookmarks`, `SF_vars(Step(c))` for each client: the thread of a request is
scheduled again and again, PostgreSQL grants a lock in the order of its queue and
its deadlock detector and SQLite's busy timeout end a wait.  Strong fairness is
needed because a waiter is enabled and disabled again while others take and
release the lock.  Nothing makes a client begin a request, and nothing makes the
process crash or not crash.  In `Serving`, `SF_vars(Serve(r))`: the thread limiter is a
queue, and a wait for a connection is ended by the pool's timeout, so that a
request which is overtaken again and again still gets its turn; arrivals are not
fair and not bounded.  In `Startup`, `WF_vars(DatabaseStarts)` and `SF_vars(Run(c))`: the
property is about a database that comes up, and PostgreSQL's locks queue.

### Findings

- `strong_etag`.  `utils/etag/etag.py:3` and the project's README call the ETag a
  strong validator.  `get` reads the row, another request commits an edit of the
  tags, `get` reads the tags: version 1 with the tags of version 2.  A later
  edit with ETag 1 is refused, so nothing is lost (`HeldETagNamesSeenContent`
  holds and is proved); but two answers with one ETag differ.
- `id_reuse_sqlite`.  `Bookmark.id` is a plain rowid.  After the newest bookmark
  is deleted, the next one has its id and ETag `"1"`; a client that holds the
  old `"1"` overwrites content it has never seen.  PostgreSQL's sequence does
  not do that.  This is the only thing that keeps the guarantees from SQLite: the
  theorems below hold there as long as no id returns (`IdsNeverReturn`).
- `lock_holds`.  `SECURITY.md:24`: after `LOGIN_MAX_FAILURES` failures an account is
  locked for `LOGIN_LOCKOUT_SECONDS`.  A login admitted before the lock drops the
  entry when it succeeds, and one that failed and read the clock early writes an
  earlier end over a later one when it gets the mutex.
- `upgrade_sqlite`.  Revision 0003 alters a column in a batch, which on SQLite
  means copy, drop, rename.  `alembic/env.py` imports `app.database`, whose connect
  hook enforces foreign keys on that connection too; dropping `bookmarks` deletes
  its rows first, and `ON DELETE CASCADE` empties `bookmark_tags`.  A database made by
  revision 1 or 2 loses the tags of all its bookmarks.

Two answers differ from what is documented and have no run of their own;
the contracts allow them:

- `routers/auth.py:24` documents 409 for an email or username in use.  Of two
  registrations that both pass the lookups the later INSERT fails; `users.add`
  (`services/auth/service.py:49`) is in no `try`, so the `IntegrityError` is answered with
  500.  `ImplementsRegistry` shows that this is the only way to end without an account and
  without a 409: a key that was taken when it was looked for is never answered so.
- The project's README says that conflicting writes get 412.  A deletion holds the
  links and waits for the row, an update holds the row and waits for the links;
  PostgreSQL aborts one of them, with an `OperationalError` that neither `update` nor
  `delete` catches, so it is answered with 500.  `VersionedBookmarks` allows an error in
  place of a refusal, as it does for a tag name that another request has just
  inserted (`TagExists`); what it shows is that nothing is written then.

## 3. Theorems

Each holds for every value of the constants: any clients, calls, bounds, ids,
threads and connections that satisfy the named assumptions.

| module | theorem | for | states |
|---|---|---|---|
| `BookmarksProofs` | `TypeCorrect` | both databases | `Spec => []TypeOK` |
| | `TagsAlwaysConsistent` | both databases | `Spec => []TagsConsistent` |
| | `SessionsKnowTheirRows` | no id returns | `Spec /\ IdsNeverReturn => []InductiveInvariant` |
| | `HeldETagIsContent` | no id returns | `... => []HeldETagNamesSeenContent` |
| | `EditsMoveTheETag` | both databases | `Spec => EveryEditMovesTheETag` |
| | `IdsAreNotShared` | no id returns | `... => IdsNameOneBookmark` |
| | `NoUpdateIsLost` | no id returns | `... => NoLostUpdate` |
| | `ConflictsMakeProgress` | no id returns | `... => ConflictReportsProgress` |
| `VersionedBookmarksProofs` | `AnswersKept` | no id returns | `... => []AnswersInv` |
| | `ETagNamesOneBody` | no id returns | `... => []ETagFixesBody` |
| | `ETagsNeverGoBack` | no id returns | `... => ETagsMoveForward` |
| | `WritesAreOneStep` | no id returns | `... => ImplementsVersionedBookmarks` |
| | `OnPostgreSQL` | PostgreSQL | `Spec =>` all of these |
| `ReadsProofs` | `WalksAreExact` | | `Spec => []ExactWalks` |
| | `CursorWalkSendsOnce` | | `Spec => []CursorWalkNeverRepeats` |
| | `CursorWalkSendsAll` | | `Spec => []CursorWalkMissesNothing` |
| | `QuietPagesAreExact` | | `Spec => []QuietOffsetWalkIsExact` |
| | `FiguresFollowTheTable` | | `StatsSpec => []FiguresInv` |
| | `StatsDriftIsBounded` | | `StatsSpec => []FiguresDriftByCommits` |
| `LoginGuardProofs` | `GuardCounts` | | `Spec => []GuardInv` |
| | `OnlyFailuresLock` | | `Spec => []LocksAreDeserved` |
| | `EveryLockEnds` | | `Spec => []LocksEnd` |
| | `EnoughFailuresDoLock` | | `Spec => []EnoughFailuresLock` |
| `AccountsProofs` | `AccountsKept` | | `Spec => []AccountsInv` |
| | `AccountsAreUnique` | | `Spec => []KeysUnique` |
| | `TokensStayTrue` | PostgreSQL's sequence | `Spec => []TokensNameTheirAccount` |
| | `SampleStaysOrdered` | | `Spec => []SampleIsOrdered` |
| | `SeededRunsAreComplete` | | `Spec => SeededIsComplete` |
| `RegistryProofs` | `RegistrationIsOneStep` | | `Spec => ImplementsRegistry` |
| `ServingProofs` | `ServingKept` | finite slots | `Spec => []ServingInv` |
| | `StallTakesCrowd` | finite slots | `Spec => []StallNeedsCrowd` |
| | `PoolServesItsSize` | finite slots | `Spec => TimeoutNeedsCrowd` |
| | `ReadinessIsTold` | finite slots | `Spec => []ReadyTellsTruth` |
| `StartupProofs` | `MigrationsInductive` | PostgreSQL | `Spec => []StartupInv` |
| | `ServersRunOnHead` | PostgreSQL | `Spec => []ServesOnHead` |
| | `StampIsTrue` | PostgreSQL | `Spec => []StampNamesSchema` |
| | `RacesCostOneAttempt` | PostgreSQL | `Spec => []RaceCostsOneAttempt` |

`Bookmarks`.  Assumptions: those named in `Bookmarks` (`BackendAssumption`, `CallsAssumption`:
a creation has a body, a tag list and no id, a tag list has no name twice;
`StoredAssumption`: a finite table of well-formed rows below the sequence;
`BoundAssumption`).  The argument: `TypeOK` is not inductive: that a new row is well formed needs the
control state, so `SessionsOK` says what a session has established at each
statement (a header that matched what was loaded, the kind of the call).
`TagsConsistent` needs `NamesResolved`: a name asked for is committed, held or
still to insert.  Together they are `TagInv`, which is inductive on both
databases.  That an edit moves the version by one and leaves the owner needs no more
than that the next id is not one of a row (`RowsFresh`), so that an insertion
replaces nothing, and that between UPDATE and COMMIT the row is this session's alone
(`LocksOK`): with `TagInv` these are `LocksInv`, inductive on both databases, whether ids
return or not.  For what clients know, `Forward` describes what any step does to the table: a
used id is never filled again and its row stays or gets the next version.  An id
is used (`Used`) when the sequence is past it, on SQLite when a row is.  A sequence
only moves on; a row id stays used while the newest row stays, which is all that
`NoReturn` asks of a step (`UsedStays`).  So `IdsNeverReturn` is empty on PostgreSQL
(`SequencesNeverReturn`), is what `id_reuse_sqlite` violates, and holds in
`requests_sqlite`.  `LoadedOK` says that what a session holds is older than the table or
the same (`OlderOrSame`), up to the tags while they are not loaded: that is why
two SELECTs are harmless: if the row has moved between them, the version read
first is already out of date.  `Forward` preserves `OlderOrSame`
(`ViewForward`); by `LocksOK` the version in the WHERE clause is still the stored one
when the links are written.  These make `VersionInv`.  An accepted write then
has: header matches the loaded version (`SessionsOK`), the stored version is the
loaded one (`SameVersion`), and a client whose version is the stored one has seen
what is stored (`HeldETagNamesSeenContent`); that is `NoLostUpdate`.  What anybody was sent or has loaded has a used id, and a
new bookmark gets one that is not: that is `IdsNameOneBookmark`.

Answers.  That answers agree with each other needs more than one client at a time:
`BodiesFixed` compares what has been sent with what is in the hands of any session
whose tags are still to come.  A row that is loaded now has the newest version, so
by the first invariant it agrees with everything of that version.  `LoadedAfterSeen`
says that no session loads less than its client was sent; its hard case is the
INSERT, whose id is new to everybody.  `RowIsOwn` carries the owner from the SELECT
to the write: no edit changes an owner, and no id is filled again.  These are
`AnswersInv`, inductive together with `InductiveInvariant`.

`VersionedBookmarks`.  One lemma for each kind of step, and the rest stutter
(`QuietStatementsStutter`).  The commit of an edit is the abstract update: its
precondition holds of the row it replaces although it was checked of one loaded
before (`WriteIsAllowed`), and the links it deletes and inserts are the difference
to the stored ones, because those are the loaded ones (`EditIsAsAsked`).  A refusal
is one of a request that has changed nothing, with one exception: the row is gone
when the committed write is read back, and the answer to it is a 500
(`RefusalRefuses`).

`Pagination`.  `CursorInv` says that what has been sent lies at or above the cursor,
and that what lasted between the cursor and the first cursor has been sent.  An
inner page keeps it because its rows are the largest below the cursor and the
extra row is the least of them, so the next cursor leaves nothing out
(`InnerPage`); a page without an extra row holds all that is below the cursor
(`LastPage`).  Commits only take from `lasting`.  A walk by page number has sent what
the order puts before its offset (`OffsetInv`): positions number the listing
without a gap (`PositionBound`, `SameOrder`), and the number of pages that the code
computes is the least that holds the total (`PageCount`), so that the last page is
neither missing nor empty.

`Stats`.  Whatever a behaviour of `Stats` does is one of `Pagination`
(`StatsRefinesSpec`), so the theorems about walks hold there too.  `FiguresInv` says
what each figure was when it was read and that the table has since moved by no
more than the commits counted (`CommitMovesByOne`); that the months add up to the
bookmarks is a bijection between the bookmarks and the pairs of a month and a
number up to its count (`MonthsAddUp`); and no tag has more uses than there are
bookmarks (`UsesBound`).

`LoginGuard`.  `EntryOK` ties an entry to the failures behind it: the count is at
most the number of failures recorded since the window began, and a lock end lies
at most two periods after as many failures as the limit.  A late record keeps
this because the time it read is before the time it is recorded (`CountedOK`),
whatever the order in which threads get the mutex.  In the other direction, no
failure was read after the window's end, so a window that is opened later starts
without any (`ReadSinceStartsOver`), and a window that goes on counts each one more
(`ReadSinceAdds`): the count is at least the number of failures read since it began.
The count may be higher: a failure read before the window and recorded late falls
into it.

`Accounts`.  `AccountsInv` has three parts: the table, the requests with their tokens,
and the runs of the script.  `Forward` says what any step does to the table: an id
behind the sequence is never given again, and a row does not change while it is
there.  Tokens, `loaded` and `created` hold only ids behind the sequence, so
`Forward` keeps what is said of them (`TokensForward`, `SessionForward`, `RunForward`)
whoever makes the step.  The keys stay unique because what is inserted is
canonical and the index compares spellings (`SameMailbox`).  The samples stay in
order because a run knows alice's bookmarks to be there as long as bob's row is:
only a wipe takes either, and a wipe takes both.

`Registry`.  One lemma per action.  The step that matters is `InsertEnrolls`: the keys
are free at the moment of the INSERT, not when they were looked for; and
`RefusalIsJustified`: who finds an account by a canonical address could not have
inserted the same address, and who cannot insert a key it has found free was
overtaken.  Being behind begins with somebody's INSERT (`EnteredOvertakes`) and never
with a lookup of one's own (`NothingPassed`).  All else leaves the registry alone.

`Serving`.  Whoever waits for a connection holds none (`WaitsForConnection`), and
whoever holds one or runs is in flight.  So in a stall the threads' requests and
the holders are disjoint, and together as many as threads and connections.  A
pool timeout finds every connection held by requests in flight, and itself beside
them.  `ServingInv` carries the limits and that an idle slot holds nothing, which is
where the `finally` of `get_db` is needed.

`Startup`.  `StartupInv` says that one transaction is open at most and what it holds: the
revisions before the one at hand and a beginning of that one (`Applying`).  A
container that was overtaken between reading the stamp and its first statement
fails there, because that adds what is in the schema (`StatementFinds`); one that
had only revision 3 to apply widens the column again first, which is no failure,
and fails at the index (`ComesLate`).  Whoever fails finds the newest stamp from
then on, so that happens once.  That each revision adds only what is new
(`EachIsNew`) goes through the statements of the three revisions one by one.

Only model-checked: liveness under fairness (`EveryRequestEnds`, `CursorWalkEnds`,
`EveryRequestIsAnswered`, `StartsOnceDatabaseIsUp`), which is beyond the prover.  Every
invariant and every action property of the passing runs is a theorem; `FiguresInv` is
proved without being listed in a run.

## 4. Plan

1. `LoginGuard`: how many failures fit into a period that spans two windows, as a
   function of the limit and the number of threads.
2. `TagNormalizer`, against a reference definition over bounded lists.

## 5. Not modelled

- Password hashing and JWT encoding: library calls without state.  A token that is
  expired or does not verify is refused in `Accounts` (`Unauthorized`) without a
  reason.
- Rate limiting: slowapi counts; only the key is this code.
- Middleware and the JSON error envelope: headers and layout.
- Tag normalizer: a pure function on characters, which its tests enumerate.
- Settings and the wiring of the application: read once, no behaviour over time.
- `downgrade` and the offline mode of the migrations: the program never runs them.
- On SQLite `DELETE` without a sequence lets a user id be used again after
  `--reset`, so that a token from before names whoever registers next.  `Accounts`
  has the ids of PostgreSQL; `RowId` there shows the difference.
- Several API processes: the login guard is per process by design, and `Bookmarks`
  and `Accounts` do not care which process a client's thread belongs to.

The components table of `PROJECT.json` gives each part its status.
