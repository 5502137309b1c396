--------------------------------- MODULE Stats ---------------------------------
(***************************************************************************)
(* GET /api/bookmarks/stats: four aggregates of the caller's bookmarks,    *)
(* each a statement of its own against the rows committed when it runs.    *)
(*                                                                         *)
(* The rows and the writers are those of Pagination.  The sort key of a    *)
(* bookmark is the month it was created in, and the filter it passes or    *)
(* not is its owner; its tags are added here.  A behaviour is a walk over  *)
(* the pages, as in Pagination, or one request for the statistics.         *)
(***************************************************************************)
EXTENDS Pagination, FiniteSetsExt

CONSTANTS
  Tags,        \* ids of tags, in the order of their names
  TopLimit,    \* length of top_tags, 10 in the query
  MaxCommits   \* bound on the commits beside a request for the statistics

ASSUME TagsAssumption == Tags \subseteq Nat /\ IsFiniteSet(Tags)
ASSUME TopAssumption == TopLimit \in Nat \ {0} /\ MaxCommits \in Nat

VARIABLES
  reader,   \* "walk" or "stats"
  links,    \* the committed rows of bookmark_tags: id of a bookmark -> its tags
  step,     \* the statement the request executes next, or "answered"
  figures,  \* what it has read so far
  commits   \* commits between its first statement and its last

request == <<step, figures>>
statsVars == <<reader, links, request, commits>>

Mine == Matching(rows)

-----------------------------------------------------------------------------
(* Commits of other requests: a new bookmark comes with its tags, an edit    *)
(* gives one other tags and leaves its month and its owner, a deleted one    *)
(* takes its links along.                                                    *)

Write ==
  /\ reader = "stats" /\ step \notin {"bookmarks", "answered"} /\ commits < MaxCommits
  /\ commits' = commits + 1
  /\ \/ /\ Add
        /\ \E tags \in SUBSET Tags :
             links' = [id \in DOMAIN rows' |-> IF id \in DOMAIN rows THEN links[id] ELSE tags]
     \/ /\ Edit /\ rows' = rows
        /\ \E id \in DOMAIN rows, tags \in SUBSET Tags : links' = [links EXCEPT ![id] = tags]
     \/ /\ Drop
        /\ links' = [id \in DOMAIN rows' |-> links[id]]
  /\ UNCHANGED <<reader, request>>

-----------------------------------------------------------------------------
(* StatsRepository.get_stats *)

At(statement) == reader = "stats" /\ step = statement

\* A statement is executed, and what it returns is kept for the answer.
Read(statement, next, value) ==
  /\ At(statement)
  /\ figures' = [figures EXCEPT ![statement] = value]
  /\ step' = next
  /\ UNCHANGED <<vars, reader, links, commits>>

CountBookmarks == Read("bookmarks", "tags", Cardinality(Mine))

UsedTags == UNION {links[id] : id \in Mine}

Uses(tag) == Cardinality({id \in Mine : tag \in links[id]})

CountTags == Read("tags", "top", Cardinality(UsedTags))

\* ORDER BY count DESC, t.name ASC LIMIT 10
IsTop(part) ==
  /\ Cardinality(part) = Min({TopLimit, Cardinality(UsedTags)})
  /\ \A tag \in part, other \in UsedTags \ part :
       Uses(tag) > Uses(other) \/ (Uses(tag) = Uses(other) /\ tag < other)

SelectTopTags ==
  At("top") /\ \E part \in SUBSET UsedTags :
    IsTop(part) /\ Read("top", "perMonth", [tag \in part |-> Uses(tag)])

\* Fault: the rows are joined with their links, and counted once for each.
LinkedInMonth(month) ==
  SumFunction([id \in {i \in Mine : rows[i].key = month} |-> Cardinality(links[id])])

InMonth(month) == Cardinality({id \in Mine : rows[id].key = month})

CountPerMonth ==
  Read("perMonth", "answered", [month \in {rows[id].key : id \in Mine} |-> InMonth(month)])

GetStats == CountBookmarks \/ CountTags \/ SelectTopTags \/ CountPerMonth

-----------------------------------------------------------------------------

StatsInit ==
  /\ Init
  /\ reader \in {"walk", "stats"}
  /\ reader = "stats" => mode = "ascending" /\ perPage = 1  \* no walk takes place
  /\ links \in [IF reader = "stats" THEN DOMAIN rows ELSE {} -> SUBSET Tags]
  /\ step = "bookmarks"
  /\ figures = [bookmarks |-> 0, tags |-> 0, top |-> <<>>, perMonth |-> <<>>]
  /\ commits = 0

Walk == reader = "walk" /\ Next /\ UNCHANGED statsVars

FollowWalk == reader = "walk" /\ Request /\ UNCHANGED statsVars

StatsNext == Walk \/ Write \/ GetStats

\* The client follows a walk, and the service answers each request.
StatsSpec ==
  StatsInit /\ [][StatsNext]_<<vars, statsVars>> /\ WF_<<vars, statsVars>>(FollowWalk)

-----------------------------------------------------------------------------
(* Properties *)

\* One pair for each bookmark that a month counts.
Counted(perMonth) == UNION {{month} \X (1..perMonth[month]) : month \in DOMAIN perMonth}

SumPerMonth == Cardinality(Counted(figures.perMonth))

\* The four statements are no snapshot, but what they disagree by is no more
\* than what was committed between them: each commit adds or takes one bookmark.
\* When nobody writes during the request they describe one table: the months add
\* up to the total, no tag has more bookmarks than there are, and the top tags
\* are as many as there are tags, at most ten.
FiguresDriftByCommits ==
  step = "answered" =>
    /\ SumPerMonth - figures.bookmarks \in -commits..commits
    /\ \A tag \in DOMAIN figures.top : figures.top[tag] \in 1..(figures.bookmarks + commits)
    /\ commits = 0 => Cardinality(DOMAIN figures.top) = Min({TopLimit, figures.tags})

-----------------------------------------------------------------------------
(* Why the figures agree: each is right of the table it was read from, and   *)
(* the table has moved by no more than the commits since.                    *)

StatsTypeOK ==
  /\ reader \in {"walk", "stats"} /\ commits \in 0..MaxCommits
  /\ step \in {"bookmarks", "tags", "top", "perMonth", "answered"}
  /\ DOMAIN figures = {"bookmarks", "tags", "top", "perMonth"}
  /\ reader = "walk" => step = "bookmarks"
  /\ reader = "stats" => links \in [DOMAIN rows -> SUBSET Tags]

\* What has been read, while the request is on its way.
FiguresInv ==
  /\ StatsTypeOK
  /\ step # "bookmarks" =>
       /\ figures.bookmarks \in Nat
       /\ Cardinality(Mine) - figures.bookmarks \in -commits..commits
  /\ step \in {"top", "perMonth", "answered"} /\ commits = 0 =>
       figures.tags = Cardinality(UsedTags)
  /\ step \in {"perMonth", "answered"} =>
       /\ \A tag \in DOMAIN figures.top : figures.top[tag] \in 1..(figures.bookmarks + commits)
       /\ commits = 0 => Cardinality(DOMAIN figures.top) = Min({TopLimit, figures.tags})
  /\ step = "answered" => SumPerMonth = Cardinality(Mine)

=============================================================================
