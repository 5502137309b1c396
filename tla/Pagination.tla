----------------------------- MODULE Pagination -----------------------------
(***************************************************************************)
(* Listing bookmarks: one client walks the pages of GET /api/bookmarks by  *)
(* cursor (keyset) or by page number (offset), one request per page, while *)
(* other requests commit writes to the table.                              *)
(*                                                                         *)
(* A request is a COUNT and then a SELECT of the page, each against the    *)
(* rows committed when it runs.  (The SELECT of the tags that follows adds *)
(* content to the rows of the page and decides nothing.)  Walks only read, *)
(* so one walk beside the writers is the general case.                     *)
(*                                                                         *)
(* Of a row only two things matter here: the value of the column that the  *)
(* listing is sorted by, and whether the row passes the filters (owner,    *)
(* tag, keyword, dates).                                                   *)
(***************************************************************************)
EXTENDS Integers, FiniteSets

CONSTANTS
  Ids,        \* ids a bookmark may have
  Keys,       \* values of the sort column
  PageSizes,  \* per_page values, after router and service have bounded them
  Modes       \* the ways of listing that are looked at

ASSUME IdsAssumption == Ids \subseteq Nat \ {0} /\ IsFiniteSet(Ids)
ASSUME KeysAssumption == Keys \subseteq Int
ASSUME PageSizesAssumption == PageSizes \subseteq Nat \ {0}
ASSUME ModesAssumption == Modes \subseteq {"cursor", "ascending", "descending"}

VARIABLES
  rows,       \* committed bookmarks: id -> [key, match]
  quiet,      \* no other request has committed since the walk began
  mode,       \* by cursor, or by page number in one of the two directions
  perPage,    \* the page size the client asks for on the walk
  pc,         \* the next statement of the walk, or "done"
  first,      \* the cursor the client began with, or 0 for none
  cursor,     \* the cursor of the next request
  page,       \* the page number of the next request
  total,      \* the count this request has read
  got,        \* ids the client has been sent
  repeated,   \* ids it has been sent more than once
  lasting     \* ids that have passed the filters since the walk began

table == <<rows, quiet>>
walk == <<mode, perPage, pc, first, cursor, page, total, got, repeated>>
vars == <<table, walk, lasting>>

Row == [key : Keys, match : BOOLEAN]

Matching(tab) == {id \in DOMAIN tab : tab[id].match}

-----------------------------------------------------------------------------
(* Commits of other requests.  An id is not seen before its row commits, and *)
(* rows need not commit in the order of their ids.                           *)

Put(id, row) ==
  /\ quiet' = FALSE
  /\ rows' = [i \in DOMAIN rows \cup {id} |-> IF i = id THEN row ELSE rows[i]]
  /\ lasting' = lasting \cap Matching(rows')
  /\ UNCHANGED walk

Add == \E id \in Ids \ DOMAIN rows, row \in Row : Put(id, row)

Edit == \E id \in DOMAIN rows, row \in Row : Put(id, row)

Drop ==
  /\ quiet' = FALSE
  /\ \E id \in DOMAIN rows : rows' = [i \in DOMAIN rows \ {id} |-> rows[i]]
  /\ lasting' = lasting \cap Matching(rows')
  /\ UNCHANGED walk

-----------------------------------------------------------------------------
(* One request of the walk *)

\* BookmarkRepository.count: the first statement, with the same filters.
Count ==
  /\ pc = "count"
  /\ total' = Cardinality(Matching(rows))
  /\ pc' = "select"
  /\ UNCHANGED <<table, mode, perPage, first, cursor, page, got, repeated, lasting>>

\* The page is sent; the client asks for the next one if there is one.
Send(items, more) ==
  /\ got' = got \cup items
  /\ repeated' = repeated \cup (items \cap got)
  /\ pc' = IF more THEN "count" ELSE "done"
  /\ UNCHANGED <<table, mode, perPage, first, total, lasting>>

\* Fault: WHERE id <= cursor.
UpTo(bound) == {id \in Matching(rows) : id <= bound}

Below(bound) == {id \in Matching(rows) : id < bound}

\* ORDER BY id DESC LIMIT limit.
IsLargest(part, set, limit) ==
  /\ part \subseteq set
  /\ \A id \in part, other \in set \ part : other < id
  /\ Cardinality(part) <= limit
  /\ part # set => Cardinality(part) = limit

IsLast(id, set) == id \in set /\ \A other \in set : id <= other

\* Fault: the row that was fetched in excess is the next cursor.
IsExtra(id, items, extra) == id = extra

\* The id of the last row that is sent.
IsNextCursor(id, items, extra) == IsLast(id, items)

\* Fault: only the rows of the page are fetched, and a full page has no sequel.
ExactLimit == perPage

\* One row more than the page shows whether there is a further one.
FetchLimit == perPage + 1

SelectByCursor ==
  /\ pc = "select" /\ mode = "cursor"
  /\ \E part \in SUBSET Below(cursor) :
       /\ IsLargest(part, Below(cursor), FetchLimit)
       /\ \/ /\ Cardinality(part) <= perPage
             /\ Send(part, FALSE)
             /\ UNCHANGED cursor
          \/ \E extra, id \in part :
               /\ Cardinality(part) > perPage
               /\ IsLast(extra, part)
               /\ Send(part \ {extra}, TRUE)
               /\ IsNextCursor(id, part \ {extra}, extra)
               /\ cursor' = id
  /\ UNCHANGED page

\* Fault: without the id in ORDER BY, rows with equal keys may come in another
\* order on the next page.
TiesFlip(id, other) == IF page % 2 = 0 THEN id < other ELSE id > other

\* ORDER BY column, id DESC.
TieBreak(id, other) == id > other

Before(id, other) ==
  \/ mode = "ascending" /\ rows[id].key < rows[other].key
  \/ mode = "descending" /\ rows[id].key > rows[other].key
  \/ rows[id].key = rows[other].key /\ TieBreak(id, other)

Position(id) == Cardinality({other \in Matching(rows) : Before(other, id)})

Offset == (page - 1) * perPage

TotalPages == (total + perPage - 1) \div perPage

HasNext == page < TotalPages

SelectByOffset ==
  /\ pc = "select" /\ mode # "cursor"
  /\ Send({id \in Matching(rows) : Position(id) \in Offset..(Offset + perPage - 1)},
          HasNext)
  /\ page' = IF HasNext THEN page + 1 ELSE page
  /\ UNCHANGED cursor

-----------------------------------------------------------------------------

Init ==
  /\ rows \in UNION {[some -> Row] : some \in SUBSET Ids}
  /\ quiet = TRUE
  /\ mode \in Modes /\ perPage \in PageSizes
  /\ pc = "count"
  /\ first \in IF mode = "cursor" THEN Ids \cup {id + 1 : id \in Ids} ELSE {0}
  /\ cursor = first
  /\ page = 1
  /\ total = 0
  /\ got = {} /\ repeated = {}
  /\ lasting = Matching(rows)

Request == Count \/ SelectByCursor \/ SelectByOffset

Next == Add \/ Edit \/ Drop \/ Request

Spec == Init /\ [][Next]_vars

\* The client follows the walk, and the service answers each request.
FairSpec == Spec /\ WF_vars(Request)

-----------------------------------------------------------------------------
(* Properties *)

TypeOK ==
  /\ rows = [id \in DOMAIN rows |-> rows[id]]
  /\ DOMAIN rows \subseteq Ids
  /\ \A id \in DOMAIN rows : rows[id] \in Row
  /\ quiet \in BOOLEAN
  /\ mode \in Modes /\ perPage \in PageSizes
  /\ pc \in {"count", "select", "done"}
  /\ first \in Nat /\ cursor \in Nat
  /\ page \in Nat \ {0} /\ total \in Nat
  /\ got \subseteq Ids /\ repeated \subseteq got
  /\ lasting \subseteq Matching(rows)

\* A walk by cursor sends no bookmark twice, whatever is added, edited, deleted
\* or added again under the same id on the way.
CursorWalkNeverRepeats == mode = "cursor" => repeated = {}

\* A walk by cursor that has come to its end has sent every bookmark below its
\* first cursor that passed the filters all the time.
CursorWalkMissesNothing ==
  mode = "cursor" /\ pc = "done" => \A id \in lasting : id < first => id \in got

\* A walk by page number is exact as long as nobody writes: every bookmark is
\* sent once, none is left when has_next is false, and no page is empty that
\* has_next announced.  (Beside writers none of this holds.)
QuietOffsetWalkIsExact ==
  mode # "cursor" /\ quiet =>
    /\ repeated = {}
    /\ pc = "done" => got = Matching(rows)
    /\ page > 1 => Offset < Cardinality(Matching(rows))

\* Each walk by cursor ends, also when rows are added below the cursor for ever.
CursorWalkEnds == mode = "cursor" ~> pc = "done"

-----------------------------------------------------------------------------
(* Why walks are exact: what is above the cursor, or what the order puts    *)
(* before the offset, has been sent.                                        *)

CursorInv ==
  mode = "cursor" =>
    /\ repeated = {}
    /\ pc # "done" =>
         /\ \A id \in got : cursor <= id
         /\ \A id \in lasting : cursor <= id /\ id < first => id \in got
    /\ pc = "done" => \A id \in lasting : id < first => id \in got

CursorWalks == TypeOK /\ CursorInv

\* While nobody writes, and no page is announced in vain.
OffsetInv ==
  mode # "cursor" /\ quiet =>
    /\ repeated = {}
    /\ pc = "select" => total = Cardinality(Matching(rows))
    /\ pc # "done" => got = {id \in Matching(rows) : Position(id) < Offset}
    /\ pc = "done" => got = Matching(rows)
    /\ page > 1 => Offset < Cardinality(Matching(rows))

ExactWalks == CursorWalks /\ OffsetInv

=============================================================================
