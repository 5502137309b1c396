-------------------------- MODULE ReadsProofs --------------------------
(***************************************************************************)
(* A walk by cursor is exact beside any number of writers, a walk by page  *)
(* number beside none, for every set of ids and every page size.           *)
(***************************************************************************)
EXTENDS Stats, FiniteSetTheorems, FunctionTheorems, TLAPS

LEMMA MatchingIds ==
  ASSUME TypeOK
  PROVE  /\ \A id \in Matching(rows) : id \in Nat \ {0}
         /\ IsFiniteSet(Matching(rows))
<1>1. Matching(rows) \subseteq Ids
  BY DEF TypeOK, Matching
<1> QED
  BY <1>1, IdsAssumption, FS_Subset

LEMMA ExactInit == Init => CursorWalks
<1> SUFFICES ASSUME Init PROVE CursorWalks
  OBVIOUS
<1>1. /\ rows = [id \in DOMAIN rows |-> rows[id]]
      /\ DOMAIN rows \subseteq Ids
      /\ \A id \in DOMAIN rows : rows[id] \in Row
  <2>1. PICK some \in SUBSET Ids : rows \in [some -> Row]
    BY DEF Init
  <2> QED
    BY <2>1
<1>2. first \in Nat /\ cursor \in Nat
  BY IdsAssumption DEF Init
<1>3. TypeOK
  BY <1>1, <1>2, ModesAssumption DEF Init, TypeOK
<1>4. \A id \in Matching(rows) : id \in Nat
  BY <1>3, MatchingIds
<1>5. CursorInv
  BY <1>2, <1>4 DEF Init, CursorInv
<1> QED
  BY <1>3, <1>5 DEF CursorWalks

-----------------------------------------------------------------------------
(* Commits of other requests *)

Committed ==
  /\ quiet' = FALSE /\ lasting' = lasting \cap Matching(rows') /\ UNCHANGED walk
  /\ rows' = [id \in DOMAIN rows' |-> rows'[id]]
  /\ DOMAIN rows' \subseteq Ids
  /\ \A id \in DOMAIN rows' : rows'[id] \in Row

LEMMA CommitKeepsExact ==
  ASSUME CursorWalks, Add \/ Edit \/ Drop
  PROVE  CursorWalks'
<1>1. ASSUME NEW id \in Ids, NEW row \in Row, Put(id, row)
      PROVE  Committed
  BY <1>1 DEF Put, Committed, CursorWalks, TypeOK
<1>2. ASSUME Drop
      PROVE  Committed
  <2>1. PICK id \in DOMAIN rows : rows' = [i \in DOMAIN rows \ {id} |-> rows[i]]
    BY <1>2 DEF Drop
  <2>2. /\ DOMAIN rows' = DOMAIN rows \ {id}
        /\ \A i \in DOMAIN rows' : rows'[i] = rows[i]
        /\ rows' = [i \in DOMAIN rows' |-> rows'[i]]
    BY <2>1
  <2> QED
    BY <1>2, <2>2 DEF Drop, Committed, CursorWalks, TypeOK
<1>3. Committed
  BY <1>1, <1>2 DEF Add, Edit, CursorWalks, TypeOK
<1> QED
  BY <1>3 DEF Committed, CursorWalks, TypeOK, CursorInv, walk

-----------------------------------------------------------------------------
(* The requests of the walk *)

LEMMA CountKeepsExact ==
  ASSUME CursorWalks, Count
  PROVE  CursorWalks'
<1>1. total' \in Nat
  BY MatchingIds, FS_CardinalityType DEF Count, CursorWalks
<1> QED
  BY <1>1 DEF Count, CursorWalks, TypeOK, CursorInv, table, Matching

LEMMA SendTypes ==
  ASSUME TypeOK, NEW items \in SUBSET Matching(rows), NEW more \in BOOLEAN,
         Send(items, more), cursor' \in Nat, page' \in Nat \ {0}
  PROVE  TypeOK'
BY DEF TypeOK, Send, table, Matching

LEMMA LastPage ==
  ASSUME CursorWalks, mode = "cursor", pc = "select",
         NEW part \in SUBSET Below(cursor),
         IsLargest(part, Below(cursor), FetchLimit),
         Cardinality(part) <= perPage, Send(part, FALSE)
  PROVE  CursorInv'
<1>1. part = Below(cursor)
  BY PageSizesAssumption DEF IsLargest, FetchLimit, CursorWalks, TypeOK
<1>2. \A id \in Matching(rows) : id \in Nat
  BY MatchingIds DEF CursorWalks
<1>3. part \cap got = {}
  BY <1>1, <1>2, IdsAssumption DEF CursorWalks, TypeOK, CursorInv, Below
<1> QED
  BY <1>1, <1>2, <1>3 DEF CursorWalks, TypeOK, CursorInv, Below, Send

LEMMA InnerPage ==
  ASSUME CursorWalks, mode = "cursor", pc = "select",
         NEW part \in SUBSET Below(cursor),
         IsLargest(part, Below(cursor), FetchLimit),
         NEW extra \in part, NEW id \in part, IsLast(extra, part),
         Send(part \ {extra}, TRUE), IsNextCursor(id, part \ {extra}, extra),
         cursor' = id
  PROVE  CursorInv'
<1>1. /\ \A other \in Matching(rows) : other \in Nat
      /\ cursor \in Nat /\ first \in Nat
      /\ \A other \in got : other \in Nat /\ cursor <= other
      /\ lasting \subseteq Matching(rows)
  BY MatchingIds, IdsAssumption DEF CursorWalks, TypeOK, CursorInv
<1>2. \A other \in part : other \in Nat /\ other < cursor /\ extra <= other
  BY <1>1 DEF Below, IsLast
<1>3. id # extra /\ extra < id /\ \A other \in part \ {extra} : id <= other
  BY <1>2 DEF IsNextCursor, IsLast
<1>4. (part \ {extra}) \cap got = {}
  BY <1>1, <1>2
<1>5. \A other \in got' : cursor' <= other
  BY <1>1, <1>2, <1>3 DEF Send
<1>6. ASSUME NEW other \in lasting', cursor' <= other, other < first'
      PROVE  other \in got'
  <2>1. other \in Matching(rows) /\ other \in lasting /\ other \in Nat /\ first' = first
    BY <1>1, <1>6 DEF Send
  <2>2. CASE cursor <= other
    BY <1>1, <1>6, <2>1, <2>2 DEF Send, CursorWalks, CursorInv
  <2>3. CASE other < cursor
    <3>1. other \in Below(cursor)
      BY <2>1, <2>3 DEF Below
    <3>2. other \in part
      BY <1>2, <1>6, <2>1, <3>1 DEF IsLargest
    <3>3. other # extra
      BY <1>2, <1>3, <1>6, <2>1
    <3> QED
      BY <3>2, <3>3 DEF Send
  <2> QED
    BY <1>1, <2>1, <2>2, <2>3
<1>7. repeated' = {} /\ pc' = "count"
  BY <1>4 DEF Send, CursorWalks, CursorInv
<1> QED
  BY <1>5, <1>6, <1>7 DEF CursorInv

LEMMA SelectByCursorKeepsExact ==
  ASSUME CursorWalks, SelectByCursor
  PROVE  CursorWalks'
<1>1. /\ mode = "cursor" /\ pc = "select" /\ page' = page
      /\ \E part \in SUBSET Below(cursor) :
           /\ IsLargest(part, Below(cursor), FetchLimit)
           /\ \/ /\ Cardinality(part) <= perPage
                 /\ Send(part, FALSE)
                 /\ UNCHANGED cursor
              \/ \E extra, id \in part :
                   /\ IsLast(extra, part)
                   /\ Send(part \ {extra}, TRUE)
                   /\ IsNextCursor(id, part \ {extra}, extra)
                   /\ cursor' = id
  BY DEF SelectByCursor
<1>2. PICK part \in SUBSET Below(cursor) :
        /\ IsLargest(part, Below(cursor), FetchLimit)
        /\ \/ /\ Cardinality(part) <= perPage
              /\ Send(part, FALSE)
              /\ UNCHANGED cursor
           \/ \E extra, id \in part :
                /\ IsLast(extra, part)
                /\ Send(part \ {extra}, TRUE)
                /\ IsNextCursor(id, part \ {extra}, extra)
                /\ cursor' = id
  BY <1>1
<1>3. part \subseteq Matching(rows)
  BY DEF Below
<1>4. CASE /\ Cardinality(part) <= perPage
           /\ Send(part, FALSE)
           /\ UNCHANGED cursor
  <2>1. TypeOK'
    BY <1>1, <1>3, <1>4, SendTypes DEF CursorWalks, TypeOK
  <2>2. CursorInv'
    BY <1>1, <1>2, <1>4, LastPage
  <2> QED
    BY <2>1, <2>2 DEF CursorWalks
<1>5. ASSUME NEW extra \in part, NEW id \in part, IsLast(extra, part),
             Send(part \ {extra}, TRUE), IsNextCursor(id, part \ {extra}, extra),
             cursor' = id
      PROVE  CursorWalks'
  <2>1. cursor' \in Nat /\ page' \in Nat \ {0}
    BY <1>1, <1>3, <1>5, MatchingIds DEF CursorWalks, TypeOK
  <2>2. TypeOK'
    BY <1>3, <1>5, <2>1, SendTypes DEF CursorWalks
  <2>3. CursorInv'
    BY <1>1, <1>2, <1>5, InnerPage
  <2> QED
    BY <2>2, <2>3 DEF CursorWalks
<1> QED
  BY <1>2, <1>4, <1>5

LEMMA SelectByOffsetKeepsExact ==
  ASSUME CursorWalks, SelectByOffset
  PROVE  CursorWalks'
<1>1. PICK items \in SUBSET Matching(rows) : Send(items, HasNext)
  BY DEF SelectByOffset
<1>2. cursor' \in Nat /\ page' \in Nat \ {0} /\ HasNext \in BOOLEAN
  BY DEF SelectByOffset, CursorWalks, TypeOK, HasNext
<1>3. TypeOK'
  BY <1>1, <1>2, SendTypes DEF CursorWalks
<1>4. mode' # "cursor"
  BY <1>1 DEF SelectByOffset, Send
<1> QED
  BY <1>3, <1>4 DEF CursorWalks, CursorInv

LEMMA ExactStep == CursorWalks /\ [Next]_vars => CursorWalks'
<1> SUFFICES ASSUME CursorWalks, [Next]_vars PROVE CursorWalks'
  OBVIOUS
<1>1. CASE UNCHANGED vars
  BY <1>1 DEF vars, walk, table, CursorWalks, TypeOK, CursorInv, Matching
<1> QED
  BY <1>1, CommitKeepsExact, CountKeepsExact, SelectByCursorKeepsExact,
     SelectByOffsetKeepsExact DEF Next, Request

-----------------------------------------------------------------------------
(* A walk by page number *)

\* Pages counted by rounding up: a page has rows exactly if it is one of them.
LEMMA PageCount ==
  ASSUME NEW p \in Nat, NEW t \in Nat, NEW n \in Nat \ {0}
  PROVE  p < (t + n - 1) \div n <=> p * n < t
<1> DEFINE q == (t + n - 1) \div n
<1>1. q \in Nat /\ q * n <= t + n - 1 /\ t + n - 1 < q * n + n
  OBVIOUS
<1> HIDE DEF q
<1>2. ASSUME p < q
      PROVE  p * n < t
  <2>1. PICK k \in Nat : q = p + 1 + k
    <3>1. q - p - 1 \in Nat /\ q = p + 1 + (q - p - 1)
      BY <1>1, <1>2
    <3> QED
      BY <3>1
  <2>2. q * n = p * n + n + k * n /\ k * n \in Nat /\ p * n \in Nat
    BY <2>1
  <2> QED
    BY <1>1, <2>2
<1>3. ASSUME q <= p
      PROVE  t <= p * n
  <2>1. PICK k \in Nat : p = q + k
    <3>1. p - q \in Nat /\ p = q + (p - q)
      BY <1>1, <1>3
    <3> QED
      BY <3>1
  <2>2. p * n = q * n + k * n /\ k * n \in Nat /\ q * n \in Nat
    BY <1>1, <2>1
  <2> QED
    BY <1>1, <2>2
<1>4. p * n \in Nat
  OBVIOUS
<1> QED
  BY <1>1, <1>2, <1>3, <1>4 DEF q

\* The rows the order puts before a row.
Ahead(id) == {other \in Matching(rows) : Before(other, id)}

\* A row of the listing comes after fewer rows than the listing has.
LEMMA PositionBound ==
  ASSUME TypeOK, NEW id \in Matching(rows)
  PROVE  /\ Position(id) \in Nat
         /\ Position(id) < Cardinality(Matching(rows))
<1>1. Position(id) = Cardinality(Ahead(id))
  BY DEF Position, Ahead
<1>2. ~Before(id, id)
  <2>1. id \in Nat /\ rows[id].key \in Int
    BY KeysAssumption, MatchingIds DEF TypeOK, Matching, Row
  <2> QED
    BY <2>1 DEF Before, TieBreak
<1>3. Ahead(id) \subseteq Matching(rows) \ {id}
  BY <1>2 DEF Ahead
<1>4. /\ IsFiniteSet(Matching(rows) \ {id})
      /\ Cardinality(Matching(rows) \ {id}) = Cardinality(Matching(rows)) - 1
  BY MatchingIds, FS_RemoveElement
<1>5. /\ IsFiniteSet(Ahead(id))
      /\ Cardinality(Ahead(id)) <= Cardinality(Matching(rows) \ {id})
  BY <1>3, <1>4, FS_Subset
<1>6. Cardinality(Ahead(id)) \in Nat /\ Cardinality(Matching(rows)) \in Nat
  BY <1>5, MatchingIds, FS_CardinalityType
<1> QED
  BY <1>1, <1>4, <1>5, <1>6

LEMMA SameOrder ==
  ASSUME rows' = rows, mode' = mode, NEW id
  PROVE  Position(id)' = Position(id)
<1>1. Ahead(id)' = Ahead(id)
  BY DEF Ahead, Matching, Before, TieBreak
<1>2. Position(id) = Cardinality(Ahead(id))
  BY DEF Position, Ahead
<1>3. Position(id)' = Cardinality(Ahead(id)')
  BY DEF Position, Ahead
<1> QED
  BY <1>1, <1>2, <1>3

LEMMA OffsetInit == Init /\ TypeOK => OffsetInv
<1> SUFFICES ASSUME Init, TypeOK PROVE OffsetInv
  OBVIOUS
<1>1. /\ pc = "count" /\ page = 1 /\ got = {} /\ repeated = {}
  BY DEF Init
<1>2. Offset = 0
  BY <1>1, PageSizesAssumption DEF Offset, TypeOK
<1>3. {id \in Matching(rows) : Position(id) < Offset} = {}
  BY <1>2, PositionBound
<1> QED
  BY <1>1, <1>3 DEF OffsetInv

LEMMA CountKeepsOffset ==
  ASSUME TypeOK, OffsetInv, Count
  PROVE  OffsetInv'
<1> SUFFICES ASSUME mode # "cursor", quiet
             PROVE  OffsetInv'
  BY DEF Count, OffsetInv, table
<1>1. /\ UNCHANGED <<rows, mode, perPage, page, got, repeated>>
      /\ pc = "count" /\ pc' = "select" /\ total' = Cardinality(Matching(rows))
  BY DEF Count, table
<1>2. Matching(rows)' = Matching(rows) /\ Offset' = Offset
  BY <1>1 DEF Matching, Offset
<1>3. {id \in Matching(rows) : Position(id) < Offset}'
        = {id \in Matching(rows) : Position(id) < Offset}
  BY <1>1, <1>2, SameOrder
<1> QED
  BY <1>1, <1>2, <1>3 DEF OffsetInv

LEMMA SelectKeepsOffset ==
  ASSUME TypeOK, OffsetInv, SelectByOffset
  PROVE  OffsetInv'
<1> DEFINE items == {id \in Matching(rows) :
                       Position(id) \in Offset..(Offset + perPage - 1)}
<1> SUFFICES ASSUME mode # "cursor", quiet
             PROVE  OffsetInv'
  BY DEF SelectByOffset, OffsetInv, Send, table
<1>1. /\ UNCHANGED <<rows, mode, perPage>>
      /\ pc = "select" /\ Send(items, HasNext)
      /\ page' = IF HasNext THEN page + 1 ELSE page
  BY DEF SelectByOffset, Send, table
<1>2. /\ got = {id \in Matching(rows) : Position(id) < Offset}
      /\ total = Cardinality(Matching(rows)) /\ repeated = {}
      /\ page > 1 => Offset < Cardinality(Matching(rows))
  BY <1>1 DEF OffsetInv
<1>3. /\ page \in Nat \ {0} /\ perPage \in Nat \ {0} /\ total \in Nat
      /\ Offset \in Nat /\ page * perPage = Offset + perPage
  BY PageSizesAssumption DEF TypeOK, Offset
<1>4. HasNext <=> Offset + perPage < total
  <2>1. HasNext <=> page * perPage < total
    BY <1>3, PageCount DEF HasNext, TotalPages
  <2> QED
    BY <1>3, <2>1
<1>5. \A id \in Matching(rows) : Position(id) \in Nat /\ Position(id) < total
  BY <1>2, PositionBound
<1>6. items \cap got = {}
  BY <1>2, <1>3, <1>5
<1>7. got' = {id \in Matching(rows) : Position(id) < Offset + perPage}
  <2>1. got' = got \cup items
    BY <1>1 DEF Send
  <2>2. \A id \in Matching(rows) :
          id \in got \cup items <=> Position(id) < Offset + perPage
    BY <1>2, <1>3, <1>5
  <2> QED
    BY <1>2, <2>1, <2>2
<1>8. repeated' = {} /\ pc' = IF HasNext THEN "count" ELSE "done"
  BY <1>1, <1>2, <1>6 DEF Send
<1>9. Matching(rows)' = Matching(rows)
  BY <1>1 DEF Matching
<1>10. CASE HasNext
  <2>1. Offset' = Offset + perPage
    BY <1>1, <1>3, <1>10 DEF Offset
  <2>2. {id \in Matching(rows) : Position(id) < Offset}' = got'
    BY <1>1, <1>7, <1>9, <2>1, SameOrder
  <2> QED
    BY <1>2, <1>4, <1>8, <1>9, <1>10, <2>1, <2>2 DEF OffsetInv
<1>11. CASE ~HasNext
  <2>1. Offset' = Offset /\ page' = page
    BY <1>1, <1>11 DEF Offset
  <2>2. got' = Matching(rows)
    BY <1>3, <1>4, <1>5, <1>7, <1>11
  <2> QED
    BY <1>2, <1>8, <1>9, <1>11, <2>1, <2>2 DEF OffsetInv
<1> QED
  BY <1>10, <1>11

LEMMA OffsetStep == TypeOK /\ OffsetInv /\ [Next]_vars => OffsetInv'
<1> SUFFICES ASSUME TypeOK, OffsetInv, [Next]_vars PROVE OffsetInv'
  OBVIOUS
<1>1. CASE UNCHANGED vars
  <2>1. UNCHANGED <<rows, quiet, mode, perPage, pc, page, total, got, repeated>>
    BY <1>1 DEF vars, table, walk
  <2>2. Matching(rows)' = Matching(rows) /\ Offset' = Offset
    BY <2>1 DEF Matching, Offset
  <2>3. {id \in Matching(rows) : Position(id) < Offset}'
          = {id \in Matching(rows) : Position(id) < Offset}
    BY <2>1, <2>2, SameOrder
  <2> QED
    BY <2>1, <2>2, <2>3 DEF OffsetInv
<1>2. CASE Add \/ Edit \/ Drop
  BY <1>2 DEF Add, Edit, Drop, Put, OffsetInv
<1>3. CASE SelectByCursor
  BY <1>3 DEF SelectByCursor, Send, OffsetInv
<1> QED
  BY <1>1, <1>2, <1>3, CountKeepsOffset, SelectKeepsOffset DEF Next, Request

-----------------------------------------------------------------------------
(* The statistics: how one reads the table, and how far a commit moves it *)

LEMMA MineFinite ==
  ASSUME TypeOK
  PROVE  IsFiniteSet(Mine) /\ Cardinality(Mine) \in Nat
BY MatchingIds, FS_CardinalityType DEF Mine

InThe(month) == {id \in Mine : rows[id].key = month}

Months == {rows[id].key : id \in Mine}

\* The months divide the bookmarks between them: counting each month's and
\* adding up counts every bookmark once.
LEMMA MonthsAddUp ==
  ASSUME TypeOK
  PROVE  Cardinality(Counted([month \in Months |-> InMonth(month)])) = Cardinality(Mine)
<1> DEFINE Pairs == Counted([month \in Months |-> InMonth(month)])
<1>1. \A month \in Months : InMonth(month) = Cardinality(InThe(month))
  BY DEF InMonth, InThe
<1>2. \A month \in Months : ExistsBijection(1..InMonth(month), InThe(month))
  <2> SUFFICES ASSUME NEW month \in Months
               PROVE  ExistsBijection(1..InMonth(month), InThe(month))
    OBVIOUS
  <2>1. IsFiniteSet(InThe(month))
    BY MineFinite, FS_Subset DEF InThe
  <2> QED
    BY <1>1, <2>1, FS_CardinalityType
<1> DEFINE inThe(month) == CHOOSE f : f \in Bijection(1..InMonth(month), InThe(month))
           which == [pair \in Pairs |-> inThe(pair[1])[pair[2]]]
<1>3. \A month \in Months : inThe(month) \in Bijection(1..InMonth(month), InThe(month))
  BY <1>2 DEF ExistsBijection
<1>4. \A pair \in Pairs : \E month \in Months : \E k \in 1..InMonth(month) :
        pair = <<month, k>>
  BY DEF Counted
<1>5. \A month \in Months : \A k \in 1..InMonth(month) : <<month, k>> \in Pairs
  BY DEF Counted
<1> HIDE DEF inThe, Pairs
<1>6. ASSUME NEW month \in Months, NEW k \in 1..InMonth(month)
      PROVE  /\ which[<<month, k>>] = inThe(month)[k]
             /\ inThe(month)[k] \in Mine
             /\ rows[inThe(month)[k]].key = month
  BY <1>3, <1>5, <1>6 DEF Bijection, Injection, InThe
<1>7. which \in [Pairs -> Mine]
  <2>1. ASSUME NEW pair \in Pairs
        PROVE  which[pair] \in Mine
    <3>1. PICK month \in Months : \E k \in 1..InMonth(month) : pair = <<month, k>>
      BY <1>4
    <3>2. PICK k \in 1..InMonth(month) : pair = <<month, k>>
      BY <3>1
    <3>3. which[<<month, k>>] \in Mine
      BY <1>6
    <3> QED
      BY <3>2, <3>3
  <2> QED
    BY <2>1
<1>8. ASSUME NEW a \in Pairs, NEW b \in Pairs, which[a] = which[b]
      PROVE  a = b
  <2>1. PICK m \in Months : \E k \in 1..InMonth(m) : a = <<m, k>>
    BY <1>4
  <2>2. PICK i \in 1..InMonth(m) : a = <<m, i>>
    BY <2>1
  <2>3. PICK n \in Months : \E k \in 1..InMonth(n) : b = <<n, k>>
    BY <1>4
  <2>4. PICK j \in 1..InMonth(n) : b = <<n, j>>
    BY <2>3
  <2>5. m = n /\ inThe(m)[i] = inThe(m)[j]
    <3>1. which[a] = inThe(m)[i] /\ rows[inThe(m)[i]].key = m
      BY <1>6, <2>2
    <3>2. which[b] = inThe(n)[j] /\ rows[inThe(n)[j]].key = n
      BY <1>6, <2>4
    <3> QED
      BY <1>8, <3>1, <3>2
  <2>6. i = j
    BY <1>3, <2>5 DEF Bijection, Injection, IsInjective
  <2> QED
    BY <2>2, <2>4, <2>5, <2>6
<1>9. ASSUME NEW id \in Mine
      PROVE  \E pair \in Pairs : which[pair] = id
  <2> DEFINE month == rows[id].key
  <2>1. month \in Months /\ id \in InThe(month)
    BY DEF Months, InThe
  <2>2. PICK k \in 1..InMonth(month) : inThe(month)[k] = id
    BY <1>3, <2>1 DEF Bijection, Surjection
  <2> QED
    BY <1>5, <1>6, <2>1, <2>2
<1>10. ExistsBijection(Mine, Pairs)
  <2>1. which \in Bijection(Pairs, Mine)
    BY <1>7, <1>8, <1>9 DEF Bijection, Injection, Surjection, IsInjective
  <2> QED
    BY <2>1, Fun_ExistsBijSymmetric DEF ExistsBijection
<1>11. Cardinality(Pairs) = Cardinality(Mine)
  BY <1>10, MineFinite, FS_Bijection
<1> QED
  BY <1>11 DEF Pairs

\* A tag in use marks at least one bookmark, and no more than there are.
LEMMA UsesBound ==
  ASSUME TypeOK, NEW tag \in UsedTags
  PROVE  Uses(tag) \in 1..Cardinality(Mine)
<1> DEFINE Marked == {id \in Mine : tag \in links[id]}
<1>1. Marked # {} /\ Marked \subseteq Mine /\ Uses(tag) = Cardinality(Marked)
  BY DEF UsedTags, Uses
<1> HIDE DEF Marked
<1>2. IsFiniteSet(Marked) /\ Cardinality(Marked) <= Cardinality(Mine)
  BY <1>1, MineFinite, FS_Subset
<1>3. Cardinality(Marked) \in Nat /\ Cardinality(Marked) # 0
  BY <1>1, <1>2, FS_CardinalityType, FS_EmptySet
<1> QED
  BY <1>1, <1>2, <1>3, MineFinite

\* A commit adds one bookmark to the caller's, takes one away, or does neither.
LEMMA CommitMovesByOne ==
  ASSUME TypeOK, Write
  PROVE  Cardinality(Mine') - Cardinality(Mine) \in -1..1
<1>1. CASE rows' = rows
  BY <1>1, MineFinite DEF Mine, Matching
<1>2. CASE Add
  <2>1. PICK id \in Ids \ DOMAIN rows, row \in Row :
          rows' = [i \in DOMAIN rows \cup {id} |-> IF i = id THEN row ELSE rows[i]]
    BY <1>2 DEF Add, Put
  <2>2. Mine' = Mine \/ Mine' = Mine \cup {id}
    BY <2>1 DEF Mine, Matching
  <2> QED
    BY <2>2, MineFinite, FS_AddElement
<1>3. CASE Drop
  <2>1. PICK id \in DOMAIN rows : rows' = [i \in DOMAIN rows \ {id} |-> rows[i]]
    BY <1>3 DEF Drop
  <2>2. Mine' = Mine \ {id}
    BY <2>1 DEF Mine, Matching
  <2> QED
    BY <2>2, MineFinite, FS_RemoveElement
<1> QED
  BY <1>1, <1>2, <1>3 DEF Write

-----------------------------------------------------------------------------
(* The statistics: the invariant *)

LEMMA ReadFigures ==
  ASSUME StatsTypeOK, NEW statement \in {"bookmarks", "tags", "top", "perMonth"},
         NEW next, NEW value, Read(statement, next, value)
  PROVE  /\ reader = "stats" /\ step = statement /\ step' = next
         /\ DOMAIN figures' = DOMAIN figures
         /\ figures'[statement] = value
         /\ \A other \in DOMAIN figures \ {statement} : figures'[other] = figures[other]
         /\ UNCHANGED <<rows, reader, links, commits>>
BY DEF Read, At, StatsTypeOK, vars, table

LEMMA StatsInitInv == StatsInit => FiguresInv
<1> SUFFICES ASSUME StatsInit PROVE FiguresInv
  OBVIOUS
<1>1. StatsTypeOK
  BY TopAssumption DEF StatsInit, StatsTypeOK
<1> QED
  BY <1>1 DEF StatsInit, FiguresInv

LEMMA WalkKeepsFigures ==
  ASSUME FiguresInv, Walk
  PROVE  FiguresInv'
<1>1. reader = "walk" /\ UNCHANGED <<reader, links, step, figures, commits>>
  BY DEF Walk, statsVars, request
<1> QED
  BY <1>1 DEF FiguresInv, StatsTypeOK

LEMMA WriteKeepsFigures ==
  ASSUME TypeOK, TypeOK', FiguresInv, Write
  PROVE  FiguresInv'
<1>1. /\ reader = "stats" /\ step \notin {"bookmarks", "answered"}
      /\ commits \in Nat /\ commits' = commits + 1 /\ commits' \in 0..MaxCommits
      /\ UNCHANGED <<reader, step, figures>>
  BY TopAssumption DEF Write, request, FiguresInv, StatsTypeOK
<1>2. links' \in [DOMAIN rows' -> SUBSET Tags]
  <2>1. links \in [DOMAIN rows -> SUBSET Tags]
    BY <1>1 DEF FiguresInv, StatsTypeOK
  <2>2. CASE rows' = rows /\ \E id \in DOMAIN rows, tags \in SUBSET Tags :
                               links' = [links EXCEPT ![id] = tags]
    BY <2>1, <2>2
  <2>3. CASE \E tags \in SUBSET Tags :
               links' = [id \in DOMAIN rows' |-> IF id \in DOMAIN rows THEN links[id] ELSE tags]
    BY <2>1, <2>3
  <2>4. CASE Drop /\ links' = [id \in DOMAIN rows' |-> links[id]]
    <3>1. DOMAIN rows' \subseteq DOMAIN rows
      BY <2>4 DEF Drop
    <3> QED
      BY <2>1, <2>4, <3>1
  <2> QED
    BY <2>2, <2>3, <2>4 DEF Write
<1>3. StatsTypeOK'
  BY <1>1, <1>2 DEF FiguresInv, StatsTypeOK
<1>4. Cardinality(Mine') - figures.bookmarks \in -commits'..commits'
  <2>1. /\ figures.bookmarks \in Nat
        /\ Cardinality(Mine) - figures.bookmarks \in -commits..commits
    BY <1>1 DEF FiguresInv
  <2>2. Cardinality(Mine') \in Nat
    <3>1. Mine' \subseteq Ids
      BY DEF TypeOK, Mine, Matching
    <3> QED
      BY <3>1, IdsAssumption, FS_Subset, FS_CardinalityType
  <2>3. Cardinality(Mine) \in Nat
    BY MineFinite
  <2> QED
    BY <1>1, <2>1, <2>2, <2>3, CommitMovesByOne
<1>5. \A n : n \in 1..(figures.bookmarks + commits) => n \in 1..(figures.bookmarks + commits')
  BY <1>1 DEF FiguresInv
<1> QED
  BY <1>1, <1>3, <1>4, <1>5 DEF FiguresInv

LEMMA CountKeepsFigures ==
  ASSUME TypeOK, FiguresInv, CountBookmarks \/ CountTags
  PROVE  FiguresInv'
<1>1. StatsTypeOK
  BY DEF FiguresInv
<1>2. CASE CountBookmarks
  <2>1. /\ reader = "stats" /\ step' = "tags" /\ figures'.bookmarks = Cardinality(Mine)
        /\ DOMAIN figures' = DOMAIN figures /\ UNCHANGED <<rows, reader, links, commits>>
    BY <1>1, <1>2, ReadFigures DEF CountBookmarks
  <2>2. Cardinality(Mine)' = Cardinality(Mine) /\ Cardinality(Mine) \in Nat
    BY <2>1, MineFinite DEF Mine, Matching
  <2>3. commits \in Nat
    BY <1>1, TopAssumption DEF StatsTypeOK
  <2> QED
    BY <1>1, <2>1, <2>2, <2>3 DEF FiguresInv, StatsTypeOK
<1>3. CASE CountTags
  <2>1. /\ reader = "stats" /\ step = "tags" /\ step' = "top"
        /\ figures'.tags = Cardinality(UsedTags) /\ figures'.bookmarks = figures.bookmarks
        /\ DOMAIN figures' = DOMAIN figures /\ UNCHANGED <<rows, reader, links, commits>>
    BY <1>1, <1>3, ReadFigures DEF CountTags, StatsTypeOK
  <2>2. Mine' = Mine /\ UsedTags' = UsedTags
    BY <2>1 DEF Mine, Matching, UsedTags
  <2> QED
    BY <1>1, <2>1, <2>2 DEF FiguresInv, StatsTypeOK
<1> QED
  BY <1>2, <1>3

LEMMA TopKeepsFigures ==
  ASSUME TypeOK, FiguresInv, SelectTopTags
  PROVE  FiguresInv'
<1>1. PICK part \in SUBSET UsedTags :
        IsTop(part) /\ Read("top", "perMonth", [tag \in part |-> Uses(tag)])
  BY DEF SelectTopTags
<1>2. /\ reader = "stats" /\ step = "top" /\ step' = "perMonth"
      /\ figures'.top = [tag \in part |-> Uses(tag)]
      /\ figures'.bookmarks = figures.bookmarks /\ figures'.tags = figures.tags
      /\ DOMAIN figures' = DOMAIN figures /\ UNCHANGED <<rows, reader, links, commits>>
  BY <1>1, ReadFigures DEF FiguresInv, StatsTypeOK
<1>3. Mine' = Mine /\ UsedTags' = UsedTags
  BY <1>2 DEF Mine, Matching, UsedTags
<1>4. /\ figures.bookmarks \in Nat /\ commits \in Nat /\ Cardinality(Mine) \in Nat
      /\ Cardinality(Mine) - figures.bookmarks \in -commits..commits
  BY <1>2, MineFinite, TopAssumption DEF FiguresInv, StatsTypeOK
<1>5. ASSUME NEW tag \in part
      PROVE  figures'.top[tag] \in 1..(figures.bookmarks + commits)
  <2>1. figures'.top[tag] = Uses(tag)
    BY <1>2
  <2>2. Uses(tag) \in 1..Cardinality(Mine)
    BY UsesBound
  <2> QED
    BY <1>4, <2>1, <2>2
<1>6. commits = 0 => Cardinality(part) = Min({TopLimit, figures.tags})
  BY <1>1, <1>2 DEF IsTop, FiguresInv
<1>7. DOMAIN figures'.top = part
  BY <1>2
<1>8. StatsTypeOK'
  BY <1>2 DEF FiguresInv, StatsTypeOK
<1> QED
  BY <1>2, <1>3, <1>4, <1>5, <1>6, <1>7, <1>8 DEF FiguresInv

LEMMA MonthsKeepFigures ==
  ASSUME TypeOK, FiguresInv, CountPerMonth
  PROVE  FiguresInv'
<1>1. /\ reader = "stats" /\ step = "perMonth" /\ step' = "answered"
      /\ figures'.perMonth = [month \in Months |-> InMonth(month)]
      /\ figures'.bookmarks = figures.bookmarks /\ figures'.tags = figures.tags
      /\ figures'.top = figures.top
      /\ DOMAIN figures' = DOMAIN figures /\ UNCHANGED <<rows, reader, links, commits>>
  BY ReadFigures DEF CountPerMonth, Months, FiguresInv, StatsTypeOK
<1>2. Mine' = Mine /\ UsedTags' = UsedTags
  BY <1>1 DEF Mine, Matching, UsedTags
<1>3. SumPerMonth' = Cardinality(Mine')
  BY <1>1, <1>2, MonthsAddUp DEF SumPerMonth
<1>4. StatsTypeOK'
  BY <1>1 DEF FiguresInv, StatsTypeOK
<1> QED
  BY <1>1, <1>2, <1>3, <1>4 DEF FiguresInv

LEMMA StatsStep ==
  ASSUME TypeOK, TypeOK', FiguresInv, [StatsNext]_<<vars, statsVars>>
  PROVE  FiguresInv'
<1>1. CASE UNCHANGED <<vars, statsVars>>
  <2>1. UNCHANGED <<rows, reader, links, step, figures, commits>>
    BY <1>1 DEF vars, table, statsVars, request
  <2>2. Mine' = Mine /\ UsedTags' = UsedTags /\ SumPerMonth' = SumPerMonth
    BY <2>1 DEF Mine, Matching, UsedTags, SumPerMonth
  <2> QED
    BY <2>1, <2>2 DEF FiguresInv, StatsTypeOK
<1> QED
  BY <1>1, WalkKeepsFigures, WriteKeepsFigures, CountKeepsFigures, TopKeepsFigures,
     MonthsKeepFigures DEF StatsNext, GetStats

\* Beside the statistics the table and the walks behave as in Pagination.
LEMMA StatsRefinesSpec == StatsSpec => Spec
<1>1. StatsInit => Init
  BY DEF StatsInit
<1>2. [StatsNext]_<<vars, statsVars>> => [Next]_vars
  BY DEF StatsNext, Walk, Write, GetStats, CountBookmarks, CountTags, SelectTopTags,
         CountPerMonth, Read, Next
<1> QED
  BY <1>1, <1>2, PTL DEF StatsSpec, Spec

-----------------------------------------------------------------------------

\* Between any two statements of a walk by cursor, what lies at or above the
\* cursor has been sent exactly once (BookmarkService.list, list_keyset).
LEMMA CursorWalkIsExact == Spec => []CursorWalks
BY ExactInit, ExactStep, PTL DEF Spec

\* A walk by cursor sends no bookmark twice.
THEOREM CursorWalkSendsOnce == Spec => []CursorWalkNeverRepeats
<1>1. CursorWalks => CursorWalkNeverRepeats
  BY DEF CursorWalks, CursorInv, CursorWalkNeverRepeats
<1> QED
  BY <1>1, CursorWalkIsExact, PTL

\* A finished walk by cursor has sent all that stayed in the listing.
THEOREM CursorWalkSendsAll == Spec => []CursorWalkMissesNothing
<1>1. CursorWalks => CursorWalkMissesNothing
  BY DEF CursorWalks, CursorInv, CursorWalkMissesNothing
<1> QED
  BY <1>1, CursorWalkIsExact, PTL

\* While nobody writes, the pages by number that have been sent are what the
\* order puts before the offset, and no page is announced that has no row; a
\* walk by cursor is exact beside any writers (BookmarkService.list,
\* list_offset, list_keyset, the page metadata).
THEOREM WalksAreExact == Spec => []ExactWalks
<1>1. Init => CursorWalks /\ OffsetInv
  BY ExactInit, OffsetInit DEF CursorWalks
<1>2. CursorWalks /\ OffsetInv /\ [Next]_vars => OffsetInv'
  BY OffsetStep DEF CursorWalks
<1> QED
  BY <1>1, <1>2, CursorWalkIsExact, PTL DEF Spec, ExactWalks

\* A walk by page number beside no writer sends each bookmark once, and all of
\* them, for every page size and number of rows.
THEOREM QuietPagesAreExact == Spec => []QuietOffsetWalkIsExact
<1>1. ExactWalks => QuietOffsetWalkIsExact
  BY DEF ExactWalks, OffsetInv, QuietOffsetWalkIsExact
<1> QED
  BY <1>1, WalksAreExact, PTL

\* Each figure of the statistics is right of the table its statement read, and
\* the table has moved on by at most the commits in between
\* (StatsRepository.get_stats).
THEOREM FiguresFollowTheTable == StatsSpec => []FiguresInv
<1>1. StatsInit => FiguresInv
  BY StatsInitInv
<1>2. CursorWalks => TypeOK
  BY DEF CursorWalks
<1>3. /\ TypeOK /\ TypeOK' /\ FiguresInv /\ [StatsNext]_<<vars, statsVars>>
      => FiguresInv'
  BY StatsStep
<1> QED
  BY <1>1, <1>2, <1>3, StatsRefinesSpec, CursorWalkIsExact, PTL DEF StatsSpec

\* Beside writers the figures disagree by no more than the commits between
\* their statements, and without one they describe one table.
THEOREM StatsDriftIsBounded == StatsSpec => []FiguresDriftByCommits
<1>1. FiguresInv => FiguresDriftByCommits
  BY DEF FiguresInv, FiguresDriftByCommits
<1> QED
  BY <1>1, FiguresFollowTheTable, PTL

=============================================================================
