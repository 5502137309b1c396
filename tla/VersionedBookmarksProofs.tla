----------------------- MODULE VersionedBookmarksProofs -----------------------
(***************************************************************************)
(* What the clients of Bookmarks are answered, as long as no id returns:   *)
(* the answers agree with each other and come in order, and the statements *)
(* of each request behave as the one atomic step of VersionedBookmarks.    *)
(***************************************************************************)
EXTENDS BookmarksProofs

-----------------------------------------------------------------------------
(* Views *)

LEMMA BlankWithTags ==
  ASSUME TypeOK, NEW c \in Clients, loaded[c] = NoView
  PROVE  WithTags(c) = NoView
<1>1. LinksOf(0) = {}
  BY DEF LinksOf, Exists, TypeOK
<1> QED
  BY <1>1 DEF WithTags, NoView

\* How the object of a session may change in one step of it.
LEMMA LoadedStep ==
  ASSUME TypeOK, SessionsOK, NEW c \in Clients, Begin(c) \/ Step(c)
  PROVE  \/ loaded'[c] = loaded[c] /\ ~InHand(c)'
         \/ loaded'[c] = NoView /\ ~InHand(c)'
         \/ loaded'[c] = WithTags(c) /\ ~InHand(c)'
         \/ /\ InHand(c)' /\ rows' = rows
            /\ \E id \in DOMAIN rows : loaded'[c] = ViewOf(id)
         \/ InsertRow(c) /\ ~InHand(c)'
<1>1. CASE Refusal(c) \/ Delivery(c) \/ DeleteRow(c)
  BY <1>1, RefusalEnds, DeliveryEnds, DeleteRowTables DEF Ended, InHand
<1>2. CASE Begin(c)
  <2>1. pc'[c] \in {"load", "insertRow", "selectTags"} /\ loaded' = loaded
    BY <1>2 DEF Begin, Goto, TypeOK
  <2> QED
    BY <2>1 DEF InHand
<1>3. CASE LoadRow(c) \/ RefreshRow(c)
  BY <1>3 DEF LoadRow, RefreshRow, Goto, Owned, Exists, db, TypeOK, InHand
<1>4. CASE PassPrecondition(c)
  BY <1>4 DEF PassPrecondition, AfterPrecondition, Goto, TypeOK, InHand
<1>5. CASE SelectTags(c) \/ UpdateRow(c) \/ DeleteLinks(c) \/ LoseRace(c)
  BY <1>5 DEF SelectTags, UpdateRow, DeleteLinks, LoseRace, WriteOf, Goto, TypeOK, InHand
<1>6. CASE InsertTag(c)
  <2>1. loaded' = loaded
    BY <1>6 DEF InsertTag
  <2> QED
    BY <1>6, <2>1, InsertTagFacts DEF WriteOf, InHand
<1>7. CASE InsertRow(c) \/ UpdateLinks(c)
  <2>1. Goto(c, "refresh") /\ (InsertRow(c) \/ loaded' = loaded)
    BY <1>7, Zenon DEF InsertRow, UpdateLinks
  <2> QED
    BY <2>1 DEF Goto, TypeOK, InHand
<1> QED
  BY <1>1, <1>2, <1>3, <1>4, <1>5, <1>6, <1>7, StepCases

LEMMA ViewsOfRowsStep ==
  ASSUME TypeOK, SessionsOK, ViewsOfRows, NEW c \in Clients, Begin(c) \/ Step(c)
  PROVE  ViewsOfRows'
<1>1. WithTags(c).id = 0 => WithTags(c) = NoView
  BY BlankWithTags, WithTagsType DEF ViewsOfRows
<1>2. seen'[c].id = 0 => seen'[c] = NoView
  BY <1>1, SeenStep DEF ViewsOfRows
<1>3. loaded'[c].id = 0 => loaded'[c] = NoView
  <2>1. \A id \in DOMAIN rows : ViewOf(id).id # 0
    BY ViewOfType DEF TypeOK
  <2>2. InsertRow(c) => loaded'[c].id # 0
    BY InsertRowTables
  <2> QED
    BY <1>1, <2>1, <2>2, LoadedStep DEF ViewsOfRows
<1>4. \A d \in Clients \ {c} : seen'[d] = seen[d] /\ loaded'[d] = loaded[d]
  BY OthersUntouched DEF SameSession
<1> QED
  BY <1>2, <1>3, <1>4 DEF ViewsOfRows

-----------------------------------------------------------------------------
(* Answers agree *)

LEMMA BodiesStep ==
  ASSUME TypeOK, SessionsOK, HeldETagNamesSeenContent, BodiesFixed,
         \A c \in Clients : LoadedOK(c),
         NEW c \in Clients, Begin(c) \/ Step(c)
  PROVE  BodiesFixed'
<1>1. \A d \in Clients \ {c} : /\ seen'[d] = seen[d] /\ loaded'[d] = loaded[d]
                               /\ InHand(d)' <=> InHand(d)
  BY OthersUntouched DEF SameSession, InHand
<1>2. \A d \in Clients : SameBody(seen'[c], seen[d])
                         /\ (InHand(d) => SameBody(loaded[d], seen'[c]))
  <2>1. CASE seen'[c] = seen[c]
    BY <2>1 DEF BodiesFixed
  <2>2. CASE seen'[c] = WithTags(c) /\ InHand(c)
    BY <2>2, WithTagsType DEF BodiesFixed, SameBody
  <2> QED
    BY <2>1, <2>2, SeenStep DEF InHand
<1>3. ASSUME InHand(c)'
      PROVE  \A d \in Clients :
               /\ SameBody(loaded'[c], seen[d])
               /\ InHand(d) => SameBody(loaded'[c], loaded[d])
  <2>1. PICK id \in DOMAIN rows : loaded'[c] = ViewOf(id)
    BY <1>3, LoadedStep
  <2>2. /\ loaded'[c].id = id /\ loaded'[c].version = rows[id].version
        /\ loaded'[c].body = rows[id].body
    BY <2>1, ViewOfType
  <2>3. \A d \in Clients : SameBody(loaded'[c], seen[d])
    BY <2>2 DEF SameBody, HeldETagNamesSeenContent, OlderOrSame, SameContent
  <2>4. \A d \in Clients : InHand(d) => SameBody(loaded'[c], loaded[d])
    BY <2>2 DEF SameBody, LoadedOK, InHand, Exists
  <2> QED
    BY <2>3, <2>4
<1>4. InHand(c)' => seen'[c] = seen[c]
  <2>1. CASE Refusal(c) \/ Delivery(c) \/ DeleteRow(c)
    BY <2>1, RefusalEnds, DeliveryEnds, DeleteRowTables DEF Ended, InHand
  <2>2. CASE \/ Begin(c) \/ LoadRow(c) \/ PassPrecondition(c) \/ SelectTags(c)
             \/ InsertTag(c) \/ InsertRow(c) \/ UpdateRow(c) \/ UpdateLinks(c)
             \/ DeleteLinks(c) \/ LoseRace(c) \/ RefreshRow(c)
    BY <2>2 DEF Begin, LoadRow, PassPrecondition, SelectTags, InsertTag, InsertRow,
                UpdateRow, UpdateLinks, DeleteLinks, LoseRace, RefreshRow
  <2> QED
    BY <2>1, <2>2, StepCases
<1>5. ASSUME NEW d \in Clients, NEW e \in Clients
      PROVE  /\ SameBody(seen'[d], seen'[e])
             /\ InHand(d)' => SameBody(loaded'[d], seen'[e])
             /\ InHand(d)' /\ InHand(e)' => SameBody(loaded'[d], loaded'[e])
  BY <1>1, <1>2, <1>3, <1>4 DEF BodiesFixed, SameBody
<1> QED
  BY <1>5 DEF BodiesFixed

-----------------------------------------------------------------------------
(* Answers come in order *)

LEMMA LoadedAfterSeenStep ==
  ASSUME TypeOK, SessionsOK, IdsFresh, HeldETagNamesSeenContent, ViewsOfRows,
         LoadedAfterSeen, NEW c \in Clients, Begin(c) \/ Step(c)
  PROVE  LoadedAfterSeen'
<1>1. ASSUME NEW d \in Clients \ {c}
      PROVE  loaded'[d].id = seen'[d].id => seen'[d].version <= loaded'[d].version
  BY OthersUntouched DEF SameSession, LoadedAfterSeen
<1>2. \A d \in Clients : seen[d] \in View /\ loaded[d] \in View
  BY DEF TypeOK
<1>3. NoView.id = 0 /\ NoView.version = 0
  BY DEF NoView
<1>4. ASSUME loaded'[c].id = seen'[c].id
      PROVE  seen'[c].version <= loaded'[c].version
  <2>1. CASE Refusal(c) \/ Delivery(c) \/ DeleteRow(c)
    <3>1. loaded'[c] = NoView
      BY <2>1, RefusalEnds, DeliveryEnds, DeleteRowTables DEF Ended
    <3>2. seen'[c] = NoView
      BY <1>3, <1>4, <3>1, ViewsOfRowsStep DEF ViewsOfRows
    <3> QED
      BY <1>3, <3>1, <3>2
  <2>2. CASE ~(Refusal(c) \/ Delivery(c) \/ DeleteRow(c))
    <3>1. seen' = seen
      BY <2>2, StepCases DEF Begin, LoadRow, PassPrecondition, SelectTags, InsertTag,
         InsertRow, UpdateRow, UpdateLinks, DeleteLinks, LoseRace, RefreshRow
    <3>2. CASE loaded'[c] = loaded[c] \/ loaded'[c] = WithTags(c)
      BY <1>4, <3>1, <3>2, WithTagsType DEF LoadedAfterSeen
    <3>3. CASE loaded'[c] = NoView
      BY <1>2, <1>3, <1>4, <3>1, <3>3 DEF ViewsOfRows
    <3>4. CASE \E id \in DOMAIN rows : loaded'[c] = ViewOf(id)
      BY <1>4, <3>1, <3>4, ViewOfType DEF HeldETagNamesSeenContent, OlderOrSame
    <3>5. CASE InsertRow(c)
      <4>1. PICK new \in Nat \ {0} : IsNewId(new) /\ loaded'[c].id = new
        BY <3>5, InsertRowTables
      <4>2. ~Used(new) /\ Used(seen[c].id)
        BY <4>1, NewIdUnused DEF IdsFresh, RowsFresh
      <4> QED
        BY <1>4, <3>1, <4>1, <4>2
    <3> QED
      BY <3>2, <3>3, <3>4, <3>5, LoadedStep
  <2> QED
    BY <2>1, <2>2
<1> QED
  BY <1>1, <1>4 DEF LoadedAfterSeen
-----------------------------------------------------------------------------
(* Each session works on a row of its user *)

LEMMA ForwardKeepsOwner ==
  ASSUME TypeOK, Forward, NEW id \in Nat, Used(id), id \in DOMAIN rows'
  PROVE  id \in DOMAIN rows /\ rows'[id].owner = rows[id].owner
BY DEF Forward

\* Where a request for a bookmark stands once its row has been found.
OnItsRow == {"loadTags", "selectTags"} \cup WriteStatements

LEMMA RowIdIsUsed ==
  ASSUME TypeOK, SessionsOK, IdsFresh, NEW c \in Clients,
         pc[c] \in OnItsRow, call[c].op # "create"
  PROVE  call[c].id \in Nat /\ Used(call[c].id)
<1>1. loaded[c].id = call[c].id
  BY DEF SessionsOK, SessionOK, OnItsRow
<1> QED
  BY <1>1 DEF IdsFresh, RowsFresh, TypeOK, View

LEMMA ReachesRow ==
  ASSUME TypeOK, SessionsOK, NEW c \in Clients, Begin(c) \/ Step(c),
         pc'[c] \in OnItsRow, call'[c].op # "create"
  PROVE  /\ call'[c] = call[c]
         /\ \/ pc[c] \in OnItsRow
            \/ Owned(c) /\ rows' = rows
<1> USE DEF OnItsRow, WriteStatements
<1>1. CASE Refusal(c) \/ Delivery(c) \/ DeleteRow(c)
  BY <1>1, RefusalEnds, DeliveryEnds, DeleteRowTables DEF Ended
<1>2. CASE Begin(c)
  <2>1. PICK request \in Calls :
          /\ call' = [call EXCEPT ![c] = request]
          /\ Goto(c, IF request.op # "create" THEN "load"
                     ELSE IF request.tags = <<>> THEN "insertRow" ELSE "selectTags")
    BY <1>2 DEF Begin
  <2> QED
    BY <2>1 DEF Goto, TypeOK
<1>3. CASE LoadRow(c)
  BY <1>3 DEF LoadRow, db
<1>4. CASE PassPrecondition(c) \/ SelectTags(c) \/ UpdateRow(c) \/ DeleteLinks(c)
  BY <1>4 DEF PassPrecondition, SelectTags, UpdateRow, DeleteLinks, At
<1>5. CASE InsertTag(c)
  BY <1>5, InsertTagFacts
<1>6. CASE InsertRow(c) \/ UpdateLinks(c) \/ LoseRace(c) \/ RefreshRow(c)
  <2>1. Goto(c, "refresh") \/ Goto(c, "reread") \/ Goto(c, "refreshTags")
    BY <1>6, Zenon DEF InsertRow, UpdateLinks, LoseRace, RefreshRow
  <2> QED
    BY <2>1 DEF Goto, TypeOK
<1> QED
  BY <1>1, <1>2, <1>3, <1>4, <1>5, <1>6, StepCases

LEMMA RowIsOwnStep ==
  ASSUME TypeOK, SessionsOK, IdsFresh, Forward, \A c \in Clients : RowIsOwn(c),
         NEW c \in Clients, Begin(c) \/ Step(c), NEW d \in Clients
  PROVE  RowIsOwn(d)'
<1> SUFFICES ASSUME pc'[d] \in OnItsRow, call'[d].op # "create",
                    call'[d].id \in DOMAIN rows'
             PROVE  rows'[call'[d].id].owner = call'[d].user
  BY DEF RowIsOwn, OnItsRow, Exists, WriteStatements
<1>1. /\ call'[d] = call[d]
      /\ pc[d] \in OnItsRow \/ (Owned(d) /\ rows' = rows)
  BY ReachesRow, OthersUntouched DEF SameSession
<1>2. CASE pc[d] \in OnItsRow
  BY <1>1, <1>2, RowIdIsUsed, ForwardKeepsOwner DEF RowIsOwn, OnItsRow, Exists
<1>3. CASE Owned(d) /\ rows' = rows
  BY <1>1, <1>3 DEF Owned
<1> QED
  BY <1>1, <1>2, <1>3

LEMMA AnswersItsRowStep ==
  ASSUME TypeOK, SessionsOK, \A c \in Clients : AnswersItsRow(c),
         NEW c \in Clients, Begin(c) \/ Step(c), NEW d \in Clients
  PROVE  AnswersItsRow(d)'
<1>1. CASE d # c
  BY <1>1, OthersUntouched DEF SameSession, AnswersItsRow
<1>2. CASE d = c
  <2> SUFFICES ASSUME pc'[c] \in {"refresh", "refreshTags"}, call'[c].op = "update"
               PROVE  loaded'[c].id = call'[c].id
    BY <1>2 DEF AnswersItsRow
  <2>1. CASE \/ Refusal(c) \/ Delivery(c) \/ DeleteRow(c)
    BY <2>1, RefusalEnds, DeliveryEnds, DeleteRowTables DEF Ended
  <2>2. CASE \/ Begin(c) \/ LoadRow(c) \/ PassPrecondition(c) \/ SelectTags(c)
             \/ UpdateRow(c) \/ DeleteLinks(c) \/ LoseRace(c)
    BY <2>2 DEF Begin, LoadRow, PassPrecondition, AfterPrecondition, SelectTags,
                UpdateRow, DeleteLinks, LoseRace, WriteOf, Goto, TypeOK
  <2>3. CASE InsertTag(c)
    BY <2>3, InsertTagFacts DEF WriteOf
  <2>4. CASE InsertRow(c)
    BY <2>4 DEF InsertRow, At, SessionsOK, SessionOK
  <2>5. CASE UpdateLinks(c)
    BY <2>5 DEF UpdateLinks, At, SessionsOK, SessionOK, WriteStatements
  <2>6. CASE RefreshRow(c)
    <3>1. /\ pc[c] = "refresh" /\ call'[c] = call[c]
          /\ loaded'[c] = ViewOf(loaded[c].id) /\ loaded[c].id \in DOMAIN rows
      BY <2>6 DEF RefreshRow, At, Exists, TypeOK
    <3> QED
      BY <3>1, ViewOfType DEF AnswersItsRow
  <2> QED
    BY <2>1, <2>2, <2>3, <2>4, <2>5, <2>6, StepCases
<1> QED
  BY <1>1, <1>2

-----------------------------------------------------------------------------
(* The invariant about answers *)

LEMMA AnswersInvInit == Init => AnswersInv
<1> SUFFICES ASSUME Init PROVE AnswersInv
  OBVIOUS
<1>1. \A c \in Clients : pc[c] = "idle" /\ seen[c] = NoView /\ loaded[c] = NoView
  BY DEF Init
<1>2. ViewsOfRows /\ BodiesFixed /\ LoadedAfterSeen
  BY <1>1 DEF ViewsOfRows, BodiesFixed, LoadedAfterSeen, SameBody, NoView
<1>3. \A c \in Clients : RowIsOwn(c) /\ AnswersItsRow(c)
  BY <1>1 DEF RowIsOwn, AnswersItsRow, WriteStatements
<1> QED
  BY <1>2, <1>3 DEF AnswersInv

LEMMA AnswersInvStep ==
  ASSUME InductiveInvariant, AnswersInv, [Next]_vars, [NoReturn]_vars
  PROVE  AnswersInv'
<1> USE DEF InductiveInvariant, TagInv, VersionInv, AnswersInv
<1>1. CASE UNCHANGED vars
  BY <1>1 DEF vars, db, ViewsOfRows, BodiesFixed, LoadedAfterSeen, InHand, RowIsOwn,
              AnswersItsRow, Exists
<1>2. CASE Crash
  <2>1. /\ \A c \in Clients : pc'[c] = "idle" /\ loaded'[c] = NoView
        /\ seen' = seen
    BY <1>2 DEF Crash
  <2>2. ViewsOfRows'
    BY <2>1 DEF ViewsOfRows
  <2>3. BodiesFixed'
    BY <2>1 DEF BodiesFixed, InHand
  <2>4. LoadedAfterSeen'
    BY <2>1 DEF LoadedAfterSeen, ViewsOfRows, NoView
  <2>5. \A c \in Clients : RowIsOwn(c)' /\ AnswersItsRow(c)'
    BY <2>1 DEF RowIsOwn, AnswersItsRow, WriteStatements
  <2> QED
    BY <2>2, <2>3, <2>4, <2>5
<1>3. ASSUME NEW c \in Clients, Begin(c) \/ Step(c)
      PROVE  AnswersInv'
  <2>1. Forward
    BY <1>3, StillNoReturn, TypeStep, StepForward DEF IdsFresh
  <2>2. ViewsOfRows' /\ BodiesFixed' /\ LoadedAfterSeen'
    BY <1>3, ViewsOfRowsStep, BodiesStep, LoadedAfterSeenStep
  <2>3. \A d \in Clients : RowIsOwn(d)' /\ AnswersItsRow(d)'
    BY <1>3, <2>1, RowIsOwnStep, AnswersItsRowStep
  <2> QED
    BY <2>2, <2>3
<1> QED
  BY <1>1, <1>2, <1>3 DEF Next

LEMMA BothInvariants ==
  Spec /\ IdsNeverReturn => [](InductiveInvariant /\ AnswersInv)
<1>1. Init => AnswersInv
  BY AnswersInvInit
<1>2. InductiveInvariant /\ AnswersInv /\ [Next]_vars /\ [NoReturn]_vars => AnswersInv'
  BY AnswersInvStep
<1> QED
  BY <1>1, <1>2, SessionsKnowTheirRows, PTL DEF Spec, IdsNeverReturn

\* What the answers rest on, inductive together with InductiveInvariant: every
\* client is sent versions in order and bodies that agree, and no session works
\* on the row of another user.
THEOREM AnswersKept ==
  Spec /\ IdsNeverReturn => []AnswersInv
BY BothInvariants, PTL

\* One ETag never stands for two bodies, whoever is sent it and whenever
\* (BookmarkService.get, BookmarkRepository.update and add, the ETag service).
THEOREM ETagNamesOneBody ==
  Spec /\ IdsNeverReturn => []ETagFixesBody
<1>1. AnswersInv => ETagFixesBody
  BY DEF AnswersInv, BodiesFixed, SameBody, ETagFixesBody
<1> QED
  BY <1>1, AnswersKept, PTL

-----------------------------------------------------------------------------
(* No answer carries an ETag its client has left behind *)

LEMMA EndingETag ==
  ASSUME TypeOK, SessionsOK, NEW c \in Clients, Step(c), pc'[c] = "idle",
         reply'[c].etag # 0
  PROVE  \/ pc[c] = "loadTags" /\ reply'[c].etag = loaded[c].version
         \/ pc[c] = "refreshTags" /\ reply'[c].etag = loaded[c].version
         \/ Owned(c) /\ reply'[c].etag = rows[call[c].id].version
<1>1. \A status, etag : Finish(c, status, etag) => reply'[c].etag = etag
  BY DEF Finish, Reply, TypeOK
<1>2. \A status, etag : Refuse(c, status, etag) => reply'[c].etag = etag
  BY <1>1 DEF Refuse
<1>3. \A status, view : Send(c, status, view) => reply'[c].etag = view.version
  BY <1>1 DEF Send
<1>4. CASE RequirePrecondition(c) \/ FailPrecondition(c)
  BY <1>2, <1>4 DEF RequirePrecondition, FailPrecondition, At
<1>5. CASE Delivery(c)
  BY <1>3, <1>5, WithTagsType DEF Delivery, ServeGet, ServeWrite, At
<1>6. CASE ReportConflict(c)
  <2>1. reply'[c].etag = IF Owned(c) THEN rows[call[c].id].version ELSE 0
    BY <1>2, <1>6 DEF ReportConflict
  <2> QED
    BY <2>1
<1>7. CASE \/ NotFound(c) \/ TagExists(c) \/ RefreshGone(c)
           \/ DeadlockVictim(c) \/ LockTimeout(c)
  BY <1>2, <1>7 DEF NotFound, TagExists, RefreshGone, DeadlockVictim, LockTimeout
<1>8. CASE DeleteRow(c)
  BY <1>1, <1>8 DEF DeleteRow
<1>9. ~Refusal(c) /\ ~Delivery(c) /\ ~DeleteRow(c) => pc'[c] # "idle"
  <2>1. CASE LoadRow(c) \/ SelectTags(c) \/ UpdateRow(c) \/ DeleteLinks(c) \/ RefreshRow(c)
    BY <2>1 DEF LoadRow, SelectTags, UpdateRow, DeleteLinks, RefreshRow, WriteOf, Goto, TypeOK
  <2>2. CASE PassPrecondition(c)
    BY <2>2 DEF PassPrecondition, AfterPrecondition, Goto, TypeOK
  <2>3. CASE InsertTag(c)
    BY <2>3, InsertTagFacts DEF WriteOf
  <2>4. CASE InsertRow(c) \/ UpdateLinks(c) \/ LoseRace(c)
    <3>1. Goto(c, "refresh") \/ Goto(c, "reread")
      BY <2>4, Zenon DEF InsertRow, UpdateLinks, LoseRace
    <3> QED
      BY <3>1 DEF Goto, TypeOK
  <2> QED
    BY <2>1, <2>2, <2>3, <2>4, StepCases
<1> QED
  BY <1>4, <1>5, <1>6, <1>7, <1>8, <1>9 DEF Refusal

LEMMA AnswersForwardStep ==
  ASSUME InductiveInvariant, AnswersInv, [Next]_vars, [NoReturn]_vars
  PROVE  [AnswersMoveForward]_vars
<1> SUFFICES ASSUME NEW c \in Clients, pc[c] # "idle", pc'[c] = "idle",
                    call[c].id = seen[c].id, reply'[c].etag # 0
             PROVE  reply'[c].etag >= seen[c].version
  BY DEF AnswersMoveForward
<1>1. TypeOK /\ SessionsOK /\ HeldETagNamesSeenContent /\ reply[c].etag = 0
  BY DEF InductiveInvariant, TagInv, VersionInv, Unanswered, NoReply, Reply
<1>2. PICK d \in Clients : Begin(d) \/ Step(d)
  BY <1>1 DEF Next, Crash, vars, db
<1>3. d = c
  BY <1>1, <1>2, OthersUntouched DEF SameSession
<1>4. Step(c)
  BY <1>2, <1>3 DEF Begin
<1>5. /\ seen[c].version \in Nat /\ loaded[c].version \in Nat
      /\ seen[c].id = 0 => seen[c].version = 0
  BY <1>1 DEF TypeOK, View, AnswersInv, ViewsOfRows, NoView
<1>6. CASE /\ pc[c] \in {"loadTags", "refreshTags"}
           /\ reply'[c].etag = loaded[c].version
  <2>1. CASE call[c].op = "create"
    <3>1. call[c] \in Calls
      BY <1>1 DEF SessionsOK, SessionOK
    <3>2. seen[c].version = 0
      BY <1>5, <2>1, <3>1, CallsAssumption
    <3> QED
      BY <1>5, <1>6, <3>2
  <2>2. CASE call[c].op # "create"
    <3>1. loaded[c].id = call[c].id
      BY <1>1, <1>6, <2>2 DEF SessionsOK, SessionOK, AnswersInv, AnswersItsRow
    <3> QED
      BY <1>5, <1>6, <3>1 DEF AnswersInv, LoadedAfterSeen
  <2> QED
    BY <2>1, <2>2
<1>7. CASE Owned(c) /\ reply'[c].etag = rows[call[c].id].version
  <2>1. seen[c].version <= rows[call[c].id].version
    BY <1>1, <1>7 DEF HeldETagNamesSeenContent, OlderOrSame, Owned, Exists
  <2>2. rows[call[c].id].version \in Nat
    BY <1>1, <1>7 DEF Owned, Exists, TypeOK, Row
  <2> QED
    BY <1>5, <1>7, <2>1, <2>2
<1> QED
  BY <1>1, <1>4, <1>6, <1>7, EndingETag

\* No client is ever told an older version of a bookmark than it was sent
\* before: by a read, a refused precondition, a lost race or its own write
\* (the ETag headers of the router, BookmarkService._conflict).
THEOREM ETagsNeverGoBack ==
  Spec /\ IdsNeverReturn => ETagsMoveForward
<1>1. /\ InductiveInvariant /\ AnswersInv /\ [Next]_vars /\ [NoReturn]_vars
      => [AnswersMoveForward]_vars
  BY AnswersForwardStep
<1> QED
  BY <1>1, BothInvariants, PTL DEF Spec, IdsNeverReturn, ETagsMoveForward

-----------------------------------------------------------------------------
(* The refinement: how the abstract variables move *)

PhaseOf(statement) ==
  IF statement = "idle" THEN "idle"
  ELSE IF statement \in {"refresh", "refreshTags"} THEN "applied" ELSE "pending"

AnswerOf(status) ==
  IF status = 0 THEN "none"
  ELSE IF status \in {200, 201, 204} THEN "ok"
  ELSE IF status = 500 THEN "error" ELSE "refused"

LEMMA PhaseMoves ==
  ASSUME TypeOK, NEW c \in Clients, NEW statement, Goto(c, statement)
  PROVE  Phase' = [Phase EXCEPT ![c] = PhaseOf(statement)]
<1>1. \A d \in Clients : pc'[d] = IF d = c THEN statement ELSE pc[d]
  BY DEF Goto, TypeOK
<1>2. Phase = [d \in Clients |-> PhaseOf(pc[d])]
  BY DEF Phase, PhaseOf
<1>3. Phase' = [d \in Clients |-> PhaseOf(pc'[d])]
  BY DEF Phase, PhaseOf
<1> QED
  BY <1>1, <1>2, <1>3

LEMMA AnswerMoves ==
  ASSUME TypeOK, NEW c \in Clients, NEW status, NEW etag,
         reply' = [reply EXCEPT ![c] = Reply(status, etag)]
  PROVE  Answer' = [Answer EXCEPT ![c] = AnswerOf(status)]
<1>1. \A d \in Clients : reply'[d].status = IF d = c THEN status ELSE reply[d].status
  BY DEF Reply, TypeOK
<1>2. Answer = [d \in Clients |-> AnswerOf(reply[d].status)]
  BY DEF Answer, AnswerOf
<1>3. Answer' = [d \in Clients |-> AnswerOf(reply'[d].status)]
  BY DEF Answer, AnswerOf
<1> QED
  BY <1>1, <1>2, <1>3

LEMMA FinishReplies ==
  ASSUME TypeOK, NEW c \in Clients, NEW status, NEW etag, Finish(c, status, etag)
  PROVE  Abstract!Reply(c, AnswerOf(status))
<1>1. Phase' = [Phase EXCEPT ![c] = "idle"]
  BY PhaseMoves DEF Finish, PhaseOf
<1>2. Answer' = [Answer EXCEPT ![c] = AnswerOf(status)]
  BY AnswerMoves DEF Finish
<1> QED
  BY <1>1, <1>2 DEF Finish, Abstract!Reply

\* Statements that bring a request no nearer to its effect are not seen.
LEMMA StatementStutters ==
  ASSUME TypeOK, NEW c \in Clients, NEW statement, Goto(c, statement),
         PhaseOf(statement) = PhaseOf(pc[c]), UNCHANGED <<rows, call, reply>>
  PROVE  UNCHANGED Abstract!avars
<1>1. Phase' = Phase
  <2>1. Phase[c] = PhaseOf(pc[c]) /\ Phase = [d \in Clients |-> Phase[d]]
    BY DEF Phase, PhaseOf
  <2> QED
    BY <2>1, PhaseMoves
<1>2. Answer' = Answer
  BY DEF Answer
<1> QED
  BY <1>1, <1>2 DEF Abstract!avars

LEMMA PhaseHere == ASSUME NEW c \in Clients PROVE Phase[c] = PhaseOf(pc[c])
BY DEF Phase, PhaseOf

-----------------------------------------------------------------------------
(* The refinement: one lemma for each kind of step *)

LEMMA BeginInvokes ==
  ASSUME TypeOK, NEW c \in Clients, Begin(c)
  PROVE  Abstract!Invoke(c)
<1>1. PICK request \in Calls :
        /\ call' = [call EXCEPT ![c] = request]
        /\ Goto(c, IF request.op # "create" THEN "load"
                   ELSE IF request.tags = <<>> THEN "insertRow" ELSE "selectTags")
  BY DEF Begin
<1>2. Phase' = [Phase EXCEPT ![c] = "pending"]
  BY <1>1, PhaseMoves DEF PhaseOf
<1>3. Answer' = [Answer EXCEPT ![c] = "none"]
  BY AnswerMoves DEF Begin, NoReply, AnswerOf
<1>4. Phase[c] = "idle" /\ rows' = rows
  BY PhaseHere DEF Begin, PhaseOf, db
<1> QED
  BY <1>1, <1>2, <1>3, <1>4 DEF Abstract!Invoke

LEMMA QuietStatementsStutter ==
  ASSUME TypeOK, SessionsOK, NEW c \in Clients,
         \/ LoadRow(c) \/ PassPrecondition(c) \/ SelectTags(c) \/ InsertTag(c)
         \/ UpdateRow(c) \/ DeleteLinks(c) \/ LoseRace(c) \/ RefreshRow(c)
  PROVE  UNCHANGED Abstract!avars
<1>1. UNCHANGED <<rows, call, reply>>
  BY DEF LoadRow, PassPrecondition, SelectTags, InsertTag, UpdateRow, DeleteLinks,
         LoseRace, RefreshRow, db
<1>2. PICK statement : Goto(c, statement) /\ PhaseOf(statement) = PhaseOf(pc[c])
  <2>1. CASE LoadRow(c) \/ UpdateRow(c) \/ DeleteLinks(c) \/ RefreshRow(c)
    BY <2>1 DEF LoadRow, UpdateRow, DeleteLinks, RefreshRow, At, PhaseOf
  <2>2. CASE LoseRace(c)
    BY <2>2 DEF LoseRace, WriteStatements, PhaseOf
  <2>3. CASE PassPrecondition(c)
    <3>1. Goto(c, AfterPrecondition(c)) /\ pc[c] = "loadTags"
      BY <2>3 DEF PassPrecondition, At
    <3>2. PhaseOf(AfterPrecondition(c)) = "pending"
      BY DEF PhaseOf, AfterPrecondition
    <3> QED
      BY <3>1, <3>2 DEF PhaseOf
  <2>4. CASE SelectTags(c) \/ InsertTag(c)
    <3>1. /\ Goto(c, WriteOf(c)) \/ Goto(c, "insertTag")
          /\ pc[c] \in {"selectTags", "insertTag"}
      BY <2>4 DEF SelectTags, InsertTag, At
    <3>2. PhaseOf(WriteOf(c)) = "pending" /\ PhaseOf("insertTag") = "pending"
      BY DEF PhaseOf, WriteOf
    <3> QED
      BY <3>1, <3>2 DEF PhaseOf
  <2> QED
    BY <2>1, <2>2, <2>3, <2>4
<1> QED
  BY <1>1, <1>2, StatementStutters

\* A refusal comes before the effect, with one exception: the row is gone when
\* the committed write is read back.
LEMMA RefusalRefuses ==
  ASSUME TypeOK, SessionsOK, NEW c \in Clients, Refusal(c)
  PROVE  Abstract!Refuse(c) \/ Abstract!Conclude(c)
<1>1. PICK status \in {404, 412, 428, 500} : \E etag : Refuse(c, status, etag)
  BY DEF Refusal, NotFound, RequirePrecondition, FailPrecondition, TagExists,
         ReportConflict, RefreshGone, DeadlockVictim, LockTimeout
<1>2. Abstract!Reply(c, AnswerOf(status)) /\ rows' = rows
  BY <1>1, FinishReplies DEF Refuse, db
<1>3. AnswerOf(status) \in {"refused", "error"}
  BY DEF AnswerOf
<1>4. CASE RefreshGone(c)
  <2>1. PICK mark : Refuse(c, 500, mark)
    BY <1>4 DEF RefreshGone
  <2>2. Abstract!Reply(c, "error")
    BY <2>1, FinishReplies DEF Refuse, AnswerOf
  <2>3. Phase[c] = "applied"
    BY <1>4, PhaseHere DEF RefreshGone, At, PhaseOf
  <2> QED
    BY <1>2, <2>2, <2>3 DEF Abstract!Conclude
<1>5. CASE ~RefreshGone(c)
  <2>1. DeadlockVictim(c) \/ LockTimeout(c) => pc[c] \in WriteStatements
    <3> SUFFICES ASSUME DeadlockVictim(c) \/ LockTimeout(c)
                 PROVE  pc[c] \in WriteStatements
      OBVIOUS
    <3>1. PICK o : BlockedBy(c, o)
      BY DEF DeadlockVictim, Circle, LockTimeout, Blocked
    <3> QED
      BY <3>1 DEF BlockedBy, BlockedByKeyOrRow, WriteStatements
  <2>2. pc[c] \in {"load", "loadTags", "insertTag", "reread"} \cup WriteStatements
    BY <1>5, <2>1 DEF Refusal, NotFound, RequirePrecondition, FailPrecondition,
       TagExists, ReportConflict, At
  <2>3. Phase[c] = "pending"
    BY <2>2, PhaseHere DEF PhaseOf, WriteStatements
  <2> QED
    BY <1>2, <1>3, <2>3 DEF Abstract!Refuse
<1> QED
  BY <1>4, <1>5

LEMMA DeliveryConcludes ==
  ASSUME TypeOK, SessionsOK, NEW c \in Clients, Delivery(c)
  PROVE  Abstract!Conclude(c)
<1>1. PICK status \in {200, 201} : Send(c, status, WithTags(c))
  BY DEF Delivery, ServeGet, ServeWrite
<1>2. Abstract!Reply(c, "ok") /\ rows' = rows
  BY <1>1, FinishReplies DEF Send, AnswerOf, db
<1>3. \/ Phase[c] = "pending" /\ call[c].op = "get"
      \/ Phase[c] = "applied"
  BY PhaseHere DEF Delivery, ServeGet, ServeWrite, At, PhaseOf
<1> QED
  BY <1>2, <1>3 DEF Abstract!Conclude

LEMMA InsertCreates ==
  ASSUME TypeOK, SessionsOK, IdsFresh, NEW c \in Clients, InsertRow(c)
  PROVE  Abstract!ApplyCreate(c)
<1>1. PICK new \in Nat \ {0} :
        /\ IsNewId(new)
        /\ rows' = [id \in DOMAIN rows \cup {new} |->
                      IF id = new THEN NewRow(c) ELSE rows[id]]
  BY InsertRowTables
<1>2. new \notin DOMAIN rows
  BY <1>1, RowsAreUsed DEF IdsFresh
<1>3. /\ pc[c] = "insertRow" /\ Goto(c, "refresh")
      /\ UNCHANGED <<call, reply>>
  BY Zenon DEF InsertRow, At
<1>4. call[c].op = "create"
  BY <1>3 DEF SessionsOK, SessionOK
<1>5. Phase[c] = "pending" /\ Phase' = [Phase EXCEPT ![c] = "applied"]
  BY <1>3, PhaseHere, PhaseMoves DEF PhaseOf
<1>6. Answer' = Answer
  BY <1>3 DEF Answer
<1>7. Abstract!Names(call[c].tags) = Names(call[c].tags)
  BY DEF Abstract!Names, Names
<1>8. NewRow(c) = [owner |-> call[c].user, version |-> 1, body |-> call[c].body,
                   tags |-> Abstract!Names(call[c].tags)]
  BY <1>7 DEF NewRow
<1>9. new \in DOMAIN rows' \ DOMAIN rows
  BY <1>1, <1>2
<1> QED
  BY <1>1, <1>3, <1>4, <1>5, <1>6, <1>8, <1>9 DEF Abstract!ApplyCreate

\* When a write takes effect its precondition holds of the row it replaces.
LEMMA WriteIsAllowed ==
  ASSUME TypeOK, SessionsOK, NEW c \in Clients, RowIsOwn(c), SameVersion(c),
         pc[c] \in {"updateLinks", "deleteRow"}
  PROVE  Abstract!MayWrite(call[c])
<1>1. /\ call[c].ifMatch.present
      /\ Matches(call[c].ifMatch, loaded[c].version)
      /\ call[c].op # "create"
  BY DEF SessionsOK, SessionOK, WriteStatements
<1>2. call[c].id \in DOMAIN rows /\ rows[call[c].id].version = loaded[c].version
  BY DEF SameVersion, Exists
<1>3. rows[call[c].id].owner = call[c].user
  BY <1>1, <1>2 DEF RowIsOwn, WriteStatements, Exists
<1>4. Abstract!Matches(call[c].ifMatch, rows[call[c].id].version)
  BY <1>1, <1>2 DEF Matches, MakeETag, Abstract!Matches, Abstract!MakeETag
<1> QED
  BY <1>1, <1>2, <1>3, <1>4 DEF Abstract!MayWrite

LEMMA EditIsAsAsked ==
  ASSUME TypeOK, SessionsOK, NEW c \in Clients, LoadedOK(c), SameVersion(c),
         pc[c] = "updateLinks"
  PROVE  Edited(c, rows[call[c].id]) =
           [owner |-> rows[call[c].id].owner,
            version |-> rows[call[c].id].version + 1,
            body |-> Abstract!Asked(call[c].body, rows[call[c].id].body),
            tags |-> Abstract!AskedTags(call[c].tags, rows[call[c].id].tags)]
<1> DEFINE row == rows[call[c].id]
<1>1. row \in Row /\ row.version = loaded[c].version /\ call[c].id \in DOMAIN rows
  BY DEF SameVersion, Exists, TypeOK
<1>2. row.tags = loaded[c].tags
  <2>1. loaded[c].id = call[c].id
    BY DEF SessionsOK, SessionOK, WriteStatements
  <2> QED
    BY <1>1, <2>1 DEF LoadedOK, WriteStatements, OlderOrSame, SameContent
<1>3. /\ Edited(c, row) \in Row
      /\ Edited(c, row).owner = row.owner
      /\ Edited(c, row).version = loaded[c].version + 1
      /\ Edited(c, row).body = IF call[c].body = Null THEN row.body ELSE call[c].body
      /\ Edited(c, row).tags = (row.tags \ Unlinked(c)) \cup Linked(c)
  BY <1>1, EditedFields
<1>4. (row.tags \ Unlinked(c)) \cup Linked(c)
        = IF call[c].tags = Null THEN row.tags ELSE Names(call[c].tags)
  BY <1>2 DEF Unlinked, Linked
<1>5. /\ Edited(c, row).body = Abstract!Asked(call[c].body, row.body)
      /\ Edited(c, row).tags = Abstract!AskedTags(call[c].tags, row.tags)
      /\ Edited(c, row).version = row.version + 1
  BY <1>1, <1>3, <1>4 DEF Abstract!Asked, Abstract!AskedTags, Abstract!Names, Names
<1> QED
  BY <1>3, <1>5 DEF Row

LEMMA CommitUpdates ==
  ASSUME TypeOK, SessionsOK, LocksOK, NEW c \in Clients, LoadedOK(c), RowIsOwn(c),
         UpdateLinks(c)
  PROVE  Abstract!ApplyUpdate(c)
<1>1. /\ pc[c] = "updateLinks"
      /\ rows' = [rows EXCEPT ![call[c].id] = Edited(c, rows[call[c].id])]
  BY UpdateLinksTables
<1>2. Goto(c, "refresh") /\ UNCHANGED <<call, reply>>
  BY Zenon DEF UpdateLinks
<1>3. call[c].op = "update" /\ SameVersion(c)
  BY <1>1 DEF SessionsOK, SessionOK, LocksOK
<1>4. Phase[c] = "pending" /\ Phase' = [Phase EXCEPT ![c] = "applied"]
  BY <1>1, <1>2, PhaseHere, PhaseMoves DEF PhaseOf
<1>5. Answer' = Answer
  BY <1>2 DEF Answer
<1>6. Abstract!MayWrite(call[c])
  BY <1>1, <1>3, WriteIsAllowed
<1> QED
  BY <1>1, <1>2, <1>3, <1>4, <1>5, <1>6, EditIsAsAsked DEF Abstract!ApplyUpdate

LEMMA DeleteDeletes ==
  ASSUME TypeOK, SessionsOK, NEW c \in Clients, RowIsOwn(c), DeleteRow(c)
  PROVE  Abstract!ApplyDelete(c)
<1>1. pc[c] = "deleteRow" /\ SameVersion(c)
  BY DEF DeleteRow, At, Stale
<1>2. call[c].op = "delete"
  BY <1>1 DEF SessionsOK, SessionOK
<1>3. Abstract!Reply(c, "ok")
  BY FinishReplies DEF DeleteRow, AnswerOf
<1>4. Phase[c] = "pending"
  BY <1>1, PhaseHere DEF PhaseOf
<1>5. rows' = [id \in DOMAIN rows \ {call[c].id} |-> rows[id]]
  BY DEF DeleteRow
<1> QED
  BY <1>1, <1>2, <1>3, <1>4, <1>5, WriteIsAllowed DEF Abstract!ApplyDelete

LEMMA CrashLosesRequests ==
  ASSUME Crash
  PROVE  Abstract!LoseAll
<1>1. /\ pc' = [c \in Clients |-> "idle"] /\ call' = [c \in Clients |-> NoCall]
      /\ UNCHANGED <<rows, reply>>
  BY DEF Crash, db
<1>2. Phase' = [c \in Clients |-> "idle"]
  BY <1>1 DEF Phase
<1>3. Answer' = Answer
  BY <1>1 DEF Answer
<1> QED
  BY <1>1, <1>2, <1>3 DEF Abstract!LoseAll

LEMMA StepMaps ==
  ASSUME InductiveInvariant, AnswersInv, [Next]_vars, [NoReturn]_vars
  PROVE  [Abstract!ANext]_(Abstract!avars)
<1> USE DEF InductiveInvariant, TagInv, VersionInv, AnswersInv
<1>1. CASE UNCHANGED vars
  BY <1>1 DEF vars, db, Abstract!avars, Phase, Answer
<1>2. CASE Crash
  BY <1>2, CrashLosesRequests DEF Abstract!ANext
<1>3. ASSUME NEW c \in Clients, Begin(c)
      PROVE  [Abstract!ANext]_(Abstract!avars)
  BY <1>3, BeginInvokes DEF Abstract!ANext
<1>4. ASSUME NEW c \in Clients, Refusal(c) \/ Delivery(c)
      PROVE  [Abstract!ANext]_(Abstract!avars)
  BY <1>4, RefusalRefuses, DeliveryConcludes DEF Abstract!ANext
<1>5. ASSUME NEW c \in Clients, InsertRow(c) \/ UpdateLinks(c) \/ DeleteRow(c)
      PROVE  [Abstract!ANext]_(Abstract!avars)
  BY <1>5, InsertCreates, CommitUpdates, DeleteDeletes DEF Abstract!ANext
<1>6. ASSUME NEW c \in Clients,
             \/ LoadRow(c) \/ PassPrecondition(c) \/ SelectTags(c) \/ InsertTag(c)
             \/ UpdateRow(c) \/ DeleteLinks(c) \/ LoseRace(c) \/ RefreshRow(c)
      PROVE  [Abstract!ANext]_(Abstract!avars)
  BY <1>6, QuietStatementsStutter
<1> QED
  BY <1>1, <1>2, <1>3, <1>4, <1>5, <1>6, StepCases DEF Next

\* Several statements in two transactions, with other requests between them,
\* behave as one: If-Match, ownership and the write are one atomic step, and a
\* refused request has no effect (BookmarkService.create, update and delete).
THEOREM WritesAreOneStep ==
  Spec /\ IdsNeverReturn => ImplementsVersionedBookmarks
<1>1. Init => Abstract!AInit
  <2> SUFFICES ASSUME Init PROVE Abstract!AInit
    OBVIOUS
  <2>1. Phase = [c \in Clients |-> "idle"]
    BY DEF Init, Phase
  <2>2. Answer = [c \in Clients |-> "none"]
    BY DEF Init, Answer, NoReply, Reply
  <2> QED
    BY <2>1, <2>2 DEF Init, Abstract!AInit
<1>2. /\ InductiveInvariant /\ AnswersInv /\ [Next]_vars /\ [NoReturn]_vars
      => [Abstract!ANext]_(Abstract!avars)
  BY StepMaps
<1> QED
  BY <1>1, <1>2, BothInvariants, PTL
     DEF Spec, IdsNeverReturn, ImplementsVersionedBookmarks, Abstract!ASpec

\* On PostgreSQL, whose sequence never returns to an id, all of it holds without
\* a condition (the id column of models/bookmark.py).
THEOREM OnPostgreSQL ==
  ASSUME Backend = "postgresql"
  PROVE  Spec => /\ [](HeldETagNamesSeenContent /\ ETagFixesBody)
                 /\ NoLostUpdate /\ IdsNameOneBookmark
                 /\ ConflictReportsProgress /\ ETagsMoveForward
                 /\ ImplementsVersionedBookmarks
BY SequencesNeverReturn, HeldETagIsContent, ETagNamesOneBody, NoUpdateIsLost,
   IdsAreNotShared, ConflictsMakeProgress, ETagsNeverGoBack, WritesAreOneStep, PTL

===============================================================================
