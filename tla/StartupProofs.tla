----------------------------- MODULE StartupProofs -----------------------------
(***************************************************************************)
(* On PostgreSQL any number of containers migrate one database at once:    *)
(* one transaction is open at a time, it holds a beginning of what is to   *)
(* be applied, and whoever comes late fails at its first or second         *)
(* statement.                                                              *)
(***************************************************************************)
EXTENDS Startup, TLAPS

-----------------------------------------------------------------------------
(* The revisions on PostgreSQL *)

\* The first statements of a revision.
Beginning(revision, steps) == {Statements(revision)[i] : i \in 1..steps}

LEMMA InitialStatements ==
  /\ Statements(1) = InitialSchema /\ Len(Statements(1)) = 9
  /\ InitialSchema[1] = "users" /\ InitialSchema[2] = "ix_users_username"
  /\ InitialSchema[3] = "ix_users_email" /\ InitialSchema[4] = "tags"
  /\ InitialSchema[5] = "ix_tags_name" /\ InitialSchema[6] = "bookmarks"
  /\ InitialSchema[7] = "ix_bookmarks_user_id" /\ InitialSchema[8] = "ix_bookmarks_created_at"
  /\ InitialSchema[9] = "bookmark_tags"
BY DEF Statements, InitialSchema

LEMMA LaterStatements ==
  ASSUME Backend = "postgresql"
  PROVE  /\ Len(Statements(2)) = 1 /\ Statements(2)[1] = "bookmarks.version"
         /\ Len(Statements(3)) = 2 /\ Statements(3)[1] = "bookmarks.url(2083)"
         /\ Statements(3)[2] = "ix_bookmarks_user_created"
<1>1. UrlLenAndIndex = <<"bookmarks.url(2083)", "ix_bookmarks_user_created">>
  BY DEF UrlLenAndIndex
<1> QED
  BY <1>1 DEF Statements, BookmarkVersion

LEMMA StatementCount ==
  ASSUME Backend = "postgresql", NEW revision \in 1..Newest
  PROVE  /\ Len(Statements(revision)) \in Nat \ {0}
         /\ DOMAIN Statements(revision) = 1..Len(Statements(revision))
<1>1. DOMAIN Statements(1) = 1..9
  BY DEF Statements, InitialSchema
<1>2. DOMAIN Statements(2) = 1..1
  BY DEF Statements, BookmarkVersion
<1>3. DOMAIN Statements(3) = 1..2
  <2>1. UrlLenAndIndex = <<"bookmarks.url(2083)", "ix_bookmarks_user_created">>
    BY DEF UrlLenAndIndex
  <2> QED
    BY <2>1 DEF Statements
<1>4. revision \in {1, 2, 3}
  BY DEF Newest
<1> QED
  BY <1>1, <1>2, <1>3, <1>4, InitialStatements, LaterStatements

LEMMA Nine ==
  ASSUME NEW i \in 1..9
  PROVE  i \in {1, 2, 3, 4, 5, 6, 7, 8, 9}
OBVIOUS

LEMMA Positions ==
  ASSUME Backend = "postgresql", NEW revision \in 1..Newest,
         NEW i \in 1..Len(Statements(revision))
  PROVE  /\ i \in Nat /\ 1 <= i
         /\ \/ revision = 1 /\ i \in {1, 2, 3, 4, 5, 6, 7, 8, 9}
            \/ revision = 2 /\ i = 1
            \/ revision = 3 /\ i \in {1, 2}
<1>1. revision \in {1, 2, 3}
  BY DEF Newest
<1>2. ASSUME revision = 1
      PROVE  i \in 1..9
  <2>1. Len(Statements(revision)) = 9
    BY <1>2, InitialStatements
  <2> QED
    BY <2>1
<1>3. ASSUME revision = 2
      PROVE  i \in 1..1
  <2>1. Len(Statements(revision)) = 1
    BY <1>3, LaterStatements
  <2> QED
    BY <2>1
<1>4. ASSUME revision = 3
      PROVE  i \in 1..2
  <2>1. Len(Statements(revision)) = 2
    BY <1>4, LaterStatements
  <2> QED
    BY <2>1
<1> QED
  BY <1>1, <1>2, <1>3, <1>4, Nine

\* What the revisions up to one add, statement by statement.
LEMMA AddedUpToIs ==
  ASSUME Backend = "postgresql", NEW revision \in 0..Newest, NEW name
  PROVE  name \in AddedUpTo(revision)
           <=> \E r \in 1..revision : \E i \in 1..Len(Statements(r)) : name = Statements(r)[i]
<1>1. \A r \in 1..revision : r \in 1..Newest
  BY DEF Newest
<1>2. \A r \in 1..revision : DOMAIN Statements(r) = 1..Len(Statements(r))
  BY <1>1, StatementCount
<1>3. \A r \in 1..revision : \A i \in 1..Len(Statements(r)) :
        Statements(r)[i] # "_alembic_tmp_bookmarks"
  <2> SUFFICES ASSUME NEW r \in 1..revision, NEW i \in 1..Len(Statements(r))
               PROVE  Statements(r)[i] # "_alembic_tmp_bookmarks"
    OBVIOUS
  <2>1. r \in 1..Newest
    BY <1>1
  <2>2. CASE r = 1
    <3>1. i \in {1, 2, 3, 4, 5, 6, 7, 8, 9}
      BY <2>1, <2>2, Positions
    <3> QED
      BY <2>2, <3>1, InitialStatements
  <2>3. CASE r = 2
    <3>1. i = 1
      BY <2>1, <2>3, Positions
    <3> QED
      BY <2>3, <3>1, LaterStatements
  <2>4. CASE r = 3
    <3>1. i \in {1, 2}
      BY <2>1, <2>4, Positions
    <3> QED
      BY <2>4, <3>1, LaterStatements
  <2> QED
    BY <2>1, <2>2, <2>3, <2>4, Positions
<1>4. name \in AddedUpTo(revision) <=>
        \E r \in 1..revision : \E i \in DOMAIN Statements(r) :
          name = Statements(r)[i] /\ name # "_alembic_tmp_bookmarks"
  BY DEF AddedUpTo
<1> QED
  BY <1>2, <1>3, <1>4

LEMMA AddedOnce ==
  ASSUME Backend = "postgresql", NEW revision \in 1..Newest
  PROVE  AddedUpTo(revision) = AddedUpTo(revision - 1)
                                 \cup Beginning(revision, Len(Statements(revision)))
<1>1. /\ revision \in 0..Newest /\ revision - 1 \in 0..Newest
      /\ 1..revision = 1..(revision - 1) \cup {revision}
  BY DEF Newest
<1>2. ASSUME NEW name
      PROVE  name \in AddedUpTo(revision) <=>
               \/ name \in AddedUpTo(revision - 1)
               \/ \E i \in 1..Len(Statements(revision)) : name = Statements(revision)[i]
  BY <1>1, AddedUpToIs
<1> QED
  BY <1>2 DEF Beginning

LEMMA AddedStays ==
  ASSUME Backend = "postgresql", NEW revision \in 1..Newest,
         NEW i \in 1..Len(Statements(revision))
  PROVE  Statements(revision)[i] \in AddedUpTo(Newest)
<1>1. Newest \in 0..Newest /\ revision \in 1..Newest
  BY DEF Newest
<1> QED
  BY <1>1, AddedUpToIs

\* No statement adds what is there already when the revisions come in order.
LEMMA EachIsNew ==
  ASSUME Backend = "postgresql", NEW revision \in 1..Newest,
         NEW i \in 1..Len(Statements(revision))
  PROVE  Statements(revision)[i] \notin
           AddedUpTo(revision - 1) \cup Beginning(revision, i - 1)
<1>1. revision \in {1, 2, 3} /\ revision - 1 \in 0..Newest
  BY DEF Newest
<1>2. i \in Nat /\ 1 <= i
  BY Positions
<1>3. ASSUME NEW r \in 1..(revision - 1), NEW j \in 1..Len(Statements(r))
      PROVE  Statements(r)[j] # Statements(revision)[i]
  <2>1. r \in {1, 2} /\ revision \in {2, 3} /\ r < revision /\ r \in 1..Newest
    BY <1>1 DEF Newest
  <2>2. Statements(revision)[i] \in
          {"bookmarks.version", "bookmarks.url(2083)", "ix_bookmarks_user_created"}
    BY <2>1, Positions, LaterStatements
  <2>3. CASE r = 1
    <3>1. j \in {1, 2, 3, 4, 5, 6, 7, 8, 9}
      BY <2>1, <2>3, Positions
    <3> QED
      BY <2>2, <2>3, <3>1, InitialStatements
  <2>4. CASE r = 2
    <3>1. j = 1 /\ revision = 3 /\ i \in {1, 2}
      BY <2>1, <2>4, Positions
    <3> QED
      BY <2>4, <3>1, LaterStatements
  <2> QED
    BY <2>1, <2>3, <2>4
<1>4. ASSUME NEW j \in 1..(i - 1)
      PROVE  Statements(revision)[j] # Statements(revision)[i]
  <2>1. j \in Nat /\ 1 <= j /\ j < i
    BY <1>2
  <2>2. CASE revision = 1
    <3>1. i \in {1, 2, 3, 4, 5, 6, 7, 8, 9}
      BY <2>2, Positions
    <3>2. j \in {1, 2, 3, 4, 5, 6, 7, 8}
      BY <2>1, <3>1
    <3> QED
      BY <2>1, <2>2, <3>1, <3>2, InitialStatements
  <2>3. CASE revision # 1
    <3>1. revision = 3 /\ i \in {1, 2} /\ i # 1
      BY <2>1, <2>3, Positions
    <3>2. i = 2 /\ j = 1
      BY <2>1, <3>1
    <3> QED
      BY <3>1, <3>2, LaterStatements
  <2> QED
    BY <2>2, <2>3
<1>5. Statements(revision)[i] \notin AddedUpTo(revision - 1)
  BY <1>1, <1>3, AddedUpToIs
<1>6. Statements(revision)[i] \notin Beginning(revision, i - 1)
  BY <1>4 DEF Beginning
<1> QED
  BY <1>5, <1>6

LEMMA AddedGrows ==
  ASSUME Backend = "postgresql", NEW revision \in 0..Newest
  PROVE  AddedUpTo(revision) \subseteq AddedUpTo(Newest)
<1>1. Newest \in 0..Newest /\ \A r \in 1..revision : r \in 1..Newest
  BY DEF Newest
<1> QED
  BY <1>1, AddedUpToIs

LEMMA OneMore ==
  ASSUME NEW revision, NEW step \in Nat \ {0}
  PROVE  Beginning(revision, step) =
           Beginning(revision, step - 1) \cup {Statements(revision)[step]}
BY DEF Beginning

LEMMA NoneYet == ASSUME NEW revision PROVE Beginning(revision, 0) = {}
BY DEF Beginning

-----------------------------------------------------------------------------
(* The inductive invariant *)

States == [schema : SUBSET AddedUpTo(Newest), stamp : 0..Newest, links : BOOLEAN]

TypeOK ==
  /\ db \in States
  /\ pc \in [Containers -> {"connect", "upgrade", "serving", "exited"}]
  /\ attempt \in [Containers -> Nat]
  /\ lost \in [Containers -> Nat]
  /\ todo \in [Containers -> [revision : 1..Newest, step : Nat \ {0}]]
  /\ tx \in [Containers -> States \cup {NoTransaction}]

\* The stamp was read and nothing is executed yet: somebody may have been faster.
ReadyToApply(c) ==
  /\ todo[c].step = 1
  /\ db.stamp = todo[c].revision - 1 \/ db.stamp = Newest

\* The transaction holds the revisions before this one and what has been executed.
Applying(c) ==
  /\ db.stamp < todo[c].revision
  /\ tx[c].stamp = todo[c].revision - 1
  /\ tx[c].schema = AddedUpTo(todo[c].revision - 1)
                      \cup Beginning(todo[c].revision, todo[c].step - 1)
  /\ todo[c].step - 1 <= Len(Statements(todo[c].revision))

\* Somebody was faster, and the column that is widened again is no clash.
ComesLate(c) ==
  /\ db.stamp = Newest
  /\ todo[c].revision = Newest /\ todo[c].step = 2
  /\ tx[c].stamp = Newest /\ tx[c].schema = db.schema

ContainerOK(c) ==
  /\ pc[c] # "upgrade" => tx[c] = NoTransaction
  /\ pc[c] = "upgrade" /\ tx[c] = NoTransaction => ReadyToApply(c)
  /\ tx[c] # NoTransaction => Applying(c) \/ ComesLate(c)
  /\ pc[c] = "serving" => db.stamp = Newest
  /\ lost[c] <= 1
  /\ lost[c] = 1 => db.stamp = Newest /\ pc[c] # "upgrade"

OneTransaction ==
  \A c, o \in Containers : tx[c] # NoTransaction /\ tx[o] # NoTransaction => c = o

StartupInv ==
  /\ TypeOK
  /\ db.schema = AddedUpTo(db.stamp)
  /\ OneTransaction
  /\ \A c \in Containers : ContainerOK(c)

\* A step of one container leaves the variables of the others.
OthersWait(c) ==
  \A o \in Containers \ {c} :
    /\ pc'[o] = pc[o] /\ lost'[o] = lost[o]
    /\ todo'[o] = todo[o] /\ tx'[o] = tx[o]

LEMMA NotATransaction == NoTransaction \notin States
BY DEF NoTransaction, States, Newest

LEMMA OthersOK ==
  ASSUME StartupInv, NEW c \in Containers, OthersWait(c), db' = db
  PROVE  \A o \in Containers \ {c} : ContainerOK(o)'
BY DEF StartupInv, OthersWait, ContainerOK, ReadyToApply, Applying, ComesLate

\* A container about to execute has the lock or finds it free.
LEMMA HasTheLock ==
  ASSUME StartupInv, NEW c \in Containers, ~Locked(c)
  PROVE  \A o \in Containers \ {c} : tx[o] = NoTransaction
BY DEF Locked

\* What a statement finds, and when it clashes.
LEMMA StatementFinds ==
  ASSUME Backend = "postgresql", StartupInv, NEW c \in Containers, AtStatement(c)
  PROVE  /\ State(c) \in States
         /\ Statement(c) \in AddedUpTo(Newest)
         /\ todo[c].step \in 1..Len(Statements(todo[c].revision))
         /\ Clashes(Statement(c), State(c)) => db.stamp = Newest
         /\ db.stamp = Newest /\ ~Clashes(Statement(c), State(c)) =>
              /\ todo[c].revision = Newest /\ todo[c].step = 1
              /\ tx[c] = NoTransaction
<1> DEFINE revision == todo[c].revision
           step == todo[c].step
<1>1. revision \in 1..Newest /\ step \in Nat \ {0} /\ ContainerOK(c)
  BY DEF StartupInv, TypeOK
<1>2. Len(Statements(revision)) \in Nat /\ step \in 1..Len(Statements(revision))
  BY <1>1, StatementCount DEF AtStatement
<1>3. Statement(c) = Statements(revision)[step] /\ Statement(c) \in AddedUpTo(Newest)
  BY <1>1, <1>2, AddedStays DEF Statement
<1>4. State(c) \in States
  BY DEF StartupInv, TypeOK, State
<1>5. Statement(c) \notin AddedUpTo(revision - 1) \cup Beginning(revision, step - 1)
  BY <1>1, <1>2, <1>3, EachIsNew
<1>6. CASE tx[c] = NoTransaction
  <2>1. State(c) = db /\ step = 1 /\ (db.stamp = revision - 1 \/ db.stamp = Newest)
    BY <1>1, <1>6 DEF ContainerOK, ReadyToApply, AtStatement, State
  <2>2. CASE db.stamp # Newest
    BY <1>2, <1>3, <1>4, <1>5, <2>1, <2>2 DEF StartupInv, Clashes
  <2>3. CASE db.stamp = Newest
    <3>1. ~Clashes(Statement(c), State(c)) => Statement(c) = "bookmarks.url(2083)"
      BY <1>3, <2>1, <2>3 DEF StartupInv, Clashes
    <3>2. Statement(c) = "bookmarks.url(2083)" => revision = Newest
      BY <1>1, <1>2, <1>3, <2>1, Positions, InitialStatements, LaterStatements DEF Newest
    <3> QED
      BY <1>2, <1>3, <1>4, <1>6, <2>1, <2>3, <3>1, <3>2
  <2> QED
    BY <2>2, <2>3
<1>7. CASE tx[c] # NoTransaction
  <2>1. State(c) = tx[c]
    BY <1>7 DEF State
  <2>2. CASE Applying(c)
    <3>1. ~Clashes(Statement(c), State(c)) /\ db.stamp # Newest
      BY <1>1, <1>3, <1>5, <2>1, <2>2 DEF Applying, Clashes, StartupInv, TypeOK, States, Newest
    <3> QED
      BY <1>2, <1>3, <1>4, <3>1
  <2>3. CASE ComesLate(c)
    <3>1. Statement(c) = "ix_bookmarks_user_created"
      BY <1>3, <2>3, LaterStatements DEF ComesLate, Newest
    <3>2. Clashes(Statement(c), State(c)) /\ db.stamp = Newest
      BY <1>3, <2>1, <2>3, <3>1 DEF ComesLate, Clashes, StartupInv
    <3> QED
      BY <1>2, <1>3, <1>4, <3>2
  <2> QED
    BY <1>1, <1>7, <2>2, <2>3 DEF ContainerOK
<1> QED
  BY <1>6, <1>7

-----------------------------------------------------------------------------
(* One lemma per action *)

LEMMA FailedOK ==
  ASSUME StartupInv, NEW c \in Containers, GiveUpOrRetry(c), db' = db,
         \/ UNCHANGED lost
         \/ /\ lost' = [lost EXCEPT ![c] = lost[c] + 1]
            /\ lost[c] = 0 /\ db.stamp = Newest
  PROVE  StartupInv'
<1>1. OthersWait(c)
  BY DEF StartupInv, TypeOK, OthersWait, GiveUpOrRetry, Goto
<1>2. /\ pc'[c] \in {"connect", "exited"} /\ tx'[c] = NoTransaction
      /\ lost'[c] \in {lost[c], lost[c] + 1}
      /\ lost'[c] # lost[c] => lost[c] = 0 /\ db.stamp = Newest
  BY DEF StartupInv, TypeOK, GiveUpOrRetry, Goto
<1>3. lost[c] \in Nat /\ ContainerOK(c)
  BY DEF StartupInv, TypeOK
<1>4. ContainerOK(c)'
  BY <1>2, <1>3 DEF ContainerOK
<1>5. \A o \in Containers : ContainerOK(o)'
  BY <1>1, <1>4, OthersOK
<1>6. TypeOK'
  BY DEF StartupInv, TypeOK, GiveUpOrRetry, Goto, Newest
<1>7. OneTransaction'
  BY <1>1, <1>2 DEF StartupInv, OneTransaction, OthersWait
<1> QED
  BY <1>5, <1>6, <1>7 DEF StartupInv

LEMMA ConnectOK ==
  ASSUME StartupInv, NEW c \in Containers, ReadStamp(c) \/ NothingToDo(c)
  PROVE  StartupInv'
<1>1. db.stamp \in 0..Newest /\ ContainerOK(c) /\ lost[c] \in Nat
  BY DEF StartupInv, TypeOK, States
<1>2. OthersWait(c) /\ db' = db /\ tx' = tx /\ lost' = lost
  BY DEF StartupInv, TypeOK, OthersWait, ReadStamp, NothingToDo, Goto
<1>3. tx[c] = NoTransaction /\ pc[c] = "connect"
  BY <1>1 DEF ContainerOK, ReadStamp, NothingToDo
<1>4. TypeOK'
  BY <1>1 DEF StartupInv, TypeOK, ReadStamp, NothingToDo, Goto, Newest
<1>5. ContainerOK(c)'
  <2>1. CASE ReadStamp(c)
    <3>1. /\ pc'[c] = "upgrade" /\ db.stamp < Newest
          /\ todo'[c].revision = db.stamp + 1 /\ todo'[c].step = 1
      BY <2>1 DEF StartupInv, TypeOK, ReadStamp, Goto
    <3> QED
      BY <1>1, <1>2, <1>3, <3>1 DEF ContainerOK, ReadyToApply, Newest
  <2>2. CASE NothingToDo(c)
    <3>1. pc'[c] = "serving" /\ db.stamp = Newest
      BY <2>2 DEF StartupInv, TypeOK, NothingToDo, Goto
    <3> QED
      BY <1>1, <1>2, <1>3, <3>1 DEF ContainerOK
  <2> QED
    BY <2>1, <2>2
<1>6. \A o \in Containers : ContainerOK(o)'
  BY <1>2, <1>5, OthersOK
<1> QED
  BY <1>2, <1>4, <1>6 DEF StartupInv, OneTransaction

LEMMA ExecuteOK ==
  ASSUME Backend = "postgresql", StartupInv, NEW c \in Containers, Execute(c)
  PROVE  StartupInv'
<1> DEFINE revision == todo[c].revision
           step == todo[c].step
           result == Executed(Statement(c), State(c))
<1>1. AtStatement(c) /\ ~Locked(c) /\ ~Clashes(Statement(c), State(c))
  BY DEF Execute
<1>2. /\ State(c) \in States /\ Statement(c) \in AddedUpTo(Newest)
      /\ step \in 1..Len(Statements(revision))
      /\ db.stamp = Newest => revision = Newest /\ step = 1 /\ tx[c] = NoTransaction
  BY <1>1, StatementFinds
<1>3. /\ revision \in 1..Newest /\ step \in Nat \ {0} /\ db.stamp \in 0..Newest
      /\ ContainerOK(c) /\ Len(Statements(revision)) \in Nat
  BY StatementCount DEF StartupInv, TypeOK, States
<1>4. /\ result \in States
      /\ result.stamp = State(c).stamp
      /\ result.schema = State(c).schema \cup {Statement(c)}
  BY <1>2 DEF Executed, States
<1>5. /\ tx' = [tx EXCEPT ![c] = result] /\ db' = db
      /\ todo' = [todo EXCEPT ![c] = [revision |-> revision, step |-> step + 1]]
      /\ pc' = pc /\ attempt' = attempt /\ lost' = lost
  BY DEF Execute, CommitsItself
<1>6. TypeOK'
  BY <1>3, <1>4, <1>5 DEF StartupInv, TypeOK
<1>7. OthersWait(c) /\ OneTransaction'
  <2>1. OthersWait(c)
    BY <1>5 DEF StartupInv, TypeOK, OthersWait
  <2> QED
    BY <1>1, <2>1, HasTheLock DEF OneTransaction, OthersWait
<1>8. /\ tx'[c] = result /\ todo'[c].revision = revision /\ todo'[c].step = step + 1
      /\ pc'[c] = "upgrade" /\ lost'[c] = lost[c] /\ lost[c] \in Nat
      /\ tx'[c] # NoTransaction
  BY <1>1, <1>4, <1>5, NotATransaction DEF StartupInv, TypeOK, AtStatement
<1>9. Statement(c) = Statements(revision)[step]
  BY DEF Statement
<1>10. Applying(c)' \/ ComesLate(c)'
  <2>1. CASE db.stamp = Newest
    <3>1. tx'[c].stamp = Newest /\ tx'[c].schema = db.schema
      BY <1>2, <1>4, <1>8, <2>1 DEF State, StartupInv
    <3> QED
      BY <1>2, <1>5, <1>8, <2>1, <3>1 DEF ComesLate
  <2>2. CASE db.stamp # Newest
    <3>1. /\ db.stamp < revision /\ State(c).stamp = revision - 1
          /\ State(c).schema = AddedUpTo(revision - 1) \cup Beginning(revision, step - 1)
      <4>1. CASE tx[c] = NoTransaction
        <5>1. step = 1 /\ db.stamp = revision - 1 /\ State(c) = db
          BY <1>1, <1>3, <2>2, <4>1 DEF ContainerOK, ReadyToApply, State, AtStatement
        <5>2. Beginning(revision, step - 1) = {}
          BY <5>1, NoneYet
        <5> QED
          BY <1>3, <5>1, <5>2 DEF StartupInv
      <4>2. CASE tx[c] # NoTransaction
        BY <1>3, <2>2, <4>2 DEF ContainerOK, Applying, ComesLate, State
      <4> QED
        BY <4>1, <4>2
    <3>2. Beginning(revision, step) = Beginning(revision, step - 1) \cup {Statement(c)}
      BY <1>3, <1>9, OneMore
    <3>3. /\ tx'[c].stamp = revision - 1
          /\ tx'[c].schema = AddedUpTo(revision - 1) \cup Beginning(revision, step)
      BY <1>4, <1>8, <3>1, <3>2
    <3>4. /\ todo'[c].revision = revision /\ todo'[c].step - 1 = step
          /\ step <= Len(Statements(revision))
      BY <1>2, <1>3, <1>8
    <3> QED
      BY <1>5, <3>1, <3>3, <3>4 DEF Applying
  <2> QED
    BY <2>1, <2>2
<1>11. ContainerOK(c)'
  BY <1>1, <1>3, <1>8, <1>10 DEF ContainerOK, AtStatement
<1>12. \A o \in Containers : ContainerOK(o)'
  BY <1>5, <1>7, <1>11, OthersOK
<1> QED
  BY <1>5, <1>6, <1>7, <1>12 DEF StartupInv

LEMMA ClashOK ==
  ASSUME Backend = "postgresql", StartupInv, NEW c \in Containers, Clash(c)
  PROVE  StartupInv'
<1>1. AtStatement(c) /\ Clashes(Statement(c), State(c)) /\ GiveUpOrRetry(c) /\ db' = db
  BY DEF Clash
<1>2. db.stamp = Newest
  BY <1>1, StatementFinds
<1>3. lost[c] = 0 /\ lost' = [lost EXCEPT ![c] = lost[c] + 1]
  BY <1>1 DEF Clash, StartupInv, TypeOK, ContainerOK, AtStatement
<1> QED
  BY <1>1, <1>2, <1>3, FailedOK

LEMMA StampOK ==
  ASSUME Backend = "postgresql", StartupInv, NEW c \in Containers, Stamp(c)
  PROVE  StartupInv'
<1> DEFINE revision == todo[c].revision
           step == todo[c].step
<1>1. AtStamp(c) /\ ~Locked(c)
  BY DEF Stamp
<1>2. /\ revision \in 1..Newest /\ step \in Nat \ {0} /\ db.stamp \in 0..Newest
      /\ ContainerOK(c) /\ Len(Statements(revision)) \in Nat \ {0}
  BY StatementCount DEF StartupInv, TypeOK, States
<1>3. step - 1 >= Len(Statements(revision))
  BY <1>1, <1>2 DEF AtStamp
<1>4. tx[c] # NoTransaction /\ State(c) = tx[c] /\ tx[c] \in States
  BY <1>1, <1>2 DEF ContainerOK, ReadyToApply, AtStamp, State, StartupInv, TypeOK
<1>5. ~ComesLate(c)
  <2> SUFFICES ASSUME ComesLate(c)
               PROVE  FALSE
    OBVIOUS
  <2>1. revision = 3 /\ step = 2
    BY DEF ComesLate, Newest
  <2>2. Len(Statements(revision)) = 2
    BY <2>1, LaterStatements
  <2>3. step - 1 = 1
    BY <2>1
  <2>4. 1 >= 2
    BY <1>3, <2>2, <2>3
  <2> QED
    BY <2>4
<1>6. Applying(c)
  BY <1>2, <1>4, <1>5 DEF ContainerOK
<1>7. step - 1 = Len(Statements(revision))
  BY <1>2, <1>3, <1>6 DEF Applying
<1>8. tx[c].schema = AddedUpTo(revision)
  <2>1. Beginning(revision, step - 1) = Beginning(revision, Len(Statements(revision)))
    BY <1>7
  <2> QED
    BY <1>2, <1>6, <2>1, AddedOnce DEF Applying
<1>9. /\ Stamped(c) \in States
      /\ Stamped(c).stamp = revision /\ Stamped(c).schema = AddedUpTo(revision)
  BY <1>2, <1>4, <1>8 DEF Stamped, States
<1>10. lost' = lost /\ attempt' = attempt /\ lost[c] \in Nat /\ pc[c] = "upgrade"
  BY <1>1 DEF Stamp, AtStamp, StartupInv, TypeOK
<1>11. \A o \in Containers \ {c} : tx[o] = NoTransaction
  BY <1>1, HasTheLock
<1>12. CASE revision = Newest
  <2>1. /\ db' = Stamped(c) /\ tx' = [tx EXCEPT ![c] = NoTransaction]
        /\ pc' = [pc EXCEPT ![c] = "serving"] /\ todo' = todo
    BY <1>12 DEF Stamp, CommitsHere, Goto
  <2>2. db'.stamp = Newest /\ db'.schema = AddedUpTo(db'.stamp)
    BY <1>9, <1>12, <2>1
  <2>3. TypeOK'
    BY <1>9, <1>10, <2>1 DEF StartupInv, TypeOK
  <2>4. \A o \in Containers : tx'[o] = NoTransaction
    BY <1>11, <2>1 DEF StartupInv, TypeOK
  <2>5. ASSUME NEW o \in Containers
        PROVE  ContainerOK(o)'
    <3>1. CASE o = c
      <4>1. pc'[c] = "serving" /\ lost'[c] = lost[c]
        BY <1>10, <2>1 DEF StartupInv, TypeOK
      <4> QED
        BY <1>2, <2>2, <2>4, <3>1, <4>1 DEF ContainerOK
    <3>2. CASE o # c
      <4>1. pc'[o] = pc[o] /\ lost'[o] = lost[o] /\ todo'[o] = todo[o]
        BY <1>10, <2>1, <3>2 DEF StartupInv, TypeOK
      <4>2. ContainerOK(o) /\ tx[o] = NoTransaction
        BY <1>11, <3>2 DEF StartupInv
      <4> QED
        BY <2>2, <2>4, <4>1, <4>2 DEF ContainerOK, ReadyToApply
    <3> QED
      BY <3>1, <3>2
  <2> QED
    BY <2>2, <2>3, <2>4, <2>5 DEF StartupInv, OneTransaction
<1>13. CASE revision # Newest
  <2>1. /\ db' = db /\ tx' = [tx EXCEPT ![c] = Stamped(c)] /\ pc' = pc
        /\ todo' = [todo EXCEPT ![c] = [revision |-> revision + 1, step |-> 1]]
    BY <1>13 DEF Stamp, CommitsHere
  <2>2. revision + 1 \in 1..Newest
    BY <1>2, <1>13 DEF Newest
  <2>3. TypeOK'
    BY <1>9, <1>10, <2>1, <2>2 DEF StartupInv, TypeOK
  <2>4. OthersWait(c)
    BY <1>10, <2>1 DEF StartupInv, TypeOK, OthersWait
  <2>5. OneTransaction'
    BY <1>11, <2>4 DEF OneTransaction, OthersWait
  <2>6. /\ tx'[c] = Stamped(c) /\ tx'[c] # NoTransaction /\ pc'[c] = "upgrade"
        /\ todo'[c].revision = revision + 1 /\ todo'[c].step = 1 /\ lost'[c] = lost[c]
    BY <1>9, <1>10, <2>1, NotATransaction DEF StartupInv, TypeOK
  <2>7. Applying(c)'
    <3>1. /\ todo'[c].revision - 1 = revision /\ todo'[c].step - 1 = 0
          /\ db'.stamp < todo'[c].revision
      BY <1>2, <1>6, <2>1, <2>6 DEF Applying
    <3>2. Beginning(todo'[c].revision, 0) = {}
      BY NoneYet
    <3>3. 0 <= Len(Statements(todo'[c].revision))
      BY <2>2, <2>6, StatementCount
    <3> QED
      BY <1>9, <2>6, <3>1, <3>2, <3>3 DEF Applying
  <2>8. ContainerOK(c)'
    BY <1>2, <1>10, <2>6, <2>7 DEF ContainerOK
  <2>9. \A o \in Containers : ContainerOK(o)'
    BY <2>1, <2>4, <2>8, OthersOK
  <2> QED
    BY <2>1, <2>3, <2>5, <2>9 DEF StartupInv
<1> QED
  BY <1>12, <1>13

LEMMA CrashOK ==
  ASSUME StartupInv, NEW c \in Containers, Crash(c)
  PROVE  StartupInv'
<1>1. OthersWait(c) /\ db' = db
  BY DEF StartupInv, TypeOK, OthersWait, Crash, Goto
<1>2. pc'[c] = "connect" /\ tx'[c] = NoTransaction /\ lost'[c] = 0
  BY DEF StartupInv, TypeOK, Crash, Goto
<1>3. ContainerOK(c)'
  BY <1>2 DEF ContainerOK
<1>4. \A o \in Containers : ContainerOK(o)'
  BY <1>1, <1>3, OthersOK
<1>5. TypeOK'
  BY DEF StartupInv, TypeOK, Crash, Goto, Newest
<1>6. OneTransaction'
  BY <1>1, <1>2 DEF StartupInv, OneTransaction, OthersWait
<1> QED
  BY <1>1, <1>4, <1>5, <1>6 DEF StartupInv

-----------------------------------------------------------------------------
(* The theorems *)

LEMMA InitOK == ASSUME Backend = "postgresql", Init PROVE StartupInv
<1>1. PICK stamp \in FirstStamps :
        db = [schema |-> AddedUpTo(stamp), stamp |-> stamp, links |-> stamp > 0]
  BY DEF Init
<1>2. stamp \in 0..Newest
  BY StampsAssumption DEF Newest
<1>3. db \in States /\ db.schema = AddedUpTo(db.stamp)
  BY <1>1, <1>2, AddedGrows DEF States
<1>4. TypeOK
  BY <1>3 DEF Init, TypeOK, Newest
<1> QED
  BY <1>3, <1>4 DEF Init, StartupInv, OneTransaction, ContainerOK

LEMMA NextOK ==
  ASSUME Backend = "postgresql", StartupInv, [Next]_vars
  PROVE  StartupInv'
<1>1. CASE UNCHANGED <<db, pc, attempt, lost, todo, tx>>
  BY <1>1 DEF StartupInv, TypeOK, OneTransaction, ContainerOK, ReadyToApply, Applying,
              ComesLate
<1>2. ASSUME NEW c \in Containers, NoConnection(c)
      PROVE  StartupInv'
  BY <1>2, FailedOK DEF NoConnection
<1>3. ASSUME NEW c \in Containers, Run(c)
      PROVE  StartupInv'
  BY <1>2, <1>3, ConnectOK, ExecuteOK, ClashOK, StampOK DEF Run
<1> QED
  BY <1>1, <1>3, CrashOK DEF Next, DatabaseStarts, vars

\* The invariant: what each container's transaction holds, and that there is one.
THEOREM MigrationsInductive ==
  ASSUME Backend = "postgresql" PROVE Spec => []StartupInv
<1>1. Init => StartupInv
  BY InitOK
<1>2. StartupInv /\ [Next]_vars => StartupInv'
  BY NextOK
<1> QED
  BY <1>1, <1>2, PTL DEF Spec

\* A server runs only on the complete schema of the newest revision (entrypoint.sh).
THEOREM ServersRunOnHead ==
  ASSUME Backend = "postgresql" PROVE Spec => []ServesOnHead
<1>1. StartupInv => ServesOnHead
  BY DEF StartupInv, ContainerOK, ServesOnHead
<1> QED
  BY <1>1, MigrationsInductive, PTL

\* The stamp names what is there at every moment (env.py: one transaction).
THEOREM StampIsTrue ==
  ASSUME Backend = "postgresql" PROVE Spec => []StampNamesSchema
<1>1. StartupInv => StampNamesSchema
  BY DEF StartupInv, StampNamesSchema
<1> QED
  BY <1>1, MigrationsInductive, PTL

\* Migrating at once costs a container at most one of its attempts (entrypoint.sh).
THEOREM RacesCostOneAttempt ==
  ASSUME Backend = "postgresql" PROVE Spec => []RaceCostsOneAttempt
<1>1. StartupInv => RaceCostsOneAttempt
  BY DEF StartupInv, ContainerOK, RaceCostsOneAttempt
<1> QED
  BY <1>1, MigrationsInductive, PTL

=============================================================================
