-------------------------- MODULE LoginGuardProofs --------------------------
(***************************************************************************)
(* Locks are deserved, set and end, for any number of threads and accounts *)
(* and any settings of the guard.                                          *)
(***************************************************************************)
EXTENDS LoginGuard, FiniteSetTheorems, TLAPS

LEMMA LimitType == Limit \in Nat \ {0}
BY SettingsAssumption DEF Limit

\* What one counted failure makes of an entry.
LEMMA CountedEntry ==
  ASSUME NEW entry \in Entry, NEW time \in Nat, NEW next, next = Counted(entry, time)
  PROVE  /\ next \in Entry
         /\ IF time > entry.resetsAt
            THEN next.count = 1 /\ next.resetsAt = time + Lockout
            ELSE next.count = entry.count + 1 /\ next.resetsAt = entry.resetsAt
         /\ IF next.count >= Limit
            THEN next.lockedUntil = time + Lockout
            ELSE next.lockedUntil = entry.lockedUntil
<1>1. PICK open : open = Window(entry, time)
  OBVIOUS
<1>2. /\ open \in Entry /\ open.lockedUntil = entry.lockedUntil
      /\ IF time > entry.resetsAt
         THEN open.count = 0 /\ open.resetsAt = time + Lockout
         ELSE open.count = entry.count /\ open.resetsAt = entry.resetsAt
  BY <1>1, SettingsAssumption DEF Window, Entry
<1>3. PICK more : more = [open EXCEPT !.count = @ + 1]
  OBVIOUS
<1>4. more = [count |-> open.count + 1, resetsAt |-> open.resetsAt,
              lockedUntil |-> open.lockedUntil]
  <2>1. PICK n : n = open.count + 1
    OBVIOUS
  <2>2. [open EXCEPT !.count = n] =
          [count |-> n, resetsAt |-> open.resetsAt, lockedUntil |-> open.lockedUntil]
    BY <1>2 DEF Entry
  <2>3. more = [open EXCEPT !.count = n]
    BY <1>3, <2>1, Zenon
  <2> QED
    BY <2>1, <2>2, <2>3, Zenon
<1>5. next = IF more.count >= Limit
             THEN [count |-> more.count, resetsAt |-> more.resetsAt,
                   lockedUntil |-> time + Lockout]
             ELSE more
  <2>1. next = Locked(more, time)
    BY <1>1, <1>3, Zenon DEF Counted
  <2> QED
    BY <1>4, <2>1 DEF Locked
<1> QED
  BY <1>2, <1>4, <1>5, SettingsAssumption DEF Entry

\* More failures are found when one looks further back.
LEMMA SinceGrows ==
  ASSUME NEW recorded \in SUBSET Failure, IsFiniteSet(recorded),
         NEW early \in Int, NEW late \in Int, early <= late
  PROVE  /\ Cardinality(Since(recorded, early)) \in Nat
         /\ Cardinality(Since(recorded, late)) \in Nat
         /\ Cardinality(Since(recorded, late)) <= Cardinality(Since(recorded, early))
<1>1. /\ Since(recorded, early) \in SUBSET recorded
      /\ Since(recorded, late) \in SUBSET Since(recorded, early)
  BY DEF Since, Failure
<1>2. IsFiniteSet(Since(recorded, early)) /\ IsFiniteSet(Since(recorded, late))
  BY <1>1, FS_Subset
<1> QED
  BY <1>1, <1>2, FS_Subset, FS_CardinalityType

\* A new failure is one more in every period that includes it.
LEMMA SinceAdds ==
  ASSUME NEW recorded \in SUBSET Failure, IsFiniteSet(recorded),
         NEW f \in Failure, f \notin recorded, NEW time \in Int
  PROVE  /\ time <= f.at =>
              Cardinality(Since(recorded \cup {f}, time))
                = Cardinality(Since(recorded, time)) + 1
         /\ Cardinality(Since(recorded, time))
              <= Cardinality(Since(recorded \cup {f}, time))
         /\ Cardinality(Since(recorded, time)) \in Nat
         /\ Cardinality(Since(recorded \cup {f}, time)) \in Nat
<1>1. Since(recorded \cup {f}, time) =
        IF time <= f.at THEN Since(recorded, time) \cup {f} ELSE Since(recorded, time)
  BY DEF Since, Failure
<1>2. Since(recorded, time) \in SUBSET recorded /\ f \notin Since(recorded, time)
  BY DEF Since
<1>3. IsFiniteSet(Since(recorded, time))
  BY <1>2, FS_Subset
<1>4. Cardinality(Since(recorded, time)) \in Nat
  BY <1>3, FS_CardinalityType
<1>5. Cardinality(Since(recorded, time) \cup {f}) = Cardinality(Since(recorded, time)) + 1
  BY <1>2, <1>3, FS_AddElement
<1> QED
  BY <1>1, <1>4, <1>5

\* The failures read since a time are a finite set, and a new one adds at most one.
LEMMA ReadSinceAdds ==
  ASSUME NEW recorded \in SUBSET Failure, IsFiniteSet(recorded),
         NEW f, f \notin recorded, NEW time \in Int
  PROVE  /\ Cardinality(ReadSince(recorded, time)) \in Nat
         /\ Cardinality(ReadSince(recorded \cup {f}, time)) \in Nat
         /\ Cardinality(ReadSince(recorded \cup {f}, time))
              <= Cardinality(ReadSince(recorded, time)) + 1
<1>1. ReadSince(recorded \cup {f}, time) =
        IF f.read >= time THEN ReadSince(recorded, time) \cup {f} ELSE ReadSince(recorded, time)
  BY DEF ReadSince
<1>2. ReadSince(recorded, time) \in SUBSET recorded /\ f \notin ReadSince(recorded, time)
  BY DEF ReadSince
<1>3. IsFiniteSet(ReadSince(recorded, time))
  BY <1>2, FS_Subset
<1>4. Cardinality(ReadSince(recorded, time)) \in Nat
  BY <1>3, FS_CardinalityType
<1>5. Cardinality(ReadSince(recorded, time) \cup {f}) = Cardinality(ReadSince(recorded, time)) + 1
  BY <1>2, <1>3, FS_AddElement
<1> QED
  BY <1>1, <1>4, <1>5

\* A window that is opened after every failure so far holds the new one alone.
LEMMA ReadSinceStartsOver ==
  ASSUME NEW recorded \in SUBSET Failure, NEW f, NEW time \in Int,
         \A g \in recorded : g.read < time
  PROVE  Cardinality(ReadSince(recorded \cup {f}, time)) <= 1
<1>1. \A g \in recorded : ~(g.read >= time)
  BY DEF Failure
<1>2. ReadSince(recorded \cup {f}, time) = {f} \/ ReadSince(recorded \cup {f}, time) = {}
  BY <1>1 DEF ReadSince
<1>3. Cardinality({f}) = 1 /\ Cardinality({}) = 0
  BY FS_Singleton, FS_EmptySet
<1> QED
  BY <1>2, <1>3

\* One counted failure keeps an entry justified, even one that has read the
\* clock long before it is recorded.
LEMMA CountedOK ==
  ASSUME NEW entry \in Entry, NEW recorded \in SUBSET Failure, NEW time \in Nat,
         EntryOK(entry, recorded, time),
         NEW read \in Nat, read <= time,
         NEW f \in Failure, f.nr = Cardinality(recorded) + 1,
         f.read = read, f.at = time
  PROVE  EntryOK(Counted(entry, read), recorded \cup {f}, time)
<1>1. PICK next : next = Counted(entry, read)
  OBVIOUS
<1>2. /\ next \in Entry
      /\ IF read > entry.resetsAt
         THEN next.count = 1 /\ next.resetsAt = read + Lockout
         ELSE next.count = entry.count + 1 /\ next.resetsAt = entry.resetsAt
      /\ IF next.count >= Limit
         THEN next.lockedUntil = read + Lockout
         ELSE next.lockedUntil = entry.lockedUntil
  BY <1>1, CountedEntry
<1>3. IsFiniteSet(recorded) /\ Cardinality(recorded) \in Nat /\ f \notin recorded
  BY FS_CardinalityType DEF EntryOK, Failure
<1>4. /\ recorded \cup {f} \in SUBSET Failure /\ IsFiniteSet(recorded \cup {f})
      /\ Cardinality(recorded \cup {f}) = Cardinality(recorded) + 1
  BY <1>3, FS_AddElement
<1>5. \A g \in recorded \cup {f} : g.nr <= Cardinality(recorded \cup {f}) /\ g.at <= time
  BY <1>3, <1>4 DEF EntryOK, Failure
<1>6. next.resetsAt <= time + Lockout /\ next.lockedUntil <= time + Lockout
  BY <1>2, SettingsAssumption DEF EntryOK, Entry
<1>7. next.count <= Cardinality(Since(recorded \cup {f}, next.resetsAt - Lockout))
  <2>1. next.resetsAt - Lockout \in Int /\ next.resetsAt - Lockout <= f.at
    BY <1>2, <1>6, SettingsAssumption DEF Entry
  <2>2. /\ Cardinality(Since(recorded, next.resetsAt - Lockout)) \in Nat
        /\ Cardinality(Since(recorded \cup {f}, next.resetsAt - Lockout))
             = Cardinality(Since(recorded, next.resetsAt - Lockout)) + 1
    BY <1>3, <2>1, SinceAdds
  <2> QED
    BY <1>2, <2>2 DEF EntryOK, Entry
<1>8. ASSUME next.lockedUntil > 0
      PROVE  Cardinality(Since(recorded \cup {f}, next.lockedUntil - 2 * Lockout)) >= Limit
  <2>1. CASE next.count >= Limit
    <3>1. /\ next.lockedUntil - 2 * Lockout \in Int /\ next.resetsAt - Lockout \in Int
          /\ next.lockedUntil - 2 * Lockout <= next.resetsAt - Lockout
      BY <1>2, <2>1, SettingsAssumption DEF Entry
    <3>2. /\ Cardinality(Since(recorded \cup {f}, next.resetsAt - Lockout)) \in Nat
          /\ Cardinality(Since(recorded \cup {f}, next.lockedUntil - 2 * Lockout)) \in Nat
          /\ Cardinality(Since(recorded \cup {f}, next.resetsAt - Lockout))
               <= Cardinality(Since(recorded \cup {f}, next.lockedUntil - 2 * Lockout))
      BY <1>4, <3>1, SinceGrows
    <3>3. Cardinality(Since(recorded \cup {f}, next.resetsAt - Lockout)) >= Limit
      BY <1>2, <1>7, <2>1, <3>2, LimitType DEF Entry
    <3> QED
      BY <3>2, <3>3, LimitType
  <2>2. CASE ~(next.count >= Limit)
    <3>1. next.lockedUntil = entry.lockedUntil /\ next.lockedUntil - 2 * Lockout \in Int
      BY <1>2, <2>2, SettingsAssumption DEF Entry
    <3>2. Cardinality(Since(recorded, next.lockedUntil - 2 * Lockout)) >= Limit
      BY <1>8, <3>1 DEF EntryOK
    <3>3. /\ Cardinality(Since(recorded, next.lockedUntil - 2 * Lockout)) \in Nat
          /\ Cardinality(Since(recorded \cup {f}, next.lockedUntil - 2 * Lockout)) \in Nat
          /\ Cardinality(Since(recorded, next.lockedUntil - 2 * Lockout))
               <= Cardinality(Since(recorded \cup {f}, next.lockedUntil - 2 * Lockout))
      BY <1>3, <3>1, SinceAdds
    <3> QED
      BY <3>2, <3>3, LimitType
  <2> QED
    BY <2>1, <2>2
<1>9. \A g \in recorded \cup {f} : g.read <= next.resetsAt
  BY <1>2, SettingsAssumption DEF EntryOK, Entry, Failure
<1>10. Cardinality(ReadSince(recorded \cup {f}, next.resetsAt - Lockout)) <= next.count
  <2>1. CASE read > entry.resetsAt
    <3>1. next.resetsAt - Lockout = read /\ next.count = 1
      BY <1>2, <2>1, SettingsAssumption
    <3>2. \A g \in recorded : g.read < read
      BY <2>1 DEF EntryOK, Entry, Failure
    <3>3. read \in Int
      OBVIOUS
    <3>4. Cardinality(ReadSince(recorded \cup {f}, read)) <= 1
      BY <3>2, <3>3, ReadSinceStartsOver
    <3> QED
      BY <3>1, <3>4
  <2>2. CASE ~(read > entry.resetsAt)
    <3>1. entry.resetsAt - Lockout \in Int /\ next.resetsAt - Lockout = entry.resetsAt - Lockout
      BY <1>2, <2>2, SettingsAssumption DEF Entry
    <3>2. Cardinality(ReadSince(recorded, entry.resetsAt - Lockout)) <= entry.count
      BY DEF EntryOK
    <3>3. /\ Cardinality(ReadSince(recorded, entry.resetsAt - Lockout)) \in Nat
          /\ Cardinality(ReadSince(recorded \cup {f}, entry.resetsAt - Lockout)) \in Nat
          /\ Cardinality(ReadSince(recorded \cup {f}, entry.resetsAt - Lockout))
               <= Cardinality(ReadSince(recorded, entry.resetsAt - Lockout)) + 1
      BY <1>3, <3>1, ReadSinceAdds
    <3> QED
      BY <1>2, <2>2, <3>1, <3>2, <3>3 DEF Entry
  <2> QED
    BY <2>1, <2>2
<1>11. next.count >= Limit => LockedByLatest(next, recorded \cup {f})
  BY <1>2, <1>4 DEF LockedByLatest
<1> QED
  BY <1>1, <1>4, <1>5, <1>6, <1>7, <1>8, <1>9, <1>10, <1>11 DEF EntryOK

-----------------------------------------------------------------------------

LEMMA NoEntryOK ==
  ASSUME NEW time \in Nat
  PROVE  NoEntry \in Entry /\ EntryOK(NoEntry, {}, time)
<1>1. \A since : Since({}, since) = {} /\ ReadSince({}, since) = {}
  BY DEF Since, ReadSince
<1> QED
  BY <1>1, FS_EmptySet, SettingsAssumption, LimitType DEF NoEntry, Entry, EntryOK

LEMMA GuardInit == Init => GuardInv
<1> SUFFICES ASSUME Init PROVE GuardInv
  OBVIOUS
<1>1. clock \in Nat /\ NoEntry \in Entry /\ EntryOK(NoEntry, {}, clock)
  BY NoEntryOK DEF Init
<1> QED
  BY <1>1, BoundsAssumption DEF Init, GuardInv, TypeOK

\* The clock moves, or a thread moves without touching an entry.
LEMMA OtherStepsKeepGuard ==
  ASSUME GuardInv, UNCHANGED <<entries, failures>>, TypeOK', clock <= clock',
         \A t \in Threads : now'[t] <= clock'
  PROVE  GuardInv'
<1>1. clock \in Nat /\ clock' \in Nat
  BY DEF GuardInv, TypeOK
<1>2. ASSUME NEW a \in Accounts
      PROVE  EntryOK(entries[a], failures[a], clock')
  BY <1>1, SettingsAssumption DEF GuardInv, TypeOK, EntryOK, Entry, Failure
<1> QED
  BY <1>2 DEF GuardInv

LEMMA SuccessKeepsGuard ==
  ASSUME GuardInv, NEW t \in Threads, RecordSuccess(t)
  PROVE  GuardInv'
<1>1. clock \in Nat /\ NoEntry \in Entry /\ EntryOK(NoEntry, {}, clock)
  BY NoEntryOK DEF GuardInv, TypeOK
<1>2. TypeOK' /\ \A u \in Threads : now'[u] <= clock'
  BY <1>1 DEF GuardInv, TypeOK, RecordSuccess, Goto
<1>3. ASSUME NEW a \in Accounts
      PROVE  EntryOK(entries'[a], failures'[a], clock')
  BY <1>1 DEF GuardInv, TypeOK, RecordSuccess
<1> QED
  BY <1>2, <1>3 DEF GuardInv

LEMMA FailureKeepsGuard ==
  ASSUME GuardInv, NEW t \in Threads, RecordFailure(t)
  PROVE  GuardInv'
<1> DEFINE b == account[t]
           f == [nr |-> Cardinality(failures[b]) + 1, read |-> now[t], at |-> clock]
<1>1. /\ b \in Accounts /\ entries[b] \in Entry /\ now[t] \in Nat /\ clock \in Nat
      /\ now[t] <= clock /\ failures[b] \in SUBSET Failure
      /\ EntryOK(entries[b], failures[b], clock)
  BY DEF GuardInv, TypeOK
<1>2. /\ f \in Failure /\ f.nr = Cardinality(failures[b]) + 1
      /\ f.read = now[t] /\ f.at = clock
  BY <1>1, FS_CardinalityType DEF EntryOK, Failure
<1>3. /\ Counted(entries[b], now[t]) \in Entry
      /\ EntryOK(Counted(entries[b], now[t]), failures[b] \cup {f}, clock)
  BY <1>1, <1>2, CountedEntry, CountedOK
<1>4. /\ failures' = [failures EXCEPT ![b] = @ \cup {f}]
      /\ entries' = [entries EXCEPT ![b] = Counted(@, now[t])]
      /\ UNCHANGED <<clock, attempts, account, now>>
      /\ pc' = [pc EXCEPT ![t] = "idle"]
  BY DEF RecordFailure, Goto
<1> HIDE DEF f
<1>5. TypeOK' /\ \A u \in Threads : now'[u] <= clock'
  BY <1>1, <1>2, <1>3, <1>4 DEF GuardInv, TypeOK
<1>6. ASSUME NEW a \in Accounts
      PROVE  EntryOK(entries'[a], failures'[a], clock')
  BY <1>1, <1>3, <1>4 DEF GuardInv, TypeOK
<1> QED
  BY <1>5, <1>6 DEF GuardInv

LEMMA GuardNext == GuardInv /\ [Next]_vars => GuardInv'
<1> SUFFICES ASSUME GuardInv, [Next]_vars PROVE GuardInv'
  OBVIOUS
<1>1. CASE Tick
  <2>1. TypeOK' /\ clock <= clock' /\ UNCHANGED <<entries, failures>>
    BY <1>1, BoundsAssumption DEF GuardInv, TypeOK, Tick
  <2>2. \A t \in Threads : now'[t] <= clock'
    BY <1>1 DEF GuardInv, TypeOK, Tick
  <2> QED
    BY <2>1, <2>2, OtherStepsKeepGuard
<1>2. ASSUME NEW t \in Threads, Begin(t) \/ Refuse(t) \/ Admit(t) \/ Deny(t) \/ Accept(t)
      PROVE  GuardInv'
  <2>1. UNCHANGED <<clock, entries, failures>>
    BY <1>2 DEF Begin, Refuse, Admit, Deny, Accept
  <2>2. TypeOK' /\ clock <= clock' /\ \A u \in Threads : now'[u] <= clock'
    BY <1>2, BoundsAssumption DEF GuardInv, TypeOK, Goto, Begin, Refuse, Admit, Deny, Accept
  <2> QED
    BY <2>1, <2>2, OtherStepsKeepGuard
<1>3. CASE UNCHANGED vars
  BY <1>3 DEF vars, GuardInv, TypeOK
<1> QED
  BY <1>1, <1>2, <1>3, SuccessKeepsGuard, FailureKeepsGuard DEF Next, Login

-----------------------------------------------------------------------------

\* The window, the count and the lock of every account follow from failures
\* that were recorded, however late a thread records what it has read earlier
\* (InMemoryLoginGuard).
THEOREM GuardCounts == Spec => []GuardInv
<1>1. Init => GuardInv
  BY GuardInit
<1>2. GuardInv /\ [Next]_vars => GuardInv'
  BY GuardNext
<1> QED
  BY <1>1, <1>2, PTL DEF Spec

\* A locked account has seen the limit of failures within two lockout periods,
\* and no success among them (record_failure, assert_not_locked).
THEOREM OnlyFailuresLock == Spec => []LocksAreDeserved
<1>1. ASSUME GuardInv
      PROVE  LocksAreDeserved
  <2> SUFFICES ASSUME NEW a \in Accounts, IsLocked(entries[a], clock)
               PROVE  Cardinality(Since(failures[a], clock - 2 * Lockout)) >= Limit
    BY DEF LocksAreDeserved
  <2>1. /\ entries[a].lockedUntil \in Nat /\ clock \in Nat
        /\ failures[a] \in SUBSET Failure /\ EntryOK(entries[a], failures[a], clock)
    BY <1>1 DEF GuardInv, TypeOK, Entry
  <2>2. /\ entries[a].lockedUntil > 0
        /\ clock - 2 * Lockout \in Int /\ entries[a].lockedUntil - 2 * Lockout \in Int
        /\ clock - 2 * Lockout <= entries[a].lockedUntil - 2 * Lockout
    BY <2>1, SettingsAssumption DEF IsLocked
  <2>3. /\ IsFiniteSet(failures[a])
        /\ Cardinality(Since(failures[a], entries[a].lockedUntil - 2 * Lockout)) >= Limit
    BY <2>1, <2>2 DEF EntryOK
  <2> QED
    BY <2>1, <2>2, <2>3, SinceGrows, LimitType
<1> QED
  BY <1>1, GuardCounts, PTL

\* Once the limit of failures has been read since the window of an account
\* began, it is locked for a period from the reading of the latest of them, in
\* whatever order the threads record what they have read (record_failure).
THEOREM EnoughFailuresDoLock == Spec => []EnoughFailuresLock
<1>1. ASSUME GuardInv
      PROVE  EnoughFailuresLock
  <2> SUFFICES ASSUME NEW a \in Accounts,
                      Cardinality(ReadSince(failures[a], entries[a].resetsAt - Lockout)) >= Limit
               PROVE  LockedByLatest(entries[a], failures[a])
    BY DEF EnoughFailuresLock
  <2>1. /\ entries[a].count \in Nat /\ entries[a].resetsAt - Lockout \in Int
        /\ failures[a] \in SUBSET Failure /\ EntryOK(entries[a], failures[a], clock)
    BY <1>1, SettingsAssumption DEF GuardInv, TypeOK, Entry
  <2>2. /\ IsFiniteSet(failures[a])
        /\ Cardinality(ReadSince(failures[a], entries[a].resetsAt - Lockout)) <= entries[a].count
        /\ entries[a].count >= Limit => LockedByLatest(entries[a], failures[a])
    BY <2>1 DEF EntryOK
  <2>3. ReadSince(failures[a], entries[a].resetsAt - Lockout) \in SUBSET failures[a]
    BY DEF ReadSince
  <2>4. Cardinality(ReadSince(failures[a], entries[a].resetsAt - Lockout)) \in Nat
    BY <2>2, <2>3, FS_Subset, FS_CardinalityType
  <2> QED
    BY <2>1, <2>2, <2>4, LimitType
<1> QED
  BY <1>1, GuardCounts, PTL

\* No lock ends later than one lockout period from now, so an account that is
\* left alone is open again (record_failure).
THEOREM EveryLockEnds == Spec => []LocksEnd
<1>1. GuardInv => LocksEnd
  BY DEF GuardInv, EntryOK, LocksEnd
<1> QED
  BY <1>1, GuardCounts, PTL

=============================================================================
