----------------------------- MODULE LoginGuard -----------------------------
(***************************************************************************)
(* Login with the in-memory guard that locks an account after too many     *)
(* failures (AuthService.login and InMemoryLoginGuard).                    *)
(*                                                                         *)
(* Login runs in worker threads of one process.  Each call of the guard is *)
(* atomic under its mutex, except that it reads the clock before it takes  *)
(* the mutex.  A login is a check, a slow verification of the password,    *)
(* and a record of the outcome; other logins run in between.               *)
(***************************************************************************)
EXTENDS Integers, FiniteSets

CONSTANTS
  Threads,        \* worker threads
  Accounts,       \* login emails, trimmed and in lower case
  MaxFailures,    \* LOGIN_MAX_FAILURES
  Lockout,        \* LOGIN_LOCKOUT_SECONDS, in ticks of the clock
  MaxTime,        \* bound on the clock
  MaxAttempts     \* bound on the logins of one behaviour

ASSUME SettingsAssumption == MaxFailures \in Int /\ Lockout \in Nat
ASSUME BoundsAssumption == MaxTime \in Nat /\ MaxAttempts \in Nat

VARIABLES
  clock,      \* time.monotonic()
  attempts,   \* logins begun
  entries,    \* the guard's state per account
  pc,         \* per thread: what its login does next
  account,    \* per thread: the account of its login
  now,        \* per thread: the clock as its call of the guard has read it
  failures    \* history: the failures recorded since the last success

vars == <<clock, attempts, entries, pc, account, now, failures>>

-----------------------------------------------------------------------------

\* self._max
Limit == IF MaxFailures < 1 THEN 1 ELSE MaxFailures

\* An account without an entry is like one with a fresh entry.
NoEntry == [count |-> 0, resetsAt |-> 0, lockedUntil |-> 0]

Goto(t, step) == pc' = [pc EXCEPT ![t] = step]

Tick ==
  /\ clock < MaxTime
  /\ clock' = clock + 1
  /\ UNCHANGED <<attempts, entries, pc, account, now, failures>>

\* A login calls assert_not_locked, which reads the clock first.
Begin(t) ==
  /\ pc[t] = "idle" /\ attempts < MaxAttempts
  /\ attempts' = attempts + 1
  /\ \E a \in Accounts : account' = [account EXCEPT ![t] = a]
  /\ now' = [now EXCEPT ![t] = clock]
  /\ Goto(t, "assert")
  /\ UNCHANGED <<clock, entries, failures>>

IsLocked(entry, time) == entry.lockedUntil > time

\* TooManyAttemptsError: 429.
Refuse(t) ==
  /\ pc[t] = "assert" /\ IsLocked(entries[account[t]], now[t])
  /\ Goto(t, "idle")
  /\ UNCHANGED <<clock, attempts, entries, account, now, failures>>

Admit(t) ==
  /\ pc[t] = "assert" /\ ~IsLocked(entries[account[t]], now[t])
  /\ Goto(t, "verify")
  /\ UNCHANGED <<clock, attempts, entries, account, now, failures>>

\* The password is wrong or the email unknown; record_failure reads the clock.
Deny(t) ==
  /\ pc[t] = "verify"
  /\ now' = [now EXCEPT ![t] = clock]
  /\ Goto(t, "recordFailure")
  /\ UNCHANGED <<clock, attempts, entries, account, failures>>

Accept(t) ==
  /\ pc[t] = "verify"
  /\ Goto(t, "recordSuccess")
  /\ UNCHANGED <<clock, attempts, entries, account, now, failures>>

\* Fault: the window of the first failure is never closed.
SameWindow(entry, time) == entry

\* A fresh counting window if the previous one has elapsed.
Window(entry, time) ==
  IF time > entry.resetsAt
  THEN [count |-> 0, resetsAt |-> time + Lockout, lockedUntil |-> entry.lockedUntil]
  ELSE entry

\* Fault: a lock is added to the one before.
LockedOnTop(entry, time) ==
  IF entry.count >= Limit
  THEN [entry EXCEPT !.lockedUntil =
          (IF @ > time THEN @ ELSE time) + Lockout]
  ELSE entry

\* Fault: the account is locked one failure late.
LockedLate(entry, time) ==
  IF entry.count > Limit THEN [entry EXCEPT !.lockedUntil = time + Lockout] ELSE entry

Locked(entry, time) ==
  IF entry.count >= Limit THEN [entry EXCEPT !.lockedUntil = time + Lockout] ELSE entry

Counted(entry, time) ==
  Locked([Window(entry, time) EXCEPT !.count = @ + 1], time)

RecordFailure(t) ==
  /\ pc[t] = "recordFailure"
  /\ entries' = [entries EXCEPT ![account[t]] = Counted(@, now[t])]
  /\ failures' = [failures EXCEPT ![account[t]] =
       @ \cup {[nr |-> Cardinality(@) + 1, read |-> now[t], at |-> clock]}]
  /\ Goto(t, "idle")
  /\ UNCHANGED <<clock, attempts, account, now>>

RecordSuccess(t) ==
  /\ pc[t] = "recordSuccess"
  /\ entries' = [entries EXCEPT ![account[t]] = NoEntry]
  /\ failures' = [failures EXCEPT ![account[t]] = {}]
  /\ Goto(t, "idle")
  /\ UNCHANGED <<clock, attempts, account, now>>

-----------------------------------------------------------------------------

\* The clock shows some time since the machine was started.
Init ==
  /\ clock = 1
  /\ attempts = 0
  /\ entries = [a \in Accounts |-> NoEntry]
  /\ pc = [t \in Threads |-> "idle"]
  /\ account \in [Threads -> Accounts]
  /\ now = [t \in Threads |-> 0]
  /\ failures = [a \in Accounts |-> {}]

Login(t) ==
  \/ Begin(t) \/ Refuse(t) \/ Admit(t) \/ Deny(t) \/ Accept(t)
  \/ RecordFailure(t) \/ RecordSuccess(t)

Next == Tick \/ \E t \in Threads : Login(t)

Spec == Init /\ [][Next]_vars

-----------------------------------------------------------------------------
(* Properties *)

Entry == [count : Nat, resetsAt : Nat, lockedUntil : Nat]

Failure == [nr : Nat \ {0}, read : Nat, at : Nat]

TypeOK ==
  /\ clock \in Nat /\ attempts \in 0..MaxAttempts
  /\ entries \in [Accounts -> Entry]
  /\ pc \in [Threads -> {"idle", "assert", "verify", "recordFailure", "recordSuccess"}]
  /\ account \in [Threads -> Accounts]
  /\ now \in [Threads -> Nat]
  /\ failures \in [Accounts -> SUBSET Failure]

Since(recorded, time) == {f \in recorded : f.at >= time}

\* Nobody is locked out without cause: a locked account has seen the limit of
\* failures, with no success among them, within two lockout periods, however
\* late the threads record what they have read earlier.
LocksAreDeserved ==
  \A a \in Accounts :
    IsLocked(entries[a], clock) => Cardinality(Since(failures[a], clock - 2 * Lockout)) >= Limit

\* Nobody is locked out for longer than one lockout period from now.
LocksEnd == \A a \in Accounts : entries[a].lockedUntil <= clock + Lockout

ReadSince(recorded, time) == {f \in recorded : f.read >= time}

\* The lock is the one that the latest of the failures has set.
LockedByLatest(entry, recorded) ==
  \E latest \in recorded :
    /\ latest.nr = Cardinality(recorded)
    /\ entry.lockedUntil = latest.read + Lockout

\* No failure is forgotten: once the limit of failures has been read since the
\* window began, in whatever order the threads record them, the account is
\* locked for a period from the time that the latest of them was read.
EnoughFailuresLock ==
  \A a \in Accounts :
    Cardinality(ReadSince(failures[a], entries[a].resetsAt - Lockout)) >= Limit
      => LockedByLatest(entries[a], failures[a])

\* "After LOGIN_MAX_FAILURES failures an account is locked for
\* LOGIN_LOCKOUT_SECONDS" (SECURITY.md): a lock that is set stays to its end.
LockHolds ==
  [][\A a \in Accounts :
       IsLocked(entries[a], clock)
         => entries'[a].lockedUntil >= entries[a].lockedUntil]_vars

-----------------------------------------------------------------------------
(* Why a lock is deserved, and set: the window remembers when its first      *)
(* failure was read; every failure in the count was recorded after that, and *)
(* every one read since, though none before, is in the count.                *)

EntryOK(entry, recorded, time) ==
  /\ IsFiniteSet(recorded)
  /\ \A f \in recorded : f.nr <= Cardinality(recorded) /\ f.at <= time
  /\ entry.resetsAt <= time + Lockout
  /\ entry.count <= Cardinality(Since(recorded, entry.resetsAt - Lockout))
  /\ \A f \in recorded : f.read <= entry.resetsAt
  /\ Cardinality(ReadSince(recorded, entry.resetsAt - Lockout)) <= entry.count
  /\ entry.count >= Limit => LockedByLatest(entry, recorded)
  /\ entry.lockedUntil <= time + Lockout
  /\ entry.lockedUntil > 0 =>
       Cardinality(Since(recorded, entry.lockedUntil - 2 * Lockout)) >= Limit

GuardInv ==
  /\ TypeOK
  /\ \A t \in Threads : now[t] <= clock
  /\ \A a \in Accounts : EntryOK(entries[a], failures[a], clock)

=============================================================================
