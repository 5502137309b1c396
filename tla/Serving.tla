-------------------------------- MODULE Serving --------------------------------
(***************************************************************************)
(* What requests compete for inside the process: worker threads and        *)
(* database connections.                                                   *)
(*                                                                         *)
(* Endpoints and dependencies are plain functions, and each runs in a      *)
(* worker thread of its own turn.  A session takes a connection from the   *)
(* pool at its first statement and keeps it until it commits, rolls back   *)
(* or is closed, also while the request waits for its next thread; so one  *)
(* request may hold a connection and wait for a thread while another one   *)
(* holds a thread and waits for a connection.                              *)
(***************************************************************************)
EXTENDS Integers, Sequences, FiniteSets

CONSTANTS
  Slots,        \* requests that can be in flight at a time
  Threads,      \* worker threads, 40 in the library
  Connections,  \* db_pool_size + db_max_overflow
  Kinds         \* the kinds of requests that arrive

ASSUME SlotsAssumption == IsFiniteSet(Slots)
ASSUME LimitsAssumption == Threads \in Nat \ {0} /\ Connections \in Nat \ {0}

VARIABLES
  kind,       \* per slot: the kind of its request
  phase,      \* "idle", "waiting" for a thread, "running" or "closing"
  todo,       \* what the request still does
  conn,       \* its session holds a connection
  committed,  \* it has committed a write
  outcome     \* how it is or was answered

vars == <<kind, phase, todo, conn, committed, outcome>>

\* Statements in a row are one "query"; at "thread" the function returns and the
\* request waits for a thread for the next one.  The user of the token is
\* resolved by a dependency; after a commit the row is refreshed.
Plan ==
  [probe    |-> <<>>,
   ready    |-> <<"query">>,
   login    |-> <<"query", "thread">>,
   register |-> <<"query", "commit", "query", "thread">>,
   read     |-> <<"query", "thread", "query", "thread">>,
   create   |-> <<"query", "thread", "query", "commit", "query", "thread">>,
   update   |-> <<"query", "thread", "query", "commit", "query", "thread">>,
   delete   |-> <<"query", "thread", "query", "commit">>]

ASSUME KindsAssumption == Kinds \subseteq DOMAIN Plan

InFlight == {r \in Slots : phase[r] # "idle"}

Running == {r \in Slots : phase[r] = "running"}

Holding == {r \in Slots : conn[r]}

NextIs(r, step) == phase[r] = "running" /\ todo[r] # <<>> /\ Head(todo[r]) = step

Advance(r) == todo' = [todo EXCEPT ![r] = Tail(todo[r])]

-----------------------------------------------------------------------------
(* A request *)

Arrive(r) ==
  /\ phase[r] = "idle"
  /\ phase' = [phase EXCEPT ![r] = "waiting"]
  /\ \E k \in Kinds :
       kind' = [kind EXCEPT ![r] = k] /\ todo' = [todo EXCEPT ![r] = Plan[k]]
  /\ UNCHANGED <<conn, committed, outcome>>

TakeThread(r) ==
  /\ phase[r] = "waiting" /\ Cardinality(Running) < Threads
  /\ phase' = [phase EXCEPT ![r] = "running"]
  /\ UNCHANGED <<kind, todo, conn, committed, outcome>>

LeaveThread(r) ==
  /\ NextIs(r, "thread") /\ Advance(r)
  /\ phase' = [phase EXCEPT ![r] = "waiting"]
  /\ UNCHANGED <<kind, conn, committed, outcome>>

CheckOut(r) ==
  /\ NextIs(r, "query") /\ ~conn[r] /\ Cardinality(Holding) < Connections
  /\ conn' = [conn EXCEPT ![r] = TRUE]
  /\ UNCHANGED <<kind, phase, todo, committed, outcome>>

Query(r) ==
  /\ NextIs(r, "query") /\ conn[r]
  /\ Advance(r)
  /\ UNCHANGED <<kind, phase, conn, committed, outcome>>

\* The connection goes back to the pool, and the refresh takes one again.
Commit(r) ==
  /\ NextIs(r, "commit") /\ Advance(r)
  /\ conn' = [conn EXCEPT ![r] = FALSE]
  /\ committed' = [committed EXCEPT ![r] = TRUE]
  /\ UNCHANGED <<kind, phase, outcome>>

\* A concurrent edit or delete has come first: the session is rolled back, and
\* the version is read again for the answer, 412.
LoseRace(r) ==
  /\ NextIs(r, "commit") /\ kind[r] \in {"update", "delete"}
  /\ todo' = [todo EXCEPT ![r] = <<"query">>]
  /\ conn' = [conn EXCEPT ![r] = FALSE]
  /\ outcome' = [outcome EXCEPT ![r] = "refused"]
  /\ UNCHANGED <<kind, phase, committed>>

\* The exception leaves the function; only closing the session is left to do.
Raise(r, how) ==
  /\ todo' = [todo EXCEPT ![r] = <<>>]
  /\ outcome' = [outcome EXCEPT ![r] = how]
  /\ UNCHANGED <<kind, phase, conn, committed>>

\* AppError: a token that is not accepted, which needs no connection, wrong
\* credentials, no such bookmark, a conflict, a precondition that fails.
Refuse(r) ==
  /\ NextIs(r, "query") /\ ~committed[r] /\ kind[r] # "ready"
  /\ Raise(r, "refused")

\* Fault: only errors of the database make the readiness probe answer 503.
DatabaseErrors(cause) == cause = "database"

\* except Exception
Unready(cause) == TRUE

Fail(r, cause) ==
  Raise(r, IF kind[r] = "ready" /\ Unready(cause) THEN "unavailable" ELSE "failed")

\* Fault: a request that gets no connection is put back in the queue.
TryAgain(r) ==
  /\ NextIs(r, "query") /\ ~conn[r] /\ Cardinality(Holding) >= Connections
  /\ phase' = [phase EXCEPT ![r] = "waiting"]
  /\ UNCHANGED <<kind, todo, conn, committed, outcome>>

\* No connection has become free for db_pool_timeout seconds.
PoolTimeout(r) ==
  /\ NextIs(r, "query") /\ ~conn[r] /\ Cardinality(Holding) >= Connections
  /\ Fail(r, "pool")

\* The database cannot be reached, or a statement or the commit fails.
DatabaseFails(r) ==
  /\ NextIs(r, "query") \/ NextIs(r, "commit")
  /\ conn[r]
  /\ Fail(r, "database")

Return(r) ==
  /\ phase[r] = "running" /\ todo[r] = <<>>
  /\ phase' = [phase EXCEPT ![r] = "closing"]
  /\ UNCHANGED <<kind, todo, conn, committed, outcome>>

\* The answer is sent, and the slot is free for another request.
Answer(r) ==
  /\ phase[r] = "closing"
  /\ phase' = [phase EXCEPT ![r] = "idle"]
  /\ kind' = [kind EXCEPT ![r] = "probe"]
  /\ committed' = [committed EXCEPT ![r] = FALSE]
  /\ outcome' = [outcome EXCEPT ![r] = "ok"]
  /\ UNCHANGED todo

\* Fault: without finally a session is not closed when the endpoint has raised.
CloseUnlessRaised(r) ==
  Answer(r) /\ conn' = [conn EXCEPT ![r] = conn[r] /\ outcome[r] # "ok"]

\* The finally clause of get_db, which needs no worker thread.
Close(r) == Answer(r) /\ conn' = [conn EXCEPT ![r] = FALSE]

-----------------------------------------------------------------------------

Init ==
  /\ kind = [r \in Slots |-> "probe"]
  /\ phase = [r \in Slots |-> "idle"]
  /\ todo = [r \in Slots |-> <<>>]
  /\ conn = [r \in Slots |-> FALSE]
  /\ committed = [r \in Slots |-> FALSE]
  /\ outcome = [r \in Slots |-> "ok"]

Serve(r) ==
  \/ TakeThread(r) \/ LeaveThread(r) \/ CheckOut(r) \/ Query(r) \/ Commit(r)
  \/ LoseRace(r) \/ Refuse(r) \/ PoolTimeout(r) \/ DatabaseFails(r)
  \/ Return(r) \/ Close(r)

Next == \E r \in Slots : Arrive(r) \/ Serve(r)

Spec == Init /\ [][Next]_vars

\* Functions run to their end, threads are given in the order in which they are
\* asked for, and a wait for a connection ends with one or with the timeout.
FairSpec == Spec /\ \A r \in Slots : SF_vars(Serve(r))

-----------------------------------------------------------------------------
(* Properties *)

WaitsForConnection(r) == NextIs(r, "query") /\ ~conn[r]

Starving == {r \in Slots : WaitsForConnection(r)}

\* Every thread waits for a connection and none is free.
Stalled ==
  /\ Cardinality(Starving) = Threads
  /\ Cardinality(Holding) = Connections

\* The process comes to a standstill, until the pool's timeout ends it, only
\* under as many requests as it has threads and connections together: fewer
\* cannot wait for each other, whatever has failed before.
StallNeedsCrowd == Stalled => Cardinality(InFlight) >= Threads + Connections

\* No request is failed by the pool while at most as many are in flight as there
\* are connections; each holds at most one, and gives it back however it ends.
TimeoutNeedsCrowd ==
  [][\A r \in Slots : PoolTimeout(r) => Cardinality(InFlight) > Connections]_vars

\* The readiness probe tells an orchestrator ready or unavailable, 503, and is
\* never itself an error, whatever it was that it could not get.
ReadyTellsTruth ==
  \A r \in Slots : kind[r] = "ready" => outcome[r] \in {"ok", "unavailable"}

\* Each request is answered, whatever else arrives: threads that wait for
\* connections and connections that wait for threads come free again.
EveryRequestIsAnswered == \A r \in Slots : phase[r] = "waiting" ~> phase[r] = "idle"

-----------------------------------------------------------------------------
(* Why a stall needs a crowd: who waits for a connection holds none, and     *)
(* whoever holds one is in flight.                                           *)

TypeOK ==
  /\ kind \in [Slots -> DOMAIN Plan]
  /\ phase \in [Slots -> {"idle", "waiting", "running", "closing"}]
  /\ todo \in [Slots -> Seq({"query", "thread", "commit"})]
  /\ conn \in [Slots -> BOOLEAN]
  /\ committed \in [Slots -> BOOLEAN]
  /\ outcome \in [Slots -> {"ok", "refused", "failed", "unavailable"}]

LimitsKept == Cardinality(Running) <= Threads /\ Cardinality(Holding) <= Connections

ServingInv ==
  /\ TypeOK /\ LimitsKept /\ ReadyTellsTruth
  /\ \A r \in Slots : phase[r] = "idle" => ~conn[r] /\ outcome[r] = "ok"

=============================================================================
