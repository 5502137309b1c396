----------------------------- MODULE ServingProofs -----------------------------
(***************************************************************************)
(* However many threads and connections there are: the requests that wait  *)
(* for each other are at least as many as both together.                   *)
(***************************************************************************)
EXTENDS Serving, FiniteSetTheorems, TLAPS

LEMMA PlanType ==
  \A k \in DOMAIN Plan : Plan[k] \in Seq({"query", "thread", "commit"})
<1> DEFINE Steps == Seq({"query", "thread", "commit"})
<1>1. <<>> \in Steps /\ <<"query">> \in Steps /\ <<"query", "thread">> \in Steps
  OBVIOUS
<1>2. <<"query", "commit", "query", "thread">> \in Steps
  OBVIOUS
<1>3. <<"query", "thread", "query", "thread">> \in Steps
  OBVIOUS
<1>4. <<"query", "thread", "query", "commit", "query", "thread">> \in Steps
  OBVIOUS
<1>5. <<"query", "thread", "query", "commit">> \in Steps
  OBVIOUS
<1> HIDE DEF Steps
<1>6. \A k \in DOMAIN Plan : Plan[k] \in Steps
  BY <1>1, <1>2, <1>3, <1>4, <1>5 DEF Plan
<1> QED
  BY <1>6 DEF Steps

-----------------------------------------------------------------------------
(* The limits *)

\* At most one request more than before has a thread, and none has if the
\* threads were all taken; the same for connections.
LEMMA LimitKept ==
  ASSUME NEW before \in SUBSET Slots, NEW after \in SUBSET Slots, NEW r \in Slots,
         NEW limit \in Nat, Cardinality(before) <= limit,
         \/ after \subseteq before
         \/ after \subseteq before \cup {r} /\ Cardinality(before) < limit
  PROVE  Cardinality(after) <= limit
<1>1. /\ IsFiniteSet(before) /\ Cardinality(before) \in Nat
      /\ IsFiniteSet(after) /\ Cardinality(after) \in Nat
  BY SlotsAssumption, FS_Subset, FS_CardinalityType
<1>2. CASE after \subseteq before
  <2>1. Cardinality(after) <= Cardinality(before)
    BY <1>1, <1>2, FS_Subset
  <2> QED
    BY <1>1, <2>1
<1>3. CASE after \subseteq before \cup {r} /\ Cardinality(before) < limit
  <2>1. /\ IsFiniteSet(before \cup {r})
        /\ Cardinality(before \cup {r}) \in {Cardinality(before), Cardinality(before) + 1}
    BY <1>1, FS_AddElement
  <2>2. Cardinality(after) <= Cardinality(before \cup {r})
    BY <1>3, <2>1, FS_Subset
  <2> QED
    BY <1>1, <1>3, <2>1, <2>2
<1> QED
  BY <1>2, <1>3

LEMMA SetsInSlots ==
  /\ Running \in SUBSET Slots /\ Holding \in SUBSET Slots /\ InFlight \in SUBSET Slots
  /\ Running' \in SUBSET Slots /\ Holding' \in SUBSET Slots
BY DEF Running, Holding, InFlight

\* Nobody takes a thread but in TakeThread, nor a connection but in CheckOut.
LEMMA StepKeepsLimits ==
  ASSUME ServingInv, NEW r \in Slots, Arrive(r) \/ Serve(r)
  PROVE  LimitsKept'
<1> USE DEF ServingInv, TypeOK, Running, Holding
<1>1. \/ Running' \subseteq Running
      \/ Running' \subseteq Running \cup {r} /\ Cardinality(Running) < Threads
  <2>1. CASE TakeThread(r)
    BY <2>1 DEF TakeThread
  <2>2. CASE ~TakeThread(r)
    <3>1. \A s \in Slots : phase'[s] = "running" => phase[s] = "running"
      BY <2>2 DEF Serve, Arrive, LeaveThread, CheckOut, Query, Commit, LoseRace,
        Refuse, PoolTimeout, DatabaseFails, Return, Close, Answer, Fail, Raise
    <3> QED
      BY <3>1
  <2> QED
    BY <2>1, <2>2
<1>2. \/ Holding' \subseteq Holding
      \/ Holding' \subseteq Holding \cup {r} /\ Cardinality(Holding) < Connections
  <2>1. CASE CheckOut(r)
    BY <2>1 DEF CheckOut
  <2>2. CASE ~CheckOut(r)
    <3>1. \A s \in Slots : conn'[s] => conn[s]
      BY <2>2 DEF Serve, Arrive, TakeThread, LeaveThread, Query, Commit, LoseRace,
        Refuse, PoolTimeout, DatabaseFails, Return, Close, Answer, Fail, Raise
    <3> QED
      BY <3>1
  <2> QED
    BY <2>1, <2>2
<1>3. Cardinality(Running') <= Threads
  BY <1>1, SetsInSlots, LimitKept, LimitsAssumption DEF LimitsKept
<1>4. Cardinality(Holding') <= Connections
  BY <1>2, SetsInSlots, LimitKept, LimitsAssumption DEF LimitsKept
<1> QED
  BY <1>3, <1>4 DEF LimitsKept

-----------------------------------------------------------------------------
(* The invariant *)

LEMMA StepKeepsType ==
  ASSUME TypeOK, NEW r \in Slots, Arrive(r) \/ Serve(r)
  PROVE  TypeOK'
<1> USE DEF TypeOK
<1>1. CASE Arrive(r)
  BY <1>1, PlanType, KindsAssumption DEF Arrive
<1>2. ASSUME todo[r] # <<>>
      PROVE  Tail(todo[r]) \in Seq({"query", "thread", "commit"})
  BY <1>2
<1>3. CASE LeaveThread(r) \/ Query(r) \/ Commit(r)
  BY <1>2, <1>3 DEF LeaveThread, Query, Commit, NextIs, Advance
<1>4. CASE LoseRace(r)
  BY <1>4 DEF LoseRace
<1>5. ASSUME NEW how \in {"refused", "failed", "unavailable"}, Raise(r, how)
      PROVE  TypeOK'
  BY <1>5 DEF Raise
<1>6. CASE Refuse(r) \/ PoolTimeout(r) \/ DatabaseFails(r)
  BY <1>5, <1>6 DEF Refuse, PoolTimeout, DatabaseFails, Fail
<1>7. CASE TakeThread(r) \/ CheckOut(r) \/ Return(r)
  BY <1>7 DEF TakeThread, CheckOut, Return
<1>8. CASE Close(r)
  BY <1>8 DEF Close, Answer, Plan
<1> QED
  BY <1>1, <1>3, <1>4, <1>6, <1>7, <1>8 DEF Serve

\* An empty slot holds nothing, and the probe is never refused or failed.
Orderly ==
  /\ ReadyTellsTruth
  /\ \A r \in Slots : phase[r] = "idle" => ~conn[r] /\ outcome[r] = "ok"

LEMMA StepKeepsOrder ==
  ASSUME TypeOK, Orderly, NEW r \in Slots, Arrive(r) \/ Serve(r)
  PROVE  Orderly'
<1> USE DEF TypeOK, Orderly, ReadyTellsTruth
<1>1. CASE Arrive(r)
  BY <1>1 DEF Arrive
<1>2. CASE TakeThread(r) \/ LeaveThread(r) \/ CheckOut(r) \/ Query(r) \/ Commit(r) \/ Return(r)
  BY <1>2 DEF TakeThread, LeaveThread, CheckOut, Query, Commit, Return, NextIs
<1>3. CASE LoseRace(r)
  BY <1>3 DEF LoseRace, NextIs
<1>4. CASE Refuse(r)
  BY <1>4 DEF Refuse, Raise, NextIs
<1>5. CASE PoolTimeout(r) \/ DatabaseFails(r)
  BY <1>5 DEF PoolTimeout, DatabaseFails, Fail, Unready, Raise, NextIs
<1>6. CASE Close(r)
  BY <1>6 DEF Close, Answer
<1> QED
  BY <1>1, <1>2, <1>3, <1>4, <1>5, <1>6 DEF Serve

\* Threads and connections are never given twice, nobody holds a connection
\* without a request, and the readiness probe is answered 200 or 503.
THEOREM ServingKept == Spec => []ServingInv
<1>1. Init => ServingInv
  <2> SUFFICES ASSUME Init PROVE ServingInv
    OBVIOUS
  <2>1. TypeOK
    BY DEF Init, TypeOK, Plan
  <2>2. Running = {} /\ Holding = {}
    BY DEF Init, Running, Holding
  <2>3. LimitsKept
    BY <2>2, FS_EmptySet, LimitsAssumption DEF LimitsKept
  <2> QED
    BY <2>1, <2>3 DEF Init, ServingInv, ReadyTellsTruth
<1>2. ServingInv /\ [Next]_vars => ServingInv'
  <2>1. ASSUME ServingInv, NEW r \in Slots, Arrive(r) \/ Serve(r)
        PROVE  ServingInv'
    BY <2>1, StepKeepsType, StepKeepsOrder, StepKeepsLimits DEF ServingInv, Orderly
  <2>2. ASSUME ServingInv, UNCHANGED vars
        PROVE  ServingInv'
    BY <2>2 DEF vars, ServingInv, TypeOK, LimitsKept, ReadyTellsTruth, Running, Holding
  <2> QED
    BY <2>1, <2>2 DEF Next
<1> QED
  BY <1>1, <1>2, PTL DEF Spec

-----------------------------------------------------------------------------
(* The results *)

\* Those that wait for a connection and those that hold one are different
\* requests in flight, so a stall takes as many as there are threads and
\* connections together.
THEOREM StallTakesCrowd == Spec => []StallNeedsCrowd
<1>1. ServingInv => StallNeedsCrowd
  <2> SUFFICES ASSUME ServingInv, Stalled
               PROVE  Cardinality(InFlight) >= Threads + Connections
    BY DEF StallNeedsCrowd
  <2>1. /\ Starving \in SUBSET Slots
        /\ Starving \cap Holding = {}
        /\ Starving \cup Holding \subseteq InFlight
    BY DEF ServingInv, Starving, WaitsForConnection, NextIs, Holding, InFlight
  <2>2. /\ IsFiniteSet(Starving) /\ IsFiniteSet(Holding) /\ IsFiniteSet(InFlight)
        /\ Cardinality(InFlight) \in Nat
    BY <2>1, SetsInSlots, SlotsAssumption, FS_Subset, FS_CardinalityType
  <2>3. Cardinality(Starving \cup Holding) = Threads + Connections
    <3>1. Cardinality(Starving \cup Holding)
            = Cardinality(Starving) + Cardinality(Holding) - Cardinality(Starving \cap Holding)
      BY <2>2, FS_Union
    <3> QED
      BY <3>1, <2>1, FS_EmptySet, LimitsAssumption DEF Stalled
  <2>4. Cardinality(Starving \cup Holding) <= Cardinality(InFlight)
    BY <2>1, <2>2, FS_Subset
  <2> QED
    BY <2>2, <2>3, <2>4, LimitsAssumption
<1> QED
  BY <1>1, ServingKept, PTL

\* While no more requests are in flight than there are connections, the pool
\* fails none of them.
THEOREM PoolServesItsSize == Spec => TimeoutNeedsCrowd
<1>1. ASSUME ServingInv, NEW r \in Slots, PoolTimeout(r)
      PROVE  Cardinality(InFlight) > Connections
  <2>1. /\ r \notin Holding
        /\ Holding \cup {r} \subseteq InFlight
        /\ Cardinality(Holding) >= Connections
    BY <1>1 DEF ServingInv, PoolTimeout, NextIs, Holding, InFlight
  <2>2. /\ IsFiniteSet(Holding) /\ IsFiniteSet(InFlight)
        /\ Cardinality(Holding) \in Nat /\ Cardinality(InFlight) \in Nat
    BY SetsInSlots, SlotsAssumption, FS_Subset, FS_CardinalityType
  <2>3. Cardinality(Holding \cup {r}) = Cardinality(Holding) + 1
    BY <2>1, <2>2, FS_AddElement
  <2>4. Cardinality(Holding \cup {r}) <= Cardinality(InFlight)
    BY <2>1, <2>2, FS_Subset
  <2> QED
    BY <2>1, <2>2, <2>3, <2>4, LimitsAssumption
<1>2. ServingInv =>
        [\A r \in Slots : PoolTimeout(r) => Cardinality(InFlight) > Connections]_vars
  BY <1>1
<1> QED
  BY <1>2, ServingKept, PTL DEF TimeoutNeedsCrowd

\* Whatever fails, the readiness probe says ready or unavailable.
THEOREM ReadinessIsTold == Spec => []ReadyTellsTruth
<1>1. ServingInv => ReadyTellsTruth
  BY DEF ServingInv
<1> QED
  BY <1>1, ServingKept, PTL

=============================================================================
