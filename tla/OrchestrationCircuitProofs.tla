--------------------- MODULE OrchestrationCircuitProofs ---------------------
(***************************************************************************)
(* The circuit breaker never trips early.  The failure count of a dispatch *)
(* is at most the number of dispatches of its task, up to it, that failed  *)
(* for good; a stalled start is not among them, since a report may still   *)
(* correct it.                                                             *)
(***************************************************************************)
EXTENDS OrchestrationStepProofs, FiniteSetTheorems

\* The failures of the task of d, up to d, that no report can correct
Counted(d) ==
  {e \in 1..d : /\ dispTask[e] = dispTask[d]
                /\ dispStatus[e] \in {"failed", "circuit_broken"}
                /\ ~stalled[e]}

\* Every count is covered by that many failures, and a broken circuit has counted three
CountInv ==
  \A d \in DispatchId :
    /\ failures[d] <= Cardinality(Counted(d))
    /\ dispStatus[d] = "circuit_broken" => failures[d] >= DISPATCH_CIRCUIT_BREAK_FAILURES

-----------------------------------------------------------------------------
(* How a step counts.                                                      *)

\* A step that counts nothing
CountsNothing ==
  /\ UNCHANGED failures
  /\ \A e \in DispatchId : dispStatus'[e] = "circuit_broken" => dispStatus[e] = "circuit_broken"

\* A step that counts a failure of the active dispatch d
CountsFailure(d) ==
  /\ Active(d)
  /\ failures' = [failures EXCEPT ![d] = @ + 1]
  /\ dispStatus' = [dispStatus EXCEPT ![d] = FailedStatus(failures[d] + 1)]
  /\ stalled' = [stalled EXCEPT ![d] = FALSE]
  /\ UNCHANGED <<rows, dispTask>>

\* A step that inserts a row for t with the count of an earlier row, or with none
InsertsCount(t) ==
  \E n \in FailureCounts(t), st \in ActiveStatuses, tm \in Terminal \cup {None},
     cap \in {"none", "valid"}, w \in {"none", "starting"}, pl \in {"local", "federated"} :
    InsertRow(t, st, n, tm, cap, w, pl)

CountShape ==
  \/ CountsNothing
  \/ \E d \in DispatchId : CountsFailure(d)
  \/ \E t \in Task : InsertsCount(t)

\* Settling with `completed` or `failed` breaks no circuit.
LEMMA SettlingCountsNothing ==
  ASSUME TypeOK, NEW D, NEW s \in {"completed", "failed"},
         dispStatus' = Settled(D, s), UNCHANGED failures
  PROVE  CountsNothing
BY DEF CountsNothing, Settled, TypeOK

\* failDispatch counts one failure.
LEMMA FailCounts ==
  ASSUME NEW d \in DispatchId, NEW exited \in BOOLEAN, FailDispatch(d, exited)
  PROVE  CountsFailure(d)
BY DEF FailDispatch, CountsFailure, rowVars

\* updateTaskStatus counts nothing.
LEMMA UpdateCountsNothing ==
  ASSUME TypeOK, NEW t, NEW s, UpdateTaskStatus(t, s), UNCHANGED failures
  PROVE  CountsNothing
<1>1. CASE s \in SettledTask
  BY <1>1, SettlingCountsNothing DEF UpdateTaskStatus, SettledTask
<1>2. CASE s \notin SettledTask
  BY <1>2 DEF UpdateTaskStatus, CountsNothing
<1> QED BY <1>1, <1>2

\* The actions on tasks and their first dispatches.
LEMMA TaskNextCounts ==
  ASSUME TypeOK, NEW t \in Task, TaskNext(t)
  PROVE  CountShape
<1>1. CASE CreateTask(t)
  BY <1>1 DEF CreateTask, CountShape, CountsNothing
<1>2. ASSUME NEW s \in TaskStatuses, NEW b \in BOOLEAN, TaskUpdate(t, s, b)
      PROVE  CountShape
  BY <1>2, UpdateCountsNothing DEF TaskUpdate, CountShape
<1>3. ASSUME NEW tm \in Terminal, NEW inject \in BOOLEAN, CreateDispatchContext(t, tm, inject)
      PROVE  CountShape
  <2>1. InsertsCount(t)
    BY <1>3 DEF CreateDispatchContext, InsertsCount, ActiveStatuses
  <2> QED BY <2>1 DEF CountShape
<1>4. ASSUME NEW pl \in Placements, StartWorker(t, pl)
      PROVE  CountShape
  <2>1. InsertsCount(t)
    BY <1>4, PlacementsAssumption DEF StartWorker, InsertsCount, FailureCounts, ActiveStatuses
  <2> QED BY <2>1 DEF CountShape
<1> QED BY <1>1, <1>2, <1>3, <1>4 DEF TaskNext

\* The actions on one dispatch.
LEMMA DispatchNextCounts ==
  ASSUME IInv, NEW d \in DispatchId, DispatchNext(d)
  PROVE  CountShape
<1> USE DEF CountShape
<1>1. CASE PromptFailure(d) \/ Escalation(d)
  BY <1>1, FailCounts DEF PromptFailure, Escalation
<1>2. CASE ReconcileMissingWorkerTerminal(d)
  BY <1>2 DEF ReconcileMissingWorkerTerminal, CountsFailure, rowVars
<1>3. ASSUME NEW pl \in Placements, RetryWorker(d, pl)
      PROVE  CountShape
  <2>1. dispTask[d] \in Task
    BY <1>3 DEF RetryWorker, IInv, TypeOK, RowsWellFormed, DispatchId
  <2>2. InsertsCount(dispTask[d])
    BY <1>3, PlacementsAssumption DEF RetryWorker, InsertsCount, FailureCounts, ActiveStatuses
  <2> QED BY <2>1, <2>2
<1>4. ASSUME NEW succeeded \in BOOLEAN, SettleWorkerReport(d, succeeded)
      PROVE  CountShape
  BY <1>4, SettlingCountsNothing DEF SettleWorkerReport, IInv
<1>5. CASE \/ ReleaseContextOnlyDispatch(d)
           \/ \E stall \in BOOLEAN : FailWorkerStart(d, stall)
           \/ \E s \in {"failed", "stopped"}, stall \in BOOLEAN :
                ReconcileFederatedWorkerGone(d, s, stall)
           \/ SettleWorkerStop(d) \/ ReconcileFederatedWorkerStop(d)
           \/ AbandonWorkerDispatch(d)
  BY <1>5 DEF ReleaseContextOnlyDispatch, FailWorkerStart, ReconcileFederatedWorkerGone,
              SettleWorkerStop, ReconcileFederatedWorkerStop, WorkerStopped,
              AbandonWorkerDispatch, CountsNothing, IInv, TypeOK
<1>6. CASE \/ \E tm \in Terminal : PrepareStartingWorkerAuthority(d, tm)
           \/ MarkWorkerDispatchReady(d) \/ MarkWorkerStartUnknown(d)
           \/ ReconcileFederatedWorkerReady(d) \/ ReconcileFederatedWorkerStartUnknown(d)
           \/ BeginWorkerStop(d) \/ MarkWorkerStopUnknown(d)
           \/ ResumeFederatedWorkerForTerminalRelay(d)
  BY <1>6 DEF PrepareStartingWorkerAuthority, MarkWorkerDispatchReady, MarkWorkerStartUnknown,
              ReconcileFederatedWorkerReady, ReconcileFederatedWorkerStartUnknown,
              BeginWorkerStop, MarkWorkerStopUnknown, ResumeFederatedWorkerForTerminalRelay,
              CountsNothing, IInv, TypeOK
<1> QED BY <1>1, <1>2, <1>3, <1>4, <1>5, <1>6 DEF DispatchNext

\* Every step counts nothing, one failure, or carries a count into a new row.
LEMMA NextCounts ==
  ASSUME IInv, [Next]_vars
  PROVE  CountShape
<1> TypeOK
  BY DEF IInv
<1>1. CASE \E t \in Task : TaskNext(t)
  BY <1>1, TaskNextCounts
<1>2. CASE \E d \in DispatchId : DispatchNext(d)
  BY <1>2, DispatchNextCounts
<1>3. ASSUME NEW tm \in Terminal, TerminalExit(tm)
      PROVE  CountShape
  <2> PICK d \in ActiveOn(tm) : WorkerStopped(d) \/ FailDispatch(d, TRUE)
    BY <1>3 DEF TerminalExit
  <2>1. d \in DispatchId
    BY DEF ActiveOn
  <2>2. CASE WorkerStopped(d)
    BY <2>1, <2>2 DEF WorkerStopped, CountShape, CountsNothing, TypeOK
  <2>3. CASE FailDispatch(d, TRUE)
    BY <2>1, <2>3, FailCounts DEF CountShape
  <2> QED BY <2>2, <2>3
<1>4. ASSUME NEW g \in Gate, GateNext(g)
      PROVE  CountShape
  <2>1. CASE \E t \in Task : CreateGate(t, g)
    BY <2>1, SettlingCountsNothing DEF CreateGate, CountShape
  <2>2. CASE ResolveGate(g) \/ ReblockTaskWithPendingGate(g)
    BY <2>2, UpdateCountsNothing DEF ResolveGate, ReblockTaskWithPendingGate, CountShape
  <2> QED BY <1>4, <2>1, <2>2 DEF GateNext
<1>5. CASE Restart
  BY <1>5 DEF Restart, CountShape, CountsNothing
<1>6. CASE UNCHANGED vars
  BY <1>6 DEF vars, CountShape, CountsNothing
<1> QED BY <1>1, <1>2, <1>3, <1>4, <1>5, <1>6 DEF Next

-----------------------------------------------------------------------------
(* The failures of a task are only ever added to.                          *)

\* A counted set is finite.
LEMMA CountedFinite ==
  ASSUME NEW d \in DispatchId
  PROVE  /\ IsFiniteSet(Counted(d)) /\ Cardinality(Counted(d)) \in Nat
         /\ IsFiniteSet(Counted(d)') /\ Cardinality(Counted(d)') \in Nat
<1>1. IsFiniteSet(1..d) /\ d \in Nat
  BY FS_Interval, MaxDispatchesAssumption DEF DispatchId
<1>2. Counted(d) \in SUBSET (1..d) /\ Counted(d)' \in SUBSET (1..d)
  BY DEF Counted
<1> QED BY <1>1, <1>2, FS_Subset, FS_CardinalityType

\* A dispatch that failed for good stays so.
LEMMA FailureStays ==
  ASSUME IInv, [Next]_vars, NEW e \in DispatchId,
         dispStatus[e] \in {"failed", "circuit_broken"}, ~stalled[e]
  PROVE  dispStatus'[e] = dispStatus[e] /\ ~stalled'[e] /\ dispTask'[e] = dispTask[e]
<1>1. ~Active(e) /\ ~Correctable(e)
  BY DEF Active, ActiveStatuses, Correctable
<1>2. ASSUME NEW d \in DispatchId, DispatchShape(d)
      PROVE  dispStatus'[e] = dispStatus[e] /\ ~stalled'[e] /\ dispTask'[e] = dispTask[e]
  BY <1>1, <1>2 DEF DispatchShape, OthersUnchanged
<1>3. ASSUME NEW t \in Task, InsertShape(t)
      PROVE  dispStatus'[e] = dispStatus[e] /\ ~stalled'[e] /\ dispTask'[e] = dispTask[e]
  <2>1. e # rows + 1 /\ dispStatus'[e] = dispStatus[e] /\ dispTask'[e] = dispTask[e]
    BY <1>3, InsertFacts
  <2>2. UNCHANGED stalled
    BY <1>3 DEF InsertShape, InsertRow
  <2> QED BY <2>1, <2>2
<1> QED BY <1>2, <1>3, NextShape DEF StepShape, TaskShape, QuietShape

\* A row keeps its task once it has one.
LEMMA TaskStays ==
  ASSUME IInv, [Next]_vars, NEW d \in DispatchId, d <= rows
  PROVE  dispTask'[d] = dispTask[d]
<1>1. ASSUME NEW t \in Task, InsertShape(t)
      PROVE  dispTask'[d] = dispTask[d]
  <2>1. dispStatus[d] # "none"
    BY DEF IInv, RowsWellFormed
  <2> QED BY <1>1, <2>1, InsertFacts
<1> QED BY <1>1, NextShape DEF StepShape, DispatchShape, TaskShape, QuietShape

\* No failure that was counted is lost.
LEMMA CountedGrows ==
  ASSUME IInv, [Next]_vars, NEW d \in DispatchId, dispTask'[d] = dispTask[d]
  PROVE  /\ Counted(d) \subseteq Counted(d)'
         /\ Cardinality(Counted(d)) <= Cardinality(Counted(d)')
<1>1. 1..d \subseteq DispatchId
  BY MaxDispatchesAssumption DEF DispatchId
<1>2. Counted(d) \subseteq Counted(d)'
  BY <1>1, FailureStays DEF Counted
<1> QED BY <1>2, CountedFinite, FS_Subset

-----------------------------------------------------------------------------
(* The counts are covered.                                                 *)

\* A failure is counted once it has happened.
LEMMA FailureStep ==
  ASSUME IInv, CountInv, [Next]_vars, NEW d \in DispatchId, CountsFailure(d)
  PROVE  CountInv'
<1>1. dispTask' = dispTask /\ failures \in [DispatchId -> Nat]
  BY DEF CountsFailure, IInv, TypeOK
<1>2. ASSUME NEW e \in DispatchId, e # d
      PROVE  /\ failures'[e] <= Cardinality(Counted(e)')
             /\ dispStatus'[e] = "circuit_broken" => failures'[e] >= DISPATCH_CIRCUIT_BREAK_FAILURES
  <2>1. failures'[e] = failures[e] /\ dispStatus'[e] = dispStatus[e]
    BY <1>2 DEF CountsFailure, IInv, TypeOK
  <2>2. Cardinality(Counted(e)) <= Cardinality(Counted(e)')
    BY <1>1, CountedGrows
  <2> QED BY <1>1, <2>1, <2>2, CountedFinite DEF CountInv
<1>3. failures'[d] = failures[d] + 1 /\ dispStatus'[d] = FailedStatus(failures[d] + 1)
      /\ ~stalled'[d]
  BY DEF CountsFailure, IInv, TypeOK
<1>4. d \notin Counted(d) /\ d \in Counted(d)'
  BY <1>1, <1>3, FailureFacts, MaxDispatchesAssumption
  DEF CountsFailure, Counted, Active, ActiveStatuses, DispatchId
<1>5. Counted(d) \cup {d} \in SUBSET Counted(d)'
  BY <1>1, <1>4, CountedGrows
<1>6. Cardinality(Counted(d)) + 1 <= Cardinality(Counted(d)')
  <2>1. Cardinality(Counted(d) \cup {d}) = Cardinality(Counted(d)) + 1
    BY <1>4, CountedFinite, FS_AddElement
  <2> QED BY <1>5, <2>1, CountedFinite, FS_Subset
<1>7. failures'[d] <= Cardinality(Counted(d)')
  BY <1>1, <1>3, <1>6, CountedFinite DEF CountInv
<1>8. dispStatus'[d] = "circuit_broken" => failures'[d] >= DISPATCH_CIRCUIT_BREAK_FAILURES
  BY <1>3 DEF FailedStatus
<1> QED BY <1>2, <1>7, <1>8 DEF CountInv

\* A new row carries the count of a row whose failures are also failures of its own task.
LEMMA CarryStep ==
  ASSUME IInv, CountInv, [Next]_vars, NEW t \in Task, InsertsCount(t)
  PROVE  CountInv'
<1> PICK n \in FailureCounts(t), st \in ActiveStatuses, tm \in Terminal \cup {None},
         cap \in {"none", "valid"}, w \in {"none", "starting"}, pl \in {"local", "federated"} :
           InsertRow(t, st, n, tm, cap, w, pl)
  BY DEF InsertsCount
<1> PICK r \in DispatchId : r = rows + 1
  BY MaxDispatchesAssumption DEF InsertRow, IInv, TypeOK, DispatchId
<1>1. rows \in Nat /\ DispatchId \subseteq Nat /\ failures \in [DispatchId -> Nat]
  BY MaxDispatchesAssumption DEF IInv, TypeOK, DispatchId
<1>2. /\ failures'[r] = n /\ dispStatus'[r] = st /\ dispTask'[r] = t
      /\ \A e \in DispatchId \ {r} : /\ failures'[e] = failures[e] /\ dispTask'[e] = dispTask[e]
                                     /\ dispStatus'[e] = dispStatus[e]
  BY DEF InsertRow, IInv, TypeOK
<1>3. ASSUME NEW e \in DispatchId, e # r
      PROVE  /\ failures'[e] <= Cardinality(Counted(e)')
             /\ dispStatus'[e] = "circuit_broken" => failures'[e] >= DISPATCH_CIRCUIT_BREAK_FAILURES
  <2>1. Cardinality(Counted(e)) <= Cardinality(Counted(e)')
    BY <1>2, <1>3, CountedGrows
  <2> QED BY <1>1, <1>2, <1>3, <2>1, CountedFinite DEF CountInv
<1>4. n <= Cardinality(Counted(r)')
  <2>1. CASE n = 0
    BY <2>1, CountedFinite
  <2>2. ASSUME NEW e \in DispatchId, dispTask[e] = t, n = failures[e]
        PROVE  n <= Cardinality(Counted(r)')
    <3>1. e <= rows
      BY <2>2, <1>1, NoneAssumption DEF IInv, RowsWellFormed
    <3>2. e # r /\ e <= r
      BY <1>1, <3>1
    <3>3. Counted(e)' \in SUBSET Counted(r)'
      BY <1>1, <1>2, <2>2, <3>2 DEF Counted
    <3>4. failures[e] <= Cardinality(Counted(e)) /\ Cardinality(Counted(e)) <= Cardinality(Counted(e)')
      BY <1>2, <3>2, CountedGrows DEF CountInv
    <3>5. Cardinality(Counted(e)') <= Cardinality(Counted(r)')
      BY <3>3, CountedFinite, FS_Subset
    <3> QED BY <1>1, <2>2, <3>4, <3>5, CountedFinite
  <2> QED BY <2>1, <2>2 DEF FailureCounts
<1>5. dispStatus'[r] # "circuit_broken"
  BY <1>2 DEF ActiveStatuses
<1> QED BY <1>2, <1>3, <1>4, <1>5 DEF CountInv

\* Every step keeps the counts covered.
LEMMA CountNext == IInv /\ CountInv /\ [Next]_vars => CountInv'
<1> SUFFICES ASSUME IInv, CountInv, [Next]_vars PROVE CountInv'
  OBVIOUS
<1>1. CASE CountsNothing
  <2>1. ASSUME NEW d \in DispatchId, dispTask'[d] = dispTask[d]
        PROVE  failures'[d] <= Cardinality(Counted(d)')
    BY <1>1, <2>1, CountedGrows, CountedFinite DEF CountsNothing, CountInv, IInv, TypeOK
  <2>2. ASSUME NEW d \in DispatchId, dispTask'[d] # dispTask[d]
        PROVE  failures'[d] <= Cardinality(Counted(d)')
    <3>1. dispTask[d] = None /\ rows \in Nat /\ DispatchId \subseteq Nat
      BY <2>2, TaskStays, MaxDispatchesAssumption DEF IInv, RowsWellFormed, TypeOK, DispatchId
    <3>2. ASSUME NEW e \in DispatchId, dispTask[e] = None
          PROVE  dispStatus[e] = "none"
      BY <3>1, <3>2, NoneAssumption DEF IInv, RowsWellFormed
    <3>3. Counted(d) = {}
      BY <3>1, <3>2, MaxDispatchesAssumption DEF Counted, DispatchId
    <3>4. failures[d] = 0
      <4>1. Cardinality(Counted(d)) = 0
        BY <3>3, FS_EmptySet
      <4> QED BY <4>1 DEF CountInv, IInv, TypeOK
    <3> QED BY <1>1, <3>4, CountedFinite DEF CountsNothing
  <2> QED BY <1>1, <2>1, <2>2 DEF CountsNothing, CountInv
<1>2. CASE \E d \in DispatchId : CountsFailure(d)
  BY <1>2, FailureStep
<1>3. CASE \E t \in Task : InsertsCount(t)
  BY <1>3, CarryStep
<1> QED BY <1>1, <1>2, <1>3, NextCounts DEF CountShape

\* A circuit breaks only after three failed dispatches of its task.
THEOREM CircuitBreaksOnThree == Spec => []CircuitNeedsThreeFailures
<1>1. Init => CountInv
  BY CountedFinite DEF Init, CountInv
<1>2. IInv /\ CountInv => CircuitNeedsThreeFailures
  <2> SUFFICES ASSUME IInv, CountInv, NEW d \in DispatchId, dispStatus[d] = "circuit_broken"
               PROVE  Cardinality({e \in 1..d : /\ dispTask[e] = dispTask[d]
                                                /\ dispStatus[e] \in {"failed", "circuit_broken"}})
                        >= DISPATCH_CIRCUIT_BREAK_FAILURES
    BY DEF CircuitNeedsThreeFailures
  <2> DEFINE F == {e \in 1..d : /\ dispTask[e] = dispTask[d]
                                /\ dispStatus[e] \in {"failed", "circuit_broken"}}
  <2>1. IsFiniteSet(F) /\ Cardinality(F) \in Nat
    <3>1. IsFiniteSet(1..d) /\ F \in SUBSET (1..d)
      BY FS_Interval, MaxDispatchesAssumption DEF DispatchId
    <3> QED BY <3>1, FS_Subset, FS_CardinalityType
  <2>2. Cardinality(Counted(d)) <= Cardinality(F)
    <3>1. Counted(d) \in SUBSET F
      BY DEF Counted
    <3> QED BY <2>1, <3>1, FS_Subset
  <2> HIDE DEF F
  <2>3. DISPATCH_CIRCUIT_BREAK_FAILURES <= Cardinality(F)
    BY <2>1, <2>2, CountedFinite DEF CountInv, IInv, TypeOK, DISPATCH_CIRCUIT_BREAK_FAILURES
  <2> QED BY <2>1, <2>3 DEF F, DISPATCH_CIRCUIT_BREAK_FAILURES
<1> QED BY <1>1, <1>2, CountNext, Invariance, PTL DEF Spec
=============================================================================
