------------------------ MODULE OrchestrationProofs ------------------------
(***************************************************************************)
(* The invariants of OrchestrationProperties hold for every set of tasks,  *)
(* terminals and gates and every number of dispatches.                     *)
(*                                                                         *)
(* Every step has one of four shapes (StepShape): it writes the rows of    *)
(* one dispatch and its task, while no other dispatch of the task is       *)
(* active; it writes a task that no dispatch holds; it inserts a dispatch  *)
(* for such a task; or it changes nothing but epochs.  There is one lemma  *)
(* per action for its shape, and one per shape for the invariant.          *)
(***************************************************************************)
EXTENDS OrchestrationProperties, TLAPS

\* A step leaves every dispatch but d alone
OthersUnchanged(d) ==
  \A e \in DispatchId \ {d} :
    /\ dispStatus'[e] = dispStatus[e] /\ stalled'[e] = stalled[e]
    /\ capability'[e] = capability[e] /\ worker'[e] = worker[e]
    /\ assignee'[e] = assignee[e]

\* A step leaves every task but t alone, or promotes it
OnlyPromotes(t) ==
  \A u \in Task \ {t} :
    \/ taskStatus'[u] = taskStatus[u]
    \/ taskStatus[u] = "pending" /\ taskStatus'[u] = "ready"

\* What the rows of one dispatch and its task owe each other
RowInv(d) ==
  /\ dispStatus[d] # "none" /\ TaskOf(d) # "absent"
  /\ Active(d) => /\ TaskOf(d) \in {"dispatched", "blocked"}
                  /\ TaskOf(d) = "blocked" <=> worker[d] \in Uncertain
  /\ TaskOf(d) = "dispatched" => Active(d)
  /\ worker[d] # "none" => (LiveWorker(d) <=> Active(d))
  /\ worker[d] = "starting" => dispStatus[d] = "pending"
  /\ stalled[d] => ~Active(d)
  /\ capability[d] = "valid" =>
       \/ Active(d) /\ worker[d] \notin {"stopping", "stop_unknown"}
       \/ dispStatus[d] = "failed" /\ stalled[d] /\ worker[d] = "failed"

\* The terminal d works on serves no other active dispatch
OwnTerminal(d) ==
  \A e \in DispatchId \ {d} :
    Active(d) /\ Active(e) /\ assignee[d] # None => assignee[d] # assignee[e]

\* A gate row has its task
GateInv == \A g \in Gate : gateStatus[g] # "none" => gateTask[g] \in Task

\* A step that completes t does it with its promotions
Completion(t) ==
  taskStatus'[t] = "completed" /\ taskStatus[t] # "completed"
    => taskStatus' = WithTask(t, "completed")

\* The task of d moves under a live worker only if that worker moves
MovesWorker(d) == LiveWorker(d) /\ TaskOf(d)' # TaskOf(d) => worker'[d] # worker[d]

-----------------------------------------------------------------------------
(* The shapes of a step.                                                   *)

\* The rows of one dispatch and of its task, no other dispatch of the task being active.  The
\* dispatch is active, or a report corrects it.
DispatchShape(d) ==
  /\ d <= rows /\ Others(d) = {}
  /\ Active(d) \/ (Correctable(d) /\ dispStatus'[d] \in {"completed", "failed"})
  /\ UNCHANGED <<rows, dispTask>> /\ GateInv'
  /\ OthersUnchanged(d) /\ OnlyPromotes(dispTask[d])
  /\ Active(d)' => Active(d)
  /\ RowInv(d)'
  /\ assignee' = assignee \/ OwnTerminal(d)'
  /\ Completion(dispTask[d]) /\ MovesWorker(d)

\* A task that no dispatch holds
TaskShape(t) ==
  /\ ActiveOf(t) = {}
  /\ UNCHANGED <<rows, dispTask, dispStatus, failures, stalled, capability, worker, assignee>>
  /\ GateInv' /\ OnlyPromotes(t) /\ Completion(t)
  /\ taskStatus'[t] \notin {"absent", "dispatched"}

\* A new dispatch of a task that no dispatch holds, on no terminal or on a free one
InsertShape(t) ==
  /\ taskStatus[t] \in {"ready", "failed", "blocked"} /\ ActiveOf(t) = {}
  /\ \E st \in ActiveStatuses, n \in Nat, tm \in Terminal \cup {None}, cap \in {"none", "valid"},
        w \in {"none", "starting"}, pl \in {"local", "federated"} :
       /\ w = "starting" <=> st = "pending"
       /\ tm = None \/ ActiveOn(tm) = {}
       /\ InsertRow(t, st, n, tm, cap, w, pl)

\* Nothing but epochs
QuietShape ==
  UNCHANGED <<taskStatus, rows, dispTask, dispStatus, failures, stalled, capability, worker,
              assignee, gateVars>>

StepShape ==
  /\ TypeOK'
  /\ \/ \E d \in DispatchId : DispatchShape(d)
     \/ \E t \in Task : TaskShape(t) \/ InsertShape(t)
     \/ QuietShape

-----------------------------------------------------------------------------
(* What holds of active dispatches.                                        *)

\* An active dispatch is the only one of its task, and keeps it dispatched or blocked.
LEMMA ActiveIsAlone ==
  ASSUME IInv, NEW d \in DispatchId, Active(d)
  PROVE  /\ d <= rows /\ dispTask[d] \in Task
         /\ Others(d) = {} /\ ActiveOf(dispTask[d]) = {d}
         /\ TaskOf(d) \in {"dispatched", "blocked"}
<1>1. d <= rows /\ dispTask[d] \in Task
  BY DEF IInv, RowsWellFormed, Active, ActiveStatuses, TypeOK, DispatchId
<1>2. ASSUME NEW e \in DispatchId, dispTask[e] = dispTask[d], Active(e)
      PROVE  e = d
  BY <1>2 DEF IInv, ActiveDispatchIsNewest, Latest, DispatchId
<1>3. ActiveOf(dispTask[d]) = {d}
  BY <1>2 DEF ActiveOf
<1>4. TaskOf(d) \in {"dispatched", "blocked"}
  BY <1>1, <1>3 DEF IInv, TaskMirrorsDispatch, TaskOf
<1> QED BY <1>1, <1>3, <1>4 DEF Others

\* The rows of an active dispatch and its task agree.
LEMMA ActiveRow ==
  ASSUME IInv, NEW d \in DispatchId, Active(d)
  PROVE  RowInv(d)
<1>1. d <= rows /\ TaskOf(d) # "absent" /\ dispStatus[d] # "none"
  BY ActiveIsAlone DEF IInv, RowsWellFormed
<1> QED
  BY <1>1, ActiveIsAlone
  DEF RowInv, IInv, BlockedMeansUncertain, SupervisionMatchesDispatch,
      CapabilityEndsWithDispatch, RowsWellFormed

\* A worker that is not settled has an active dispatch.
LEMMA LiveIsActive ==
  ASSUME IInv, NEW d \in DispatchId, LiveWorker(d)
  PROVE  Active(d)
BY DEF IInv, SupervisionMatchesDispatch, LiveWorker, LiveStates

-----------------------------------------------------------------------------
(* What the shared operators compute.                                      *)

\* Revoking keeps the type, ends the valid capabilities of D and no other.
LEMMA RevokedFacts ==
  ASSUME TypeOK, NEW D
  PROVE  /\ Revoked(D) \in [DispatchId -> {"none", "valid", "revoked"}]
         /\ \A e \in DispatchId : Revoked(D)[e] = "valid" => e \notin D
         /\ \A e \in DispatchId \ D : Revoked(D)[e] = capability[e]
BY DEF TypeOK, Revoked

\* Settling writes the rows of D and no other.
LEMMA SettledFacts ==
  ASSUME TypeOK, NEW D, NEW s \in {"completed", "failed"}
  PROVE  /\ Settled(D, s) \in [DispatchId -> ActiveStatuses \cup SettledStatuses \cup {"none"}]
         /\ \A e \in DispatchId : e \in D => Settled(D, s)[e] = s
         /\ \A e \in DispatchId \ D : Settled(D, s)[e] = dispStatus[e]
BY DEF TypeOK, Settled, SettledStatuses

\* A task set to s is s; other tasks keep their status or are promoted.
LEMMA WithTaskFacts ==
  ASSUME TypeOK, NEW t \in Task, NEW s \in TaskStatuses, taskStatus' = WithTask(t, s)
  PROVE  /\ taskStatus' \in [Task -> TaskStatuses \cup {"absent"}]
         /\ taskStatus'[t] = s /\ OnlyPromotes(t)
<1> DEFINE ts == [taskStatus EXCEPT ![t] = s]
<1>1. ts \in [Task -> TaskStatuses \cup {"absent"}] /\ ts[t] = s
      /\ \A u \in Task \ {t} : ts[u] = taskStatus[u]
  BY DEF TypeOK
<1>2. CASE s = "completed"
  <2>1. taskStatus' = Promoted(ts, t)
    BY <1>2 DEF WithTask
  <2> HIDE DEF ts
  <2>2. \A u \in Task : \/ taskStatus'[u] = ts[u]
                        \/ ts[u] = "pending" /\ taskStatus'[u] = "ready"
    BY <2>1 DEF Promoted
  <2>3. taskStatus' \in [Task -> TaskStatuses \cup {"absent"}]
    BY <2>1, <1>1 DEF Promoted, TaskStatuses
  <2> QED BY <2>2, <2>3, <1>1, <1>2 DEF OnlyPromotes
<1>3. CASE s # "completed"
  BY <1>1, <1>3 DEF WithTask, OnlyPromotes
<1> QED BY <1>2, <1>3

\* A dispatch that fails is broken or failed, its task failed or ready.
LEMMA FailureFacts ==
  \A n : /\ FailedStatus(n) \in {"circuit_broken", "failed"}
        /\ RetryOrFail(FailedStatus(n)) \in {"failed", "ready"}
BY DEF FailedStatus, RetryOrFail

-----------------------------------------------------------------------------
(* Steps that several actions make.                                        *)

\* updateTaskStatus: the task is free, or its one dispatch is not supervised and settles with it,
\* or the status `dispatched` is asserted again.
LEMMA UpdateShape ==
  ASSUME IInv, NEW t \in Task, NEW s \in TaskStatuses, UpdateTaskStatus(t, s),
         UNCHANGED <<rowVars, failures, stalled, assignee, worker, ownEpoch>>,
         gateStatus' \in [Gate -> {"none", "pending", "resolved"}],
         gateTask' \in [Gate -> Task \cup {None}], GateInv'
  PROVE  StepShape
<1> USE DEF UpdateTaskStatus, rowVars
<1>1. /\ taskStatus' \in [Task -> TaskStatuses \cup {"absent"}]
      /\ taskStatus'[t] = s /\ OnlyPromotes(t)
  BY WithTaskFacts DEF IInv
<1>2. TypeOK'
  BY <1>1, RevokedFacts, SettledFacts DEF IInv, TypeOK, SettledTask
<1>3. CASE ActiveOf(t) = {}
  <2>1. s \notin {"absent", "dispatched"}
    BY <1>3 DEF MayUpdateTask, TaskStatuses
  <2>2. dispStatus' = dispStatus /\ capability' = capability
    BY <1>3 DEF Settled, Revoked, IInv, TypeOK
  <2>3. TaskShape(t)
    BY <1>1, <1>3, <2>1, <2>2 DEF TaskShape, Completion
  <2> QED BY <1>2, <2>3 DEF StepShape
<1>4. ASSUME NEW d \in ActiveOf(t)
      PROVE  StepShape
  <2>1. d \in DispatchId /\ dispTask[d] = t /\ Active(d)
    BY DEF ActiveOf
  <2>2. ActiveOf(t) = {d} /\ Others(d) = {} /\ d <= rows
    BY <2>1, ActiveIsAlone
  <2>3. RowInv(d)
    BY <2>1, ActiveRow
  <2>4. s \in SettledTask \cup {"dispatched"}
    BY <2>2 DEF MayUpdateTask
  <2>5. CASE s = "dispatched"
    <3>1. taskStatus[t] = "dispatched" \/ ~LiveWorker(d)
      BY <2>2, <2>5 DEF MayUpdateTask
    <3>2. taskStatus[t] = "dispatched"
      BY <3>1, <2>1, <2>3 DEF RowInv, TaskOf, LiveWorker, LiveStates, Uncertain
    <3>3. dispStatus' = dispStatus /\ capability' = capability
      BY <2>5 DEF SettledTask
    <3>4. OthersUnchanged(d) /\ (Active(d)' <=> Active(d))
      BY <3>3 DEF OthersUnchanged, Active
    <3>5. RowInv(d)'
      BY <2>1, <2>3, <2>5, <3>2, <3>3, <3>4, <1>1 DEF RowInv, TaskOf, LiveWorker
    <3>6. DispatchShape(d)
      BY <1>1, <2>1, <2>2, <2>5, <3>2, <3>4, <3>5 DEF DispatchShape, Completion, MovesWorker, TaskOf
    <3> QED BY <1>2, <2>1, <3>6 DEF StepShape
  <2>6. CASE s \in SettledTask
    <3>1. dispStatus' = Settled({d}, s) /\ capability' = Revoked({d}) /\ ~LiveWorker(d)
      BY <2>2, <2>6 DEF MayUpdateTask
    <3>2. dispStatus'[d] = s /\ capability'[d] # "valid" /\ OthersUnchanged(d)
      BY <3>1, <2>1, <2>6 DEF Settled, Revoked, OthersUnchanged, SettledTask
    <3>3. RowInv(d)'
      BY <2>1, <2>3, <2>6, <3>1, <3>2, <1>1
      DEF RowInv, TaskOf, LiveWorker, Active, ActiveStatuses, SettledTask, LiveStates
    <3>4. DispatchShape(d)
      BY <1>1, <2>1, <2>2, <3>1, <3>2, <3>3 DEF DispatchShape, Completion, MovesWorker
    <3> QED BY <1>2, <2>1, <3>4 DEF StepShape
  <2> QED BY <2>4, <2>5, <2>6
<1> QED BY <1>3, <1>4

\* failDispatch, with whatever the caller does to the task.
LEMMA FailShape ==
  ASSUME IInv, NEW d \in DispatchId, NEW exited \in BOOLEAN, FailDispatch(d, exited),
         NEW s \in {"ready", "failed", "blocked"},
         taskStatus' = [taskStatus EXCEPT ![dispTask[d]] = s]
  PROVE  StepShape
<1> USE DEF FailDispatch
<1>1. Active(d) /\ RowInv(d)
  BY ActiveRow
<1>2. d <= rows /\ Others(d) = {} /\ dispTask[d] \in Task
  BY <1>1, ActiveIsAlone
<1>3. taskStatus'[dispTask[d]] = s /\ OnlyPromotes(dispTask[d])
  BY <1>2 DEF IInv, TypeOK, OnlyPromotes
<1>4. dispStatus'[d] \in {"failed", "circuit_broken"}
  BY FailureFacts DEF IInv, TypeOK
<1>5. capability' \in [DispatchId -> {"none", "valid", "revoked"}] /\ capability'[d] # "valid"
  BY RevokedFacts DEF IInv
<1>6. TypeOK'
  <2>1. FailedStatus(failures[d] + 1) \in SettledStatuses
    BY FailureFacts DEF SettledStatuses
  <2>2. failures' \in [DispatchId -> Nat]
    BY DEF IInv, TypeOK
  <2> QED BY <1>5, <2>1, <2>2 DEF IInv, TypeOK, rowVars, gateVars, SettledStates, TaskStatuses
<1>7. OthersUnchanged(d)
  BY DEF OthersUnchanged, Revoked, IInv, TypeOK
<1>8. ~Active(d)'
  BY <1>4 DEF Active, ActiveStatuses
<1>9. worker'[d] \notin LiveStates
  BY <1>1 DEF IInv, TypeOK, LiveWorker, LiveStates
<1>10. RowInv(d)'
  <2>1. stalled'[d] = FALSE
    BY DEF IInv, TypeOK
  <2> QED BY <2>1, <1>3, <1>4, <1>5, <1>8, <1>9 DEF RowInv, TaskOf, LiveWorker, LiveStates, rowVars
<1>11. MovesWorker(d)
  BY <1>9 DEF MovesWorker, LiveWorker
<1>12. DispatchShape(d)
  BY <1>1, <1>2, <1>3, <1>7, <1>8, <1>10, <1>11
  DEF DispatchShape, Completion, rowVars, gateVars, GateInv, IInv, RowsWellFormed
<1> QED BY <1>6, <1>12 DEF StepShape

\* A stop that took effect.
LEMMA StoppedShape ==
  ASSUME IInv, NEW d \in DispatchId, worker[d] \in {"stopping", "stop_unknown"}, WorkerStopped(d)
  PROVE  StepShape
<1> USE DEF WorkerStopped
<1>1. Active(d) /\ RowInv(d)
  BY LiveIsActive, ActiveRow DEF LiveWorker, LiveStates
<1>2. d <= rows /\ Others(d) = {} /\ dispTask[d] \in Task
  BY <1>1, ActiveIsAlone
<1>3. taskStatus' = [taskStatus EXCEPT ![dispTask[d]] = "blocked"]
  BY <1>1, <1>2 DEF Reconciled, RowInv, Uncertain
<1>4. taskStatus'[dispTask[d]] = "blocked" /\ OnlyPromotes(dispTask[d])
  BY <1>2, <1>3 DEF IInv, TypeOK, OnlyPromotes
<1>5. /\ dispStatus'[d] = "failed" /\ worker'[d] = "stopped" /\ stalled'[d] = FALSE
      /\ capability' = capability /\ capability[d] # "valid"
  BY <1>1 DEF IInv, TypeOK, RowInv
<1>6. TypeOK'
  BY <1>1, <1>3 DEF IInv, TypeOK, rowVars, gateVars, TaskStatuses, SettledStatuses, SettledStates
<1>7. OthersUnchanged(d)
  BY DEF OthersUnchanged, IInv, TypeOK
<1>8. RowInv(d)'
  BY <1>4, <1>5 DEF RowInv, TaskOf, LiveWorker, LiveStates, Active, ActiveStatuses, rowVars
<1>9. MovesWorker(d)
  BY <1>5 DEF MovesWorker, LiveWorker, LiveStates
<1>10. DispatchShape(d)
  BY <1>1, <1>2, <1>4, <1>7, <1>8, <1>9
  DEF DispatchShape, Completion, rowVars, gateVars, GateInv, IInv, RowsWellFormed
<1> QED BY <1>6, <1>10 DEF StepShape

\* A step on the rows of an active dispatch and its task that assigns no terminal.
LEMMA ActiveShape ==
  ASSUME IInv, TypeOK', NEW d \in DispatchId, Active(d),
         UNCHANGED <<rows, dispTask, assignee, gateStatus, gateTask>>,
         OthersUnchanged(d), OnlyPromotes(dispTask[d]), RowInv(d)',
         Completion(dispTask[d]), MovesWorker(d)
  PROVE  StepShape
<1>1. d <= rows /\ Others(d) = {}
  BY ActiveIsAlone
<1>2. GateInv'
  BY DEF GateInv, IInv, RowsWellFormed
<1> QED BY <1>1, <1>2 DEF DispatchShape, StepShape

-----------------------------------------------------------------------------
(* The actions on tasks and gates.                                         *)

\* A task that is created has no dispatch.
LEMMA CreateTaskShape ==
  ASSUME IInv, NEW t \in Task, CreateTask(t)
  PROVE  StepShape
<1> USE DEF CreateTask
<1>1. TypeOK'
  BY DEF IInv, TypeOK, rowVars, gateVars, TaskStatuses
<1>2. taskStatus'[t] \notin {"absent", "dispatched"} /\ OnlyPromotes(t)
  BY DEF IInv, TypeOK, OnlyPromotes
<1>3. ActiveOf(t) = {}
  BY DEF IInv, TaskMirrorsDispatch
<1>4. TaskShape(t)
  BY <1>2, <1>3
  DEF TaskShape, Completion, rowVars, gateVars, GateInv, IInv, TypeOK, RowsWellFormed
<1> QED BY <1>1, <1>4 DEF StepShape

\* An operator's update is updateTaskStatus and nothing more.
LEMMA TaskUpdateShape ==
  ASSUME IInv, NEW t \in Task, NEW s \in TaskStatuses, NEW b \in BOOLEAN, TaskUpdate(t, s, b)
  PROVE  StepShape
BY UpdateShape DEF TaskUpdate, gateVars, GateInv, IInv, TypeOK, RowsWellFormed

\* A gate blocks a free task, or completes the one dispatch of an unsupervised task.
LEMMA CreateGateShape ==
  ASSUME IInv, NEW t \in Task, NEW g \in Gate, CreateGate(t, g)
  PROVE  StepShape
<1> USE DEF CreateGate, rowVars
<1>1. taskStatus'[t] = "blocked" /\ OnlyPromotes(t)
  BY DEF IInv, TypeOK, OnlyPromotes
<1>2. TypeOK'
  BY RevokedFacts, SettledFacts DEF IInv, TypeOK, TaskStatuses
<1>3. GateInv'
  BY DEF IInv, TypeOK, RowsWellFormed, GateInv
<1>4. CASE ActiveOf(t) = {}
  <2>1. dispStatus' = dispStatus /\ capability' = capability
    BY <1>4 DEF Settled, Revoked, IInv, TypeOK
  <2>2. TaskShape(t)
    BY <1>1, <1>3, <1>4, <2>1 DEF TaskShape, Completion
  <2> QED BY <1>2, <2>2 DEF StepShape
<1>5. ASSUME NEW d \in ActiveOf(t)
      PROVE  StepShape
  <2>1. d \in DispatchId /\ dispTask[d] = t /\ Active(d)
    BY DEF ActiveOf
  <2>2. ActiveOf(t) = {d} /\ Others(d) = {} /\ d <= rows
    BY <2>1, ActiveIsAlone
  <2>3. RowInv(d)
    BY <2>1, ActiveRow
  <2>4. dispStatus' = Settled({d}, "completed") /\ capability' = Revoked({d}) /\ ~LiveWorker(d)
    BY <2>2
  <2>5. dispStatus'[d] = "completed" /\ capability'[d] # "valid" /\ OthersUnchanged(d)
    BY <2>4, <2>1 DEF Settled, Revoked, OthersUnchanged
  <2>6. RowInv(d)'
    BY <2>1, <2>3, <2>4, <2>5, <1>1
    DEF RowInv, TaskOf, LiveWorker, Active, ActiveStatuses, LiveStates
  <2>7. DispatchShape(d)
    BY <1>1, <1>3, <2>1, <2>2, <2>4, <2>5, <2>6 DEF DispatchShape, Completion, MovesWorker
  <2> QED BY <1>2, <2>1, <2>7 DEF StepShape
<1> QED BY <1>4, <1>5

\* Resolving a gate makes its task ready, which updateTaskStatus refuses under a dispatch.
LEMMA ResolveGateShape ==
  ASSUME IInv, NEW g \in Gate, ResolveGate(g)
  PROVE  StepShape
<1>1. gateTask[g] \in Task
  BY DEF ResolveGate, IInv, RowsWellFormed
<1>2. /\ gateStatus' \in [Gate -> {"none", "pending", "resolved"}]
      /\ gateTask' \in [Gate -> Task \cup {None}] /\ GateInv'
  BY DEF ResolveGate, IInv, TypeOK, RowsWellFormed, GateInv
<1> QED BY <1>1, <1>2, UpdateShape DEF ResolveGate, TaskStatuses

\* Re-blocking is refused under a dispatch as well.
LEMMA ReblockShape ==
  ASSUME IInv, NEW g \in Gate, ReblockTaskWithPendingGate(g)
  PROVE  StepShape
<1>1. gateTask[g] \in Task
  BY DEF ReblockTaskWithPendingGate, IInv, RowsWellFormed
<1>2. /\ gateStatus' \in [Gate -> {"none", "pending", "resolved"}]
      /\ gateTask' \in [Gate -> Task \cup {None}] /\ GateInv'
  BY DEF ReblockTaskWithPendingGate, gateVars, IInv, TypeOK, RowsWellFormed, GateInv
<1> QED BY <1>1, <1>2, UpdateShape DEF ReblockTaskWithPendingGate, TaskStatuses

-----------------------------------------------------------------------------
(* The actions that insert a dispatch.                                     *)

\* An inserted row has the types of its columns.
LEMMA InsertTypes ==
  ASSUME IInv, NEW t \in Task, InsertShape(t)
  PROVE  TypeOK'
<1> PICK st \in ActiveStatuses, n \in Nat, tm \in Terminal \cup {None}, cap \in {"none", "valid"},
         w \in {"none", "starting"}, pl \in {"local", "federated"} :
           InsertRow(t, st, n, tm, cap, w, pl)
  BY DEF InsertShape
<1>1. rows' \in 0..MaxDispatches
  BY MaxDispatchesAssumption DEF IInv, TypeOK, InsertRow
<1>2. w \in LiveStates \cup {"none"}
  BY DEF LiveStates
<1> QED BY <1>1, <1>2 DEF IInv, TypeOK, InsertRow, gateVars, TaskStatuses

\* A task that is ready has no active dispatch, and the terminal has none.
LEMMA CreateDispatchContextShape ==
  ASSUME IInv, NEW t \in Task, NEW tm \in Terminal, NEW inject \in BOOLEAN,
         CreateDispatchContext(t, tm, inject)
  PROVE  StepShape
<1>1. PICK n \in FailureCounts(t) :
        InsertRow(t, "dispatched", n, tm, IF inject THEN "valid" ELSE "none", "none", "local")
  BY DEF CreateDispatchContext
<1>2. n \in Nat
  BY DEF FailureCounts, IInv, TypeOK
<1>3. ActiveOf(t) = {} /\ taskStatus[t] # "absent" /\ ActiveOn(tm) = {}
  BY DEF CreateDispatchContext, IInv, TaskMirrorsDispatch
<1>4. InsertShape(t)
  BY <1>1, <1>2, <1>3 DEF InsertShape, ActiveStatuses, CreateDispatchContext
<1> QED BY <1>4, InsertTypes DEF StepShape

\* A task that is ready has no active dispatch.
LEMMA StartWorkerShape ==
  ASSUME IInv, NEW t \in Task, NEW pl \in Placements, StartWorker(t, pl)
  PROVE  StepShape
<1>1. ActiveOf(t) = {} /\ taskStatus[t] # "absent"
  BY DEF StartWorker, IInv, TaskMirrorsDispatch
<1>2. InsertShape(t)
  BY <1>1, PlacementsAssumption DEF StartWorker, InsertShape, ActiveStatuses
<1> QED BY <1>2, InsertTypes DEF StepShape

\* The newest row of the task is over, and only the newest can be active.
LEMMA RetryWorkerShape ==
  ASSUME IInv, NEW p \in DispatchId, NEW pl \in Placements, RetryWorker(p, pl)
  PROVE  StepShape
<1>1. p <= rows
  BY DEF RetryWorker, IInv, TypeOK, RowsWellFormed, DispatchId
<1> PICK t \in Task : t = dispTask[p]
  BY <1>1 DEF IInv, RowsWellFormed
<1>2. ~Active(p)
  BY DEF RetryWorker, IInv, SupervisionMatchesDispatch, LiveWorker, LiveStates, Active, ActiveStatuses
<1>3. ASSUME NEW e \in DispatchId, dispTask[e] = t, Active(e)
      PROVE  FALSE
  <2>1. Latest(e) /\ Latest(p)
    BY <1>3 DEF IInv, ActiveDispatchIsNewest, RetryWorker
  <2>2. e = p
    BY <2>1, <1>3 DEF Latest, DispatchId
  <2> QED BY <2>2, <1>2, <1>3
<1>4. ActiveOf(t) = {} /\ taskStatus[t] # "absent"
  BY <1>3 DEF ActiveOf, RetryWorker, TaskOf
<1>5. InsertRow(t, "pending", 0, None, "none", "starting", pl)
  BY DEF RetryWorker
<1>6. InsertShape(t)
  BY <1>4, <1>5, PlacementsAssumption DEF RetryWorker, InsertShape, ActiveStatuses, TaskOf
<1> QED BY <1>6, InsertTypes DEF StepShape

-----------------------------------------------------------------------------
(* The actions on one dispatch.                                            *)

\* A prompt that could not be sent fails its dispatch.
LEMMA PromptFailureShape ==
  ASSUME IInv, NEW d \in DispatchId, PromptFailure(d)
  PROVE  StepShape
<1>1. TaskAfterFailure(d) \in {"ready", "failed", "blocked"}
  BY ActiveIsAlone, FailureFacts DEF PromptFailure, FailDispatch, TaskAfterFailure
<1> QED BY <1>1, FailShape DEF PromptFailure

\* An escalation fails its dispatch, and the task with a broken circuit.
LEMMA EscalationShape ==
  ASSUME IInv, NEW d \in DispatchId, Escalation(d)
  PROVE  StepShape
<1>1. TaskAfterFailure(d) \in {"ready", "failed", "blocked"}
  BY ActiveIsAlone, FailureFacts DEF Escalation, FailDispatch, TaskAfterFailure
<1> QED BY <1>1, FailShape DEF Escalation

\* An exit ends a stop of this runtime, or fails the newest dispatch on the terminal.
LEMMA TerminalExitShape ==
  ASSUME IInv, NEW tm \in Terminal, TerminalExit(tm)
  PROVE  StepShape
<1>1. PICK d \in ActiveOn(tm) :
        IF worker[d] = "stopping" /\ ownEpoch[d]
        THEN WorkerStopped(d)
        ELSE /\ FailDispatch(d, TRUE)
             /\ taskStatus' = [taskStatus EXCEPT ![dispTask[d]] = TaskAfterFailure(d)]
  BY DEF TerminalExit
<1>2. d \in DispatchId /\ Active(d)
  BY DEF ActiveOn
<1>3. TaskAfterFailure(d) \in {"ready", "failed", "blocked"}
  BY <1>2, ActiveIsAlone, FailureFacts DEF TaskAfterFailure
<1> QED BY <1>1, <1>2, <1>3, FailShape, StoppedShape

\* Releasing an unsupervised dispatch blocks its task.
LEMMA ReleaseContextOnlyDispatchShape ==
  ASSUME IInv, NEW d \in DispatchId, ReleaseContextOnlyDispatch(d)
  PROVE  StepShape
<1> USE DEF ReleaseContextOnlyDispatch
<1>1. Active(d) /\ RowInv(d)
  BY ActiveRow
<1>2. Others(d) = {} /\ dispTask[d] \in Task /\ TaskOf(d) \in {"dispatched", "blocked"}
  BY <1>1, ActiveIsAlone
<1>3. TypeOK'
  BY <1>2, RevokedFacts DEF IInv, TypeOK, rowVars, gateVars, TaskStatuses, SettledStatuses
<1>4. OthersUnchanged(d) /\ OnlyPromotes(dispTask[d])
  BY <1>2 DEF OthersUnchanged, OnlyPromotes, Revoked, IInv, TypeOK
<1>5. RowInv(d)'
  BY <1>2 DEF RowInv, IInv, TypeOK, TaskOf, Active, ActiveStatuses, rowVars, Revoked
<1>6. Completion(dispTask[d]) /\ MovesWorker(d)
  BY <1>2 DEF Completion, MovesWorker, LiveWorker, LiveStates, IInv, TypeOK
<1> QED BY <1>1, <1>3, <1>4, <1>5, <1>6, ActiveShape DEF rowVars, gateVars

\* A starting worker has a pending dispatch, and its task is not blocked.
LEMMA MarkWorkerDispatchReadyShape ==
  ASSUME IInv, NEW d \in DispatchId, MarkWorkerDispatchReady(d)
  PROVE  StepShape
<1> USE DEF MarkWorkerDispatchReady
<1>1. Active(d) /\ RowInv(d)
  BY ActiveRow, LiveIsActive DEF LiveWorker, LiveStates
<1>2. Others(d) = {} /\ dispTask[d] \in Task /\ TaskOf(d) \in {"dispatched", "blocked"}
  BY <1>1, ActiveIsAlone
<1>3. TypeOK'
  BY DEF IInv, TypeOK, rowVars, gateVars, ActiveStatuses, LiveStates
<1>4. OthersUnchanged(d) /\ OnlyPromotes(dispTask[d])
  BY <1>2 DEF OthersUnchanged, OnlyPromotes, IInv, TypeOK
<1>5. RowInv(d)'
  BY <1>1
  DEF RowInv, IInv, TypeOK, TaskOf, LiveWorker, Active, ActiveStatuses, LiveStates, Uncertain,
      rowVars
<1>6. Completion(dispTask[d]) /\ MovesWorker(d)
  BY <1>2 DEF Completion, MovesWorker, TaskOf, rowVars
<1> QED BY <1>1, <1>3, <1>4, <1>5, <1>6, ActiveShape DEF rowVars, gateVars

\* A start that failed fails its task; after a stalled prompt the capability is kept.
LEMMA FailWorkerStartShape ==
  ASSUME IInv, NEW d \in DispatchId, NEW stall \in BOOLEAN, FailWorkerStart(d, stall)
  PROVE  StepShape
<1> USE DEF FailWorkerStart
<1>1. Active(d) /\ RowInv(d)
  BY ActiveRow, LiveIsActive DEF LiveWorker, LiveStates
<1>2. Others(d) = {} /\ dispTask[d] \in Task /\ TaskOf(d) \in {"dispatched", "blocked"}
  BY <1>1, ActiveIsAlone
<1>3. TypeOK'
  BY <1>2, RevokedFacts
  DEF IInv, TypeOK, rowVars, gateVars, TaskStatuses, SettledStatuses, SettledStates
<1>4. OthersUnchanged(d) /\ OnlyPromotes(dispTask[d])
  BY <1>2 DEF OthersUnchanged, OnlyPromotes, Revoked, IInv, TypeOK
<1>5. RowInv(d)'
  BY <1>2
  DEF RowInv, IInv, TypeOK, TaskOf, LiveWorker, Active, ActiveStatuses, LiveStates, rowVars,
      Revoked
<1>6. Completion(dispTask[d]) /\ MovesWorker(d)
  BY <1>2 DEF Completion, MovesWorker, IInv, TypeOK
<1> QED BY <1>1, <1>3, <1>4, <1>5, <1>6, ActiveShape DEF rowVars, gateVars

\* An unknown start blocks the task and keeps the dispatch.
LEMMA MarkWorkerStartUnknownShape ==
  ASSUME IInv, NEW d \in DispatchId, MarkWorkerStartUnknown(d)
  PROVE  StepShape
<1> USE DEF MarkWorkerStartUnknown
<1>1. Active(d) /\ RowInv(d)
  BY ActiveRow, LiveIsActive DEF LiveWorker, LiveStates
<1>2. Others(d) = {} /\ dispTask[d] \in Task /\ TaskOf(d) \in {"dispatched", "blocked"}
  BY <1>1, ActiveIsAlone
<1>3. TypeOK'
  BY <1>2 DEF IInv, TypeOK, rowVars, gateVars, TaskStatuses, LiveStates
<1>4. OthersUnchanged(d) /\ OnlyPromotes(dispTask[d])
  BY <1>2 DEF OthersUnchanged, OnlyPromotes, IInv, TypeOK
<1>5. RowInv(d)'
  BY <1>1, <1>2 DEF RowInv, IInv, TypeOK, TaskOf, LiveWorker, Active, LiveStates, Uncertain, rowVars
<1>6. Completion(dispTask[d]) /\ MovesWorker(d)
  BY <1>2 DEF Completion, MovesWorker, IInv, TypeOK
<1> QED BY <1>1, <1>3, <1>4, <1>5, <1>6, ActiveShape DEF rowVars, gateVars

\* The worker server says that the worker runs.
LEMMA ReconcileFederatedWorkerReadyShape ==
  ASSUME IInv, NEW d \in DispatchId, ReconcileFederatedWorkerReady(d)
  PROVE  StepShape
<1> USE DEF ReconcileFederatedWorkerReady
<1>1. Active(d) /\ RowInv(d)
  BY ActiveRow, LiveIsActive DEF LiveWorker, LiveStates
<1>2. Others(d) = {} /\ dispTask[d] \in Task /\ TaskOf(d) \in {"dispatched", "blocked"}
  BY <1>1, ActiveIsAlone
<1>3. TypeOK'
  BY <1>2 DEF IInv, TypeOK, rowVars, gateVars, TaskStatuses, ActiveStatuses, LiveStates
<1>4. OthersUnchanged(d) /\ OnlyPromotes(dispTask[d])
  BY <1>2 DEF OthersUnchanged, OnlyPromotes, IInv, TypeOK
<1>5. RowInv(d)'
  BY <1>1, <1>2
  DEF RowInv, IInv, TypeOK, TaskOf, LiveWorker, Active, ActiveStatuses, LiveStates, Uncertain,
      rowVars
<1>6. Completion(dispTask[d]) /\ MovesWorker(d)
  BY <1>2 DEF Completion, MovesWorker, IInv, TypeOK
<1> QED BY <1>1, <1>3, <1>4, <1>5, <1>6, ActiveShape DEF rowVars, gateVars

\* The worker server does not know whether the worker runs.
LEMMA ReconcileFederatedWorkerStartUnknownShape ==
  ASSUME IInv, NEW d \in DispatchId, ReconcileFederatedWorkerStartUnknown(d)
  PROVE  StepShape
<1> USE DEF ReconcileFederatedWorkerStartUnknown
<1>1. Active(d) /\ RowInv(d)
  BY ActiveRow, LiveIsActive DEF LiveWorker, LiveStates
<1>2. Others(d) = {} /\ dispTask[d] \in Task /\ TaskOf(d) \in {"dispatched", "blocked"}
  BY <1>1, ActiveIsAlone
<1>3. TypeOK'
  BY <1>2 DEF IInv, TypeOK, rowVars, gateVars, TaskStatuses, LiveStates
<1>4. OthersUnchanged(d) /\ OnlyPromotes(dispTask[d])
  BY <1>2 DEF OthersUnchanged, OnlyPromotes, IInv, TypeOK
<1>5. RowInv(d)'
  BY <1>1, <1>2 DEF RowInv, IInv, TypeOK, TaskOf, LiveWorker, Active, LiveStates, Uncertain, rowVars
<1>6. Completion(dispTask[d]) /\ MovesWorker(d)
  BY <1>2, <1>1 DEF Completion, MovesWorker, RowInv, IInv, TypeOK, TaskOf, Uncertain, rowVars
<1> QED BY <1>1, <1>3, <1>4, <1>5, <1>6, ActiveShape DEF rowVars, gateVars

\* The worker server says that the worker is gone.
LEMMA ReconcileFederatedWorkerGoneShape ==
  ASSUME IInv, NEW d \in DispatchId, NEW s \in {"failed", "stopped"}, NEW stall \in BOOLEAN,
         ReconcileFederatedWorkerGone(d, s, stall)
  PROVE  StepShape
<1> USE DEF ReconcileFederatedWorkerGone
<1>1. Active(d) /\ RowInv(d)
  BY ActiveRow, LiveIsActive DEF LiveWorker, LiveStates
<1>2. Others(d) = {} /\ dispTask[d] \in Task /\ TaskOf(d) \in {"dispatched", "blocked"}
  BY <1>1, ActiveIsAlone
<1>3. TypeOK'
  BY <1>2, RevokedFacts
  DEF IInv, TypeOK, rowVars, gateVars, TaskStatuses, SettledStatuses, SettledStates
<1>4. OthersUnchanged(d) /\ OnlyPromotes(dispTask[d])
  BY <1>2 DEF OthersUnchanged, OnlyPromotes, Revoked, IInv, TypeOK
<1>5. RowInv(d)'
  BY <1>1, <1>2
  DEF RowInv, IInv, TypeOK, TaskOf, LiveWorker, Active, ActiveStatuses, LiveStates, rowVars,
      Revoked
<1>6. Completion(dispTask[d]) /\ MovesWorker(d)
  BY <1>2 DEF Completion, MovesWorker, IInv, TypeOK
<1> QED BY <1>1, <1>3, <1>4, <1>5, <1>6, ActiveShape DEF rowVars, gateVars

\* A stop revokes the capability and blocks the task until it is known to have worked.
LEMMA BeginWorkerStopShape ==
  ASSUME IInv, NEW d \in DispatchId, BeginWorkerStop(d)
  PROVE  StepShape
<1> USE DEF BeginWorkerStop
<1>1. Active(d) /\ RowInv(d)
  BY ActiveRow, LiveIsActive DEF LiveWorker, LiveStates
<1>2. Others(d) = {} /\ dispTask[d] \in Task /\ TaskOf(d) \in {"dispatched", "blocked"}
  BY <1>1, ActiveIsAlone
<1>3. TypeOK'
  BY <1>2, RevokedFacts DEF Reconciled, IInv, TypeOK, rowVars, gateVars, TaskStatuses, LiveStates
<1>4. OthersUnchanged(d) /\ OnlyPromotes(dispTask[d])
  BY <1>2 DEF OthersUnchanged, OnlyPromotes, Revoked, IInv, TypeOK
<1>5. RowInv(d)'
  BY <1>1, <1>2
  DEF RowInv, IInv, TypeOK, TaskOf, LiveWorker, Active, LiveStates, Uncertain, rowVars,
      Revoked, Reconciled
<1>6. Completion(dispTask[d]) /\ MovesWorker(d)
  BY <1>1, <1>2
  DEF Completion, MovesWorker, RowInv, IInv, TypeOK, TaskOf, Uncertain, Reconciled, rowVars
<1> QED BY <1>1, <1>3, <1>4, <1>5, <1>6, ActiveShape DEF rowVars, gateVars

\* A stop that may not have worked leaves the task blocked.
LEMMA MarkWorkerStopUnknownShape ==
  ASSUME IInv, NEW d \in DispatchId, MarkWorkerStopUnknown(d)
  PROVE  StepShape
<1> USE DEF MarkWorkerStopUnknown
<1>1. Active(d) /\ RowInv(d)
  BY ActiveRow, LiveIsActive DEF LiveWorker, LiveStates
<1>2. Others(d) = {} /\ dispTask[d] \in Task /\ TaskOf(d) \in {"dispatched", "blocked"}
  BY <1>1, ActiveIsAlone
<1>3. TypeOK'
  BY DEF IInv, TypeOK, rowVars, gateVars, LiveStates
<1>4. OthersUnchanged(d) /\ OnlyPromotes(dispTask[d])
  BY <1>2 DEF OthersUnchanged, OnlyPromotes, IInv, TypeOK
<1>5. RowInv(d)'
  BY <1>1 DEF RowInv, TaskOf, LiveWorker, Active, LiveStates, Uncertain, rowVars
<1>6. Completion(dispTask[d]) /\ MovesWorker(d)
  BY <1>2 DEF Completion, MovesWorker, TaskOf, rowVars
<1> QED BY <1>1, <1>3, <1>4, <1>5, <1>6, ActiveShape DEF rowVars, gateVars

\* A worker that settled before its stop is ready again, and its task dispatched.
LEMMA ResumeFederatedWorkerForTerminalRelayShape ==
  ASSUME IInv, NEW d \in DispatchId, ResumeFederatedWorkerForTerminalRelay(d)
  PROVE  StepShape
<1> USE DEF ResumeFederatedWorkerForTerminalRelay
<1>1. Active(d) /\ RowInv(d)
  BY ActiveRow, LiveIsActive DEF LiveWorker, LiveStates
<1>2. Others(d) = {} /\ dispTask[d] \in Task /\ TaskOf(d) \in {"dispatched", "blocked"}
  BY <1>1, ActiveIsAlone
<1>3. TypeOK'
  BY <1>2 DEF IInv, TypeOK, rowVars, gateVars, TaskStatuses, LiveStates
<1>4. OthersUnchanged(d) /\ OnlyPromotes(dispTask[d])
  BY <1>2 DEF OthersUnchanged, OnlyPromotes, IInv, TypeOK
<1>5. RowInv(d)'
  BY <1>1, <1>2 DEF RowInv, IInv, TypeOK, TaskOf, LiveWorker, Active, LiveStates, Uncertain, rowVars
<1>6. Completion(dispTask[d]) /\ MovesWorker(d)
  BY <1>2 DEF Completion, MovesWorker, IInv, TypeOK
<1> QED BY <1>1, <1>3, <1>4, <1>5, <1>6, ActiveShape DEF rowVars, gateVars

\* An abandoned worker gives up its dispatch and blocks the task.
LEMMA AbandonWorkerDispatchShape ==
  ASSUME IInv, NEW d \in DispatchId, AbandonWorkerDispatch(d)
  PROVE  StepShape
<1> USE DEF AbandonWorkerDispatch
<1>1. Active(d) /\ RowInv(d)
  BY ActiveRow, LiveIsActive DEF LiveWorker
<1>2. Others(d) = {} /\ dispTask[d] \in Task /\ TaskOf(d) \in {"dispatched", "blocked"}
  BY <1>1, ActiveIsAlone
<1>3. TypeOK'
  BY <1>2, RevokedFacts
  DEF Reconciled, IInv, TypeOK, rowVars, gateVars, TaskStatuses, SettledStatuses,
      SettledStates
<1>4. OthersUnchanged(d) /\ OnlyPromotes(dispTask[d])
  BY <1>2 DEF OthersUnchanged, OnlyPromotes, Revoked, IInv, TypeOK
<1>5. RowInv(d)'
  BY <1>1, <1>2
  DEF RowInv, IInv, TypeOK, TaskOf, LiveWorker, Active, ActiveStatuses, LiveStates, rowVars,
      Revoked, Reconciled
<1>6. Completion(dispTask[d]) /\ MovesWorker(d)
  BY <1>2 DEF Completion, MovesWorker, IInv, TypeOK, LiveStates, Reconciled
<1> QED BY <1>1, <1>3, <1>4, <1>5, <1>6, ActiveShape DEF rowVars, gateVars

\* A worker whose terminal is gone is stopped, or fails like an exit.
LEMMA ReconcileMissingWorkerTerminalShape ==
  ASSUME IInv, NEW d \in DispatchId, ReconcileMissingWorkerTerminal(d)
  PROVE  StepShape
<1> USE DEF ReconcileMissingWorkerTerminal
<1>1. Active(d) /\ RowInv(d)
  BY ActiveRow
<1>2. Others(d) = {} /\ dispTask[d] \in Task /\ TaskOf(d) \in {"dispatched", "blocked"}
  BY <1>1, ActiveIsAlone
<1>3. TypeOK'
  BY <1>2, RevokedFacts, FailureFacts
  DEF IInv, TypeOK, rowVars, gateVars, TaskStatuses, SettledStatuses, SettledStates
<1>4. OthersUnchanged(d) /\ OnlyPromotes(dispTask[d])
  BY <1>2 DEF OthersUnchanged, OnlyPromotes, Revoked, IInv, TypeOK
<1>5. RowInv(d)'
  BY <1>1, <1>2, FailureFacts
  DEF RowInv, IInv, TypeOK, TaskOf, LiveWorker, Active, ActiveStatuses, LiveStates, Uncertain,
      rowVars, Revoked
<1>6. Completion(dispTask[d]) /\ MovesWorker(d)
  BY <1>2 DEF Completion, MovesWorker, IInv, TypeOK, LiveWorker, LiveStates, RetryOrFail
<1> QED BY <1>1, <1>3, <1>4, <1>5, <1>6, ActiveShape DEF rowVars, gateVars

\* A worker takes a terminal on which no other dispatch is active.
LEMMA PrepareStartingWorkerAuthorityShape ==
  ASSUME IInv, NEW d \in DispatchId, NEW tm \in Terminal, PrepareStartingWorkerAuthority(d, tm)
  PROVE  StepShape
<1> USE DEF PrepareStartingWorkerAuthority
<1>1. Active(d) /\ RowInv(d)
  BY ActiveRow, LiveIsActive DEF LiveWorker, LiveStates
<1>2. d <= rows /\ Others(d) = {} /\ dispTask[d] \in Task
  BY <1>1, ActiveIsAlone
<1>3. TypeOK'
  BY DEF IInv, TypeOK, rowVars, gateVars
<1>4. OthersUnchanged(d) /\ OnlyPromotes(dispTask[d])
  BY DEF OthersUnchanged, OnlyPromotes, IInv, TypeOK
<1>5. RowInv(d)'
  BY <1>1 DEF RowInv, TaskOf, LiveWorker, Active, rowVars
<1>6. OwnTerminal(d)'
  BY DEF OwnTerminal, ActiveOn, Active, IInv, TypeOK
<1>7. Completion(dispTask[d]) /\ MovesWorker(d)
  BY DEF Completion, MovesWorker, TaskOf, rowVars
<1>8. DispatchShape(d)
  BY <1>1, <1>2, <1>4, <1>5, <1>6, <1>7
  DEF DispatchShape, rowVars, gateVars, GateInv, IInv, RowsWellFormed
<1> QED BY <1>3, <1>8 DEF StepShape

\* A report settles its dispatch, active or correctable; no sibling is active.
LEMMA SettleWorkerReportShape ==
  ASSUME IInv, NEW d \in DispatchId, NEW succeeded \in BOOLEAN, SettleWorkerReport(d, succeeded)
  PROVE  StepShape
<1> DEFINE s == IF succeeded THEN "completed" ELSE "failed"
<1>1. /\ ReportAccepted(d, succeeded)
      /\ dispStatus' = Settled({d} \cup Others(d), s)
      /\ stalled' = [e \in DispatchId |->
                       stalled[e] /\ (succeeded \/ e \notin {d} \cup Others(d))]
      /\ capability' = Revoked({d} \cup Others(d))
      /\ worker' = [worker EXCEPT ![d] =
                      IF @ = "none" THEN @ ELSE IF succeeded THEN "succeeded" ELSE "failed"]
      /\ taskStatus' = WithTask(dispTask[d], s)
      /\ UNCHANGED <<rowVars, failures, assignee, ownEpoch, gateVars>>
  BY DEF SettleWorkerReport
<1> HIDE DEF s
<1>2. s \in {"completed", "failed"}
  BY DEF s
<1>3. Active(d) \/ Correctable(d)
  BY <1>1 DEF ReportAccepted, Reconnecting, ReportingStart, Active, ActiveStatuses
<1>4. d <= rows /\ dispTask[d] \in Task /\ Others(d) = {}
  <2>1. CASE Active(d)
    BY <2>1, ActiveIsAlone
  <2>2. CASE Correctable(d)
    <3>1. d <= rows /\ dispTask[d] \in Task
      BY <2>2 DEF Correctable, IInv, TypeOK, RowsWellFormed, DispatchId
    <3>2. ActiveOf(dispTask[d]) = {}
      BY <2>2, <3>1 DEF Correctable, TaskOf, IInv, TaskMirrorsDispatch
    <3> QED BY <3>1, <3>2 DEF Others
  <2> QED BY <2>1, <2>2, <1>3
<1>5. dispStatus' = Settled({d}, s) /\ capability' = Revoked({d})
  BY <1>1, <1>4
<1>6. /\ taskStatus' \in [Task -> TaskStatuses \cup {"absent"}]
      /\ taskStatus'[dispTask[d]] = s /\ OnlyPromotes(dispTask[d])
  BY <1>1, <1>2, <1>4, WithTaskFacts DEF IInv, TaskStatuses
<1>7. TypeOK'
  BY <1>1, <1>2, <1>5, <1>6, RevokedFacts, SettledFacts
  DEF IInv, TypeOK, rowVars, gateVars, SettledStates
<1>8. OthersUnchanged(d)
  BY <1>1, <1>4, <1>5 DEF OthersUnchanged, Settled, Revoked, IInv, TypeOK
<1>9. dispStatus'[d] = s /\ capability'[d] # "valid" /\ ~Active(d)'
  BY <1>2, <1>5 DEF Settled, Revoked, Active, ActiveStatuses
<1>10. worker'[d] \in {"none", "succeeded", "failed"}
  BY <1>1 DEF IInv, TypeOK
<1>11. RowInv(d)'
  BY <1>1, <1>2, <1>6, <1>9, <1>10 DEF RowInv, TaskOf, LiveWorker, LiveStates, rowVars
<1>12. Completion(dispTask[d])
  BY <1>1, <1>6 DEF Completion
<1>13. MovesWorker(d)
  BY <1>10 DEF MovesWorker, LiveWorker, LiveStates
<1>14. DispatchShape(d)
  BY <1>1, <1>2, <1>4, <1>6, <1>8, <1>9, <1>11, <1>12, <1>13, <1>3
  DEF DispatchShape, rowVars, gateVars, GateInv, IInv, RowsWellFormed
<1> QED BY <1>7, <1>14 DEF StepShape

-----------------------------------------------------------------------------
(* Every step has one of the shapes.                                       *)

\* The actions on a task.
LEMMA TaskNextShape ==
  ASSUME IInv, NEW t \in Task, TaskNext(t)
  PROVE  StepShape
BY CreateTaskShape, TaskUpdateShape, CreateDispatchContextShape, StartWorkerShape DEF TaskNext

\* The actions on a dispatch.
LEMMA DispatchNextShape ==
  ASSUME IInv, NEW d \in DispatchId, DispatchNext(d)
  PROVE  StepShape
<1>1. CASE SettleWorkerStop(d) \/ ReconcileFederatedWorkerStop(d)
  BY <1>1, StoppedShape DEF SettleWorkerStop, ReconcileFederatedWorkerStop
<1>2. CASE PromptFailure(d) \/ Escalation(d) \/ ReleaseContextOnlyDispatch(d)
  BY <1>2, PromptFailureShape, EscalationShape, ReleaseContextOnlyDispatchShape
<1>3. CASE \/ \E pl \in Placements : RetryWorker(d, pl)
           \/ \E tm \in Terminal : PrepareStartingWorkerAuthority(d, tm)
           \/ MarkWorkerDispatchReady(d)
           \/ \E stall \in BOOLEAN : FailWorkerStart(d, stall)
           \/ MarkWorkerStartUnknown(d)
  BY <1>3, RetryWorkerShape, PrepareStartingWorkerAuthorityShape, MarkWorkerDispatchReadyShape,
     FailWorkerStartShape, MarkWorkerStartUnknownShape
<1>4. CASE \/ ReconcileFederatedWorkerReady(d)
           \/ ReconcileFederatedWorkerStartUnknown(d)
           \/ \E s \in {"failed", "stopped"}, stall \in BOOLEAN :
                ReconcileFederatedWorkerGone(d, s, stall)
           \/ ResumeFederatedWorkerForTerminalRelay(d)
  BY <1>4, ReconcileFederatedWorkerReadyShape, ReconcileFederatedWorkerStartUnknownShape,
     ReconcileFederatedWorkerGoneShape, ResumeFederatedWorkerForTerminalRelayShape
<1>5. CASE \/ BeginWorkerStop(d) \/ MarkWorkerStopUnknown(d)
           \/ AbandonWorkerDispatch(d) \/ ReconcileMissingWorkerTerminal(d)
           \/ \E succeeded \in BOOLEAN : SettleWorkerReport(d, succeeded)
  BY <1>5, BeginWorkerStopShape, MarkWorkerStopUnknownShape, AbandonWorkerDispatchShape,
     ReconcileMissingWorkerTerminalShape, SettleWorkerReportShape
<1> QED BY <1>1, <1>2, <1>3, <1>4, <1>5 DEF DispatchNext

\* Every step has one of the shapes.
LEMMA NextShape ==
  ASSUME IInv, [Next]_vars
  PROVE  StepShape
<1>1. CASE \E t \in Task : TaskNext(t)
  BY <1>1, TaskNextShape
<1>2. CASE \E d \in DispatchId : DispatchNext(d)
  BY <1>2, DispatchNextShape
<1>3. CASE \E tm \in Terminal : TerminalExit(tm)
  BY <1>3, TerminalExitShape
<1>4. CASE \E g \in Gate : GateNext(g)
  BY <1>4, CreateGateShape, ResolveGateShape, ReblockShape DEF GateNext
<1>5. CASE Restart
  BY <1>5 DEF Restart, rowVars, gateVars, IInv, TypeOK, StepShape, QuietShape
<1>6. CASE UNCHANGED vars
  BY <1>6 DEF vars, gateVars, IInv, TypeOK, StepShape, QuietShape
<1> QED BY <1>1, <1>2, <1>3, <1>4, <1>5, <1>6 DEF Next

-----------------------------------------------------------------------------
(* A step of each shape preserves the invariant.                           *)

\* Steps on the rows of one dispatch and its task, with no other dispatch of the task active.
LEMMA DispatchStep ==
  ASSUME IInv, TypeOK', NEW d \in DispatchId, DispatchShape(d)
  PROVE  IInv'
<1> USE DEF DispatchShape
<1> DEFINE t == dispTask[d]
<1>1. t \in Task
  BY DEF IInv, RowsWellFormed
<1>2. \A e \in DispatchId : Active(e)' => Active(e)
  BY DEF OthersUnchanged, Active
<1>3. \A e \in DispatchId \ {d} : /\ Active(e)' <=> Active(e)
                                  /\ LiveWorker(e)' <=> LiveWorker(e)
  BY DEF OthersUnchanged, Active, LiveWorker
<1>4. \A e \in DispatchId \ {d} : dispTask[e] = t => ~Active(e)
  BY DEF Others, ActiveOf
<1>5. \A u \in Task \ {t} : ActiveOf(u)' = ActiveOf(u)
  BY <1>3 DEF ActiveOf
<1>6. RowsWellFormed'
  <2>1. ASSUME NEW e \in DispatchId, e # d
        PROVE  /\ e <= rows' => /\ dispTask'[e] \in Task /\ TaskOf(e)' # "absent"
                                /\ dispStatus'[e] # "none"
               /\ e > rows' => /\ dispTask'[e] = None /\ dispStatus'[e] = "none"
                               /\ worker'[e] = "none" /\ capability'[e] = "none" /\ ~stalled'[e]
               /\ worker'[e] = "starting" => dispStatus'[e] = "pending"
               /\ stalled'[e] => ~Active(e)'
    <3>1. e <= rows => TaskOf(e)' # "absent"
      <4>1. CASE dispTask[e] = t
        BY <4>1, <1>1 DEF RowInv, TaskOf
      <4>2. CASE dispTask[e] # t
        BY <4>2 DEF OnlyPromotes, TaskOf, IInv, RowsWellFormed
      <4> QED BY <4>1, <4>2
    <3> QED BY <2>1, <3>1, <1>3 DEF OthersUnchanged, IInv, RowsWellFormed
  <2>2. RowsWellFormed /\ d <= rows'
    BY DEF IInv
  <2>3. rows' \in Nat /\ d \in Nat
    BY DEF TypeOK, DispatchId
  <2>4. /\ dispTask'[d] \in Task /\ TaskOf(d)' # "absent" /\ dispStatus'[d] # "none"
        /\ worker'[d] = "starting" => dispStatus'[d] = "pending"
        /\ stalled'[d] => ~Active(d)'
    BY <1>1 DEF RowInv
  <2>5. ~(d > rows')
    BY <2>2, <2>3
  <2> QED BY <2>1, <2>2, <2>4, <2>5 DEF RowsWellFormed, GateInv
<1>7. ActiveDispatchIsNewest'
  BY <1>2 DEF ActiveDispatchIsNewest, Latest, IInv
<1>8. TaskMirrorsDispatch'
  <2>1. ASSUME NEW u \in Task, u # t
        PROVE  /\ taskStatus'[u] = "dispatched" => ActiveOf(u)' # {}
               /\ ActiveOf(u)' # {} => taskStatus'[u] \in {"dispatched", "blocked"}
    BY <2>1, <1>5 DEF IInv, TaskMirrorsDispatch, OnlyPromotes
  <2>2. taskStatus'[t] = "dispatched" => ActiveOf(t)' # {}
    BY DEF RowInv, TaskOf, ActiveOf
  <2>3. ActiveOf(t)' # {} => taskStatus'[t] \in {"dispatched", "blocked"}
    BY <1>3, <1>4 DEF RowInv, TaskOf, ActiveOf
  <2> QED BY <2>1, <2>2, <2>3 DEF TaskMirrorsDispatch
<1>9. BlockedMeansUncertain'
  <2>1. ASSUME NEW e \in DispatchId, e # d, Active(e)'
        PROVE  TaskOf(e)' = "blocked" <=> worker'[e] \in Uncertain
    <3>1. Active(e) /\ dispTask[e] # t
      BY <2>1, <1>3, <1>4
    <3>2. dispTask[e] \in Task /\ TaskOf(e) \in {"dispatched", "blocked"}
      BY <3>1, ActiveIsAlone
    <3>3. TaskOf(e)' = TaskOf(e)
      BY <3>1, <3>2 DEF OnlyPromotes, TaskOf
    <3> QED BY <2>1, <3>1, <3>3 DEF OthersUnchanged, IInv, BlockedMeansUncertain
  <2>2. Active(d)' => (TaskOf(d)' = "blocked" <=> worker'[d] \in Uncertain)
    BY DEF RowInv
  <2> QED BY <2>1, <2>2 DEF BlockedMeansUncertain, Uncertain
<1>10. SupervisionMatchesDispatch'
  BY <1>3 DEF SupervisionMatchesDispatch, OthersUnchanged, IInv, RowInv
<1>11. OneActiveDispatchPerTerminal'
  <2>1. CASE assignee' = assignee
    BY <2>1, <1>2 DEF OneActiveDispatchPerTerminal, IInv
  <2>2. CASE OwnTerminal(d)'
    BY <2>2, <1>3 DEF OneActiveDispatchPerTerminal, OthersUnchanged, IInv, OwnTerminal
  <2> QED BY <2>1, <2>2
<1>12. CapabilityEndsWithDispatch'
  BY <1>3 DEF CapabilityEndsWithDispatch, OthersUnchanged, IInv, RowInv
<1> QED BY <1>6, <1>7, <1>8, <1>9, <1>10, <1>11, <1>12 DEF IInv

\* Steps on a task that no dispatch holds.
LEMMA TaskStep ==
  ASSUME IInv, TypeOK', NEW t \in Task, TaskShape(t)
  PROVE  IInv'
<1> USE DEF TaskShape
<1>1. \A e \in DispatchId : Active(e)' <=> Active(e)
  BY DEF Active
<1>2. \A u \in Task : ActiveOf(u)' = ActiveOf(u)
  BY DEF ActiveOf, Active
<1>3. RowsWellFormed'
  <2>1. ASSUME NEW e \in DispatchId, e <= rows
        PROVE  dispTask[e] \in Task /\ taskStatus'[dispTask[e]] # "absent"
    BY <2>1 DEF IInv, RowsWellFormed, TaskOf, OnlyPromotes
  <2> QED BY <2>1, <1>1 DEF IInv, RowsWellFormed, TaskOf, GateInv
<1>4. ActiveDispatchIsNewest'
  BY <1>1 DEF IInv, ActiveDispatchIsNewest, Latest
<1>5. TaskMirrorsDispatch'
  BY <1>2 DEF IInv, TaskMirrorsDispatch, OnlyPromotes
<1>6. BlockedMeansUncertain'
  <2>1. ASSUME NEW e \in DispatchId, Active(e)
        PROVE  TaskOf(e)' = TaskOf(e)
    <3>1. /\ dispTask[e] \in Task /\ TaskOf(e) \in {"dispatched", "blocked"}
          /\ ActiveOf(dispTask[e]) = {e}
      BY <2>1, ActiveIsAlone
    <3>2. dispTask[e] # t
      BY <3>1
    <3> QED BY <3>1, <3>2 DEF OnlyPromotes, TaskOf
  <2> QED BY <2>1, <1>1 DEF IInv, BlockedMeansUncertain
<1>7. SupervisionMatchesDispatch'
  BY <1>1 DEF IInv, SupervisionMatchesDispatch, LiveWorker
<1>8. OneActiveDispatchPerTerminal'
  BY <1>1 DEF IInv, OneActiveDispatchPerTerminal
<1>9. CapabilityEndsWithDispatch'
  BY <1>1 DEF IInv, CapabilityEndsWithDispatch
<1> QED BY <1>3, <1>4, <1>5, <1>6, <1>7, <1>8, <1>9 DEF IInv

\* Inserting a dispatch for a task that no dispatch holds, on no terminal or on a free one.
LEMMA InsertStep ==
  ASSUME IInv, TypeOK', NEW t \in Task, InsertShape(t)
  PROVE  IInv'
<1> PICK st \in ActiveStatuses, n \in Nat, tm \in Terminal \cup {None}, cap \in {"none", "valid"},
         w \in {"none", "starting"}, pl \in {"local", "federated"} :
           /\ w = "starting" <=> st = "pending"
           /\ tm = None \/ ActiveOn(tm) = {}
           /\ InsertRow(t, st, n, tm, cap, w, pl)
  BY DEF InsertShape
<1> ActiveOf(t) = {} /\ taskStatus[t] # "absent"
  BY DEF InsertShape
<1>0. rows + 1 \in DispatchId /\ rows \in Nat /\ DispatchId \subseteq Nat
  BY MaxDispatchesAssumption DEF IInv, TypeOK, DispatchId, InsertRow
<1> PICK r \in DispatchId : r = rows + 1
  BY <1>0
<1>1. rows' = r /\ r > rows /\ r \in Nat /\ rows \in Nat /\ DispatchId \subseteq Nat
  BY <1>0 DEF InsertRow
<1>3. /\ dispTask'[r] = t /\ dispStatus'[r] = st /\ assignee'[r] = tm
      /\ capability'[r] = cap /\ worker'[r] = w /\ taskStatus'[t] = "dispatched"
  BY DEF IInv, TypeOK, InsertRow
<1>4. \A e \in DispatchId \ {r} :
        /\ dispTask'[e] = dispTask[e] /\ dispStatus'[e] = dispStatus[e]
        /\ assignee'[e] = assignee[e] /\ capability'[e] = capability[e]
        /\ worker'[e] = worker[e]
  BY DEF IInv, TypeOK, InsertRow
<1>5. \A u \in Task \ {t} : taskStatus'[u] = taskStatus[u]
  BY DEF IInv, TypeOK, InsertRow
<1>6. stalled' = stalled /\ gateStatus' = gateStatus /\ gateTask' = gateTask
  BY DEF InsertRow, gateVars
<1>7. Active(r)'
  BY <1>3 DEF Active, ActiveStatuses
<1>8. \A e \in DispatchId \ {r} : Active(e)' <=> Active(e)
  BY <1>4 DEF Active
<1>9. ~stalled[r] /\ ~Active(r)
  BY <1>1 DEF IInv, RowsWellFormed, Active, ActiveStatuses
<1>10. \A e \in DispatchId : dispTask[e] = t => ~Active(e)
  BY DEF ActiveOf
<1>11. \A e \in DispatchId : e > rows => dispTask[e] = None
  BY DEF IInv, RowsWellFormed
<1>12. RowsWellFormed'
  <2>1. ASSUME NEW e \in DispatchId, e # r
        PROVE  /\ e <= r => dispTask'[e] \in Task /\ TaskOf(e)' # "absent" /\ dispStatus'[e] # "none"
               /\ e > r => /\ dispTask'[e] = None /\ dispStatus'[e] = "none"
                           /\ worker'[e] = "none" /\ capability'[e] = "none" /\ ~stalled'[e]
               /\ worker'[e] = "starting" => dispStatus'[e] = "pending"
               /\ stalled'[e] => ~Active(e)'
    <3>1. (e <= r => e <= rows) /\ (e > r => e > rows)
      BY <2>1, <1>1
    <3>2. dispTask[e] \in Task => taskStatus'[dispTask[e]] \in {taskStatus[dispTask[e]], "dispatched"}
      BY <1>3, <1>5
    <3> QED BY <2>1, <3>1, <3>2, <1>4, <1>6, <1>8 DEF IInv, RowsWellFormed, TaskOf
  <2>2. /\ dispTask'[r] \in Task /\ TaskOf(r)' # "absent" /\ dispStatus'[r] # "none"
        /\ worker'[r] = "starting" => dispStatus'[r] = "pending"
        /\ ~stalled'[r] /\ ~(r > r)
    BY <1>1, <1>3, <1>6, <1>9 DEF TaskOf, ActiveStatuses
  <2>3. GateInv'
    BY <1>6 DEF IInv, RowsWellFormed, GateInv
  <2> QED BY <2>1, <2>2, <2>3, <1>1 DEF RowsWellFormed, GateInv
<1>13. ActiveDispatchIsNewest'
  <2>1. \A e \in DispatchId : dispTask'[e] = t => e <= r
    BY <1>1, <1>4, <1>11, NoneAssumption
  <2>2. Latest(r)'
    BY <2>1, <1>3 DEF Latest
  <2>3. ASSUME NEW e \in DispatchId \ {r}, Active(e)'
        PROVE  Latest(e)'
    <3>1. Latest(e) /\ dispTask[e] # t
      BY <2>3, <1>8, <1>10 DEF IInv, ActiveDispatchIsNewest
    <3> QED BY <3>1, <1>3, <1>4 DEF Latest
  <2> QED BY <2>2, <2>3 DEF ActiveDispatchIsNewest
<1>14. TaskMirrorsDispatch'
  <2>1. ASSUME NEW u \in Task, u # t
        PROVE  ActiveOf(u)' = ActiveOf(u)
    BY <2>1, <1>3, <1>4, <1>8, <1>9 DEF ActiveOf
  <2>2. ActiveOf(t)' # {}
    BY <1>1, <1>3, <1>7 DEF ActiveOf
  <2> QED BY <2>1, <2>2, <1>3, <1>5 DEF IInv, TaskMirrorsDispatch
<1>15. BlockedMeansUncertain'
  <2>1. ASSUME NEW e \in DispatchId \ {r}, Active(e)'
        PROVE  TaskOf(e)' = TaskOf(e)
    <3>1. Active(e) /\ dispTask[e] # t
      BY <2>1, <1>8, <1>10
    <3>2. dispTask[e] \in Task
      BY <3>1, ActiveIsAlone
    <3> QED BY <3>1, <3>2, <1>4, <1>5 DEF TaskOf
  <2>2. TaskOf(r)' # "blocked" /\ worker'[r] \notin Uncertain
    BY <1>3 DEF TaskOf, Uncertain
  <2> QED BY <2>1, <2>2, <1>4, <1>8 DEF IInv, BlockedMeansUncertain
<1>16. SupervisionMatchesDispatch'
  BY <1>3, <1>4, <1>7, <1>8 DEF IInv, SupervisionMatchesDispatch, LiveWorker, LiveStates
<1>17. OneActiveDispatchPerTerminal'
  BY <1>3, <1>4, <1>8 DEF IInv, OneActiveDispatchPerTerminal, ActiveOn
<1>18. CapabilityEndsWithDispatch'
  BY <1>3, <1>4, <1>6, <1>7, <1>8 DEF IInv, CapabilityEndsWithDispatch
<1> QED BY <1>12, <1>13, <1>14, <1>15, <1>16, <1>17, <1>18 DEF IInv

-----------------------------------------------------------------------------
(* The inductive invariant.                                                *)

\* No row exists at first.
LEMMA InitInv == Init => IInv
<1> SUFFICES ASSUME Init PROVE IInv
  OBVIOUS
<1>1. TypeOK
  BY MaxDispatchesAssumption DEF Init, TypeOK, DispatchId
<1>2. \A d \in DispatchId : ~Active(d) /\ d > rows
  BY MaxDispatchesAssumption DEF Init, Active, ActiveStatuses, DispatchId
<1>3. RowsWellFormed
  BY <1>2 DEF Init, RowsWellFormed, DispatchId
<1>4. TaskMirrorsDispatch
  BY <1>2 DEF Init, TaskMirrorsDispatch, ActiveOf
<1>5. /\ ActiveDispatchIsNewest /\ BlockedMeansUncertain /\ SupervisionMatchesDispatch
      /\ OneActiveDispatchPerTerminal /\ CapabilityEndsWithDispatch
  BY <1>2 DEF Init, ActiveDispatchIsNewest, BlockedMeansUncertain, SupervisionMatchesDispatch,
              OneActiveDispatchPerTerminal, CapabilityEndsWithDispatch
<1> QED BY <1>1, <1>3, <1>4, <1>5 DEF IInv

\* A step in which only epochs change.
LEMMA QuietStep ==
  ASSUME IInv, TypeOK', QuietShape
  PROVE  IInv'
BY DEF QuietShape, gateVars, IInv, RowsWellFormed, ActiveDispatchIsNewest, TaskMirrorsDispatch,
       BlockedMeansUncertain, SupervisionMatchesDispatch, OneActiveDispatchPerTerminal,
       CapabilityEndsWithDispatch, Active, LiveWorker, ActiveOf, TaskOf, Latest

\* Every step preserves the inductive invariant.
LEMMA NextInv == IInv /\ [Next]_vars => IInv'
<1> SUFFICES ASSUME IInv, [Next]_vars PROVE IInv'
  OBVIOUS
<1>1. StepShape
  BY NextShape
<1> QED BY <1>1, DispatchStep, TaskStep, InsertStep, QuietStep DEF StepShape

\* The tables stay well formed and in step with each other.
THEOREM Invariance == Spec => []IInv
BY InitInv, NextInv, PTL DEF Spec

\* Every row keeps its type.
THEOREM TypeCorrect == Spec => []TypeOK
<1>1. IInv => TypeOK
  BY DEF IInv
<1> QED BY <1>1, Invariance, PTL

\* Only the newest dispatch of a task is ever active: a task never has two, whatever retries,
\* stops, exits and late reports do.
THEOREM OneAttemptAtATime == Spec => []ActiveDispatchIsNewest
<1>1. IInv => ActiveDispatchIsNewest
  BY DEF IInv
<1> QED BY <1>1, Invariance, PTL

\* A dispatched task has an active dispatch, and an active dispatch a dispatched or blocked task.
THEOREM TablesAgree == Spec => []TaskMirrorsDispatch
<1>1. IInv => TaskMirrorsDispatch
  BY DEF IInv
<1> QED BY <1>1, Invariance, PTL

\* Under an active dispatch a task is blocked exactly when nobody knows whether the worker runs.
THEOREM BlockedIsUncertain == Spec => []BlockedMeansUncertain
<1>1. IInv => BlockedMeansUncertain
  BY DEF IInv
<1> QED BY <1>1, Invariance, PTL

\* A supervised dispatch and its worker settle together.
THEOREM WorkersMatchDispatches == Spec => []SupervisionMatchesDispatch
<1>1. IInv => SupervisionMatchesDispatch
  BY DEF IInv
<1> QED BY <1>1, Invariance, PTL

\* No terminal works for two active dispatches.
THEOREM TerminalsAreExclusive == Spec => []OneActiveDispatchPerTerminal
<1>1. IInv => OneActiveDispatchPerTerminal
  BY DEF IInv
<1> QED BY <1>1, Invariance, PTL

\* A valid capability belongs to an active dispatch or to a start that stalled.
THEOREM CapabilitiesEnd == Spec => []CapabilityEndsWithDispatch
<1>1. IInv => CapabilityEndsWithDispatch
  BY DEF IInv
<1> QED BY <1>1, Invariance, PTL
=============================================================================
