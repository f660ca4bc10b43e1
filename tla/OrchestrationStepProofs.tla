---------------------- MODULE OrchestrationStepProofs ----------------------
(***************************************************************************)
(* What a step may never do, for every value of the constants: the action  *)
(* properties of OrchestrationProperties, and the refinement of            *)
(* TaskOwnership.  Each follows from the shapes of a step.                 *)
(***************************************************************************)
EXTENDS OrchestrationProofs, OrchestrationRefinement

-----------------------------------------------------------------------------
(* Consequences of the shapes.                                             *)

\* A task that is not t keeps its status, unless it is promoted and then nobody holds it.
LEMMA OtherTasks ==
  ASSUME IInv, NEW t \in Task, OnlyPromotes(t), NEW u \in Task, u # t, taskStatus'[u] # taskStatus[u]
  PROVE  taskStatus[u] = "pending" /\ taskStatus'[u] = "ready" /\ ActiveOf(u) = {}
BY DEF OnlyPromotes, IInv, TaskMirrorsDispatch

\* An inserted row is new, and its task is dispatched under it.
LEMMA InsertFacts ==
  ASSUME IInv, NEW t \in Task, InsertShape(t)
  PROVE  /\ rows' = rows + 1 /\ rows + 1 \in DispatchId /\ taskStatus'[t] = "dispatched"
         /\ \A u \in Task \ {t} : taskStatus'[u] = taskStatus[u]
         /\ dispTask'[rows + 1] = t /\ dispStatus'[rows + 1] \in ActiveStatuses
         /\ \A e \in DispatchId \ {rows + 1} : dispStatus'[e] = dispStatus[e] /\ dispTask'[e] = dispTask[e]
         /\ \A e \in DispatchId : dispStatus[e] # "none" => e # rows + 1
<1> PICK st \in ActiveStatuses, n \in Nat, tm \in Terminal \cup {None}, cap \in {"none", "valid"},
         w \in {"none", "starting"}, pl \in {"local", "federated"} :
           InsertRow(t, st, n, tm, cap, w, pl)
  BY DEF InsertShape
<1>1. rows + 1 \in DispatchId /\ rows + 1 > rows
  BY MaxDispatchesAssumption DEF IInv, TypeOK, DispatchId, InsertRow
<1> QED BY <1>1 DEF IInv, TypeOK, InsertRow, RowsWellFormed

\* The one dispatch a step writes belongs to an existing task, which is not completed.
LEMMA WrittenTask ==
  ASSUME IInv, NEW d \in DispatchId, DispatchShape(d)
  PROVE  dispTask[d] \in Task /\ TaskOf(d) \in {"dispatched", "blocked", "failed"}
<1>1. dispTask[d] \in Task
  BY DEF DispatchShape, IInv, RowsWellFormed
<1> QED BY <1>1, ActiveIsAlone DEF DispatchShape, Correctable

-----------------------------------------------------------------------------

\* A task with a live supervised worker changes status only with that worker.
THEOREM WorkersOwnTheirTasks == Spec => SupervisedOwnership
<1>1. ASSUME IInv, [Next]_vars, NEW t \in Task, taskStatus'[t] # taskStatus[t],
             NEW d \in ActiveOf(t), LiveWorker(d)
      PROVE  worker'[d] # worker[d]
  <2>1. d \in DispatchId /\ dispTask[d] = t
    BY DEF ActiveOf
  <2>2. ASSUME NEW e \in DispatchId, DispatchShape(e)
        PROVE  worker'[d] # worker[d]
    <3>1. dispTask[e] = t
      BY <1>1, <2>2, WrittenTask, OtherTasks DEF DispatchShape
    <3>2. d = e
      BY <2>2, <3>1, <2>1 DEF DispatchShape, Others
    <3> QED BY <1>1, <2>2, <3>1, <3>2 DEF DispatchShape, MovesWorker, TaskOf
  <2>3. ASSUME NEW u \in Task, TaskShape(u)
        PROVE  FALSE
    BY <1>1, <2>3, OtherTasks DEF TaskShape
  <2>4. ASSUME NEW u \in Task, InsertShape(u)
        PROVE  FALSE
    BY <1>1, <2>4, InsertFacts DEF InsertShape
  <2> QED BY <1>1, <2>2, <2>3, <2>4, NextShape DEF StepShape, QuietShape
<1>2. IInv /\ [Next]_vars =>
        [\A t \in Task : taskStatus'[t] # taskStatus[t] =>
           \A d \in ActiveOf(t) : LiveWorker(d) => worker'[d] # worker[d]]_vars
  BY <1>1
<1> QED BY <1>2, Invariance, PTL DEF Spec, SupervisedOwnership

\* A completed task is reopened by no event of a dispatch or a worker.
THEOREM CompletedTasksStay == Spec => CompletedTaskIsSticky
<1>1. ASSUME IInv, [Next]_vars, NEW t \in Task,
             taskStatus[t] = "completed", taskStatus'[t] # "completed"
      PROVE  UNCHANGED <<rows, dispStatus, failures, stalled, worker>>
  <2>1. ASSUME NEW e \in DispatchId, DispatchShape(e)
        PROVE  FALSE
    BY <1>1, <2>1, WrittenTask, OtherTasks DEF DispatchShape, TaskOf
  <2>2. ASSUME NEW u \in Task, InsertShape(u)
        PROVE  FALSE
    BY <1>1, <2>2, InsertFacts DEF InsertShape
  <2> QED BY <1>1, <2>1, <2>2, NextShape DEF StepShape, TaskShape, QuietShape
<1>2. IInv /\ [Next]_vars =>
        [\A t \in Task : taskStatus[t] = "completed" /\ taskStatus'[t] # "completed" =>
           UNCHANGED <<rows, dispStatus, failures, stalled, worker>>]_vars
  BY <1>1
<1> QED BY <1>2, Invariance, PTL DEF Spec, CompletedTaskIsSticky

\* The step that completes a task's last dependency promotes the task.
THEOREM ChildrenArePromoted == Spec => NoStrandedChild
<1>1. ASSUME IInv, [Next]_vars, NEW u \in Task,
             taskStatus[u] = "pending", taskStatus'[u] = "pending",
             \A v \in Deps[u] : taskStatus'[v] = "completed",
             NEW w \in Deps[u]
      PROVE  taskStatus[w] = "completed"
  <2>1. Deps[u] \subseteq Task
    BY DepsAssumption
  <2>2. ASSUME NEW t \in Task, OnlyPromotes(t), Completion(t), taskStatus[w] # "completed"
        PROVE  FALSE
    <3>1. w = t
      BY <1>1, <2>1, <2>2 DEF OnlyPromotes
    <3> DEFINE ts == [taskStatus EXCEPT ![t] = "completed"]
    <3>2. taskStatus' = Promoted(ts, t) /\ u # t
      BY <1>1, <2>2, <3>1 DEF Completion, WithTask
    <3>3. ts[u] = "pending"
      BY <1>1, <3>2 DEF IInv, TypeOK
    <3>4. \A v \in Deps[u] : ts[v] = "completed"
      BY <1>1, <2>1, <2>2 DEF OnlyPromotes, IInv, TypeOK
    <3>5. taskStatus'[u] = "ready"
      BY <1>1, <3>1, <3>2, <3>3, <3>4 DEF Promoted
    <3> QED BY <1>1, <3>5
  <2>3. ASSUME NEW e \in DispatchId, DispatchShape(e)
        PROVE  taskStatus[w] = "completed"
    BY <2>2, <2>3, <1>1, WrittenTask DEF DispatchShape
  <2>4. ASSUME NEW t \in Task, TaskShape(t)
        PROVE  taskStatus[w] = "completed"
    BY <2>2, <2>4 DEF TaskShape
  <2>5. ASSUME NEW t \in Task, InsertShape(t)
        PROVE  taskStatus[w] = "completed"
    BY <1>1, <2>1, <2>5, InsertFacts
  <2> QED BY <1>1, <2>3, <2>4, <2>5, NextShape DEF StepShape, QuietShape
<1>2. IInv /\ [Next]_vars =>
        [\A u \in Task :
           /\ taskStatus[u] = "pending" /\ taskStatus'[u] = "pending"
           /\ \A v \in Deps[u] : taskStatus'[v] = "completed"
           => \A v \in Deps[u] : taskStatus[v] = "completed"]_vars
  BY <1>1
<1> QED BY <1>2, Invariance, PTL DEF Spec, NoStrandedChild

\* A settled dispatch changes only when a report corrects a stalled start.
THEOREM SettledDispatchesStay == Spec => SettledDispatchIsFinal
<1>1. ASSUME IInv, [Next]_vars, NEW d \in DispatchId,
             dispStatus[d] \in SettledStatuses, dispStatus'[d] # dispStatus[d]
      PROVE  /\ dispStatus[d] = "failed" /\ stalled[d] /\ dispStatus'[d] = "completed"
             /\ ActiveOf(dispTask[d]) = {}
  <2>1. ~Active(d)
    BY <1>1 DEF Active, ActiveStatuses, SettledStatuses
  <2>2. ASSUME NEW e \in DispatchId, DispatchShape(e)
        PROVE  /\ dispStatus[d] = "failed" /\ stalled[d] /\ dispStatus'[d] = "completed"
               /\ ActiveOf(dispTask[d]) = {}
    <3>1. d = e
      BY <1>1, <2>2 DEF DispatchShape, OthersUnchanged
    <3>2. Correctable(d) /\ dispStatus'[d] = "completed"
      BY <1>1, <2>1, <2>2, <3>1 DEF DispatchShape, Correctable
    <3>3. ActiveOf(dispTask[d]) = {}
      BY <2>1, <2>2, <3>1 DEF DispatchShape, Others, ActiveOf
    <3> QED BY <3>2, <3>3 DEF Correctable
  <2>3. ASSUME NEW t \in Task, InsertShape(t)
        PROVE  FALSE
    BY <1>1, <2>3, InsertFacts DEF SettledStatuses
  <2> QED BY <1>1, <2>2, <2>3, NextShape DEF StepShape, TaskShape, QuietShape
<1>2. IInv /\ [Next]_vars =>
        [\A d \in DispatchId :
           dispStatus[d] \in SettledStatuses /\ dispStatus'[d] # dispStatus[d] =>
             /\ dispStatus[d] = "failed" /\ stalled[d] /\ dispStatus'[d] = "completed"
             /\ ActiveOf(dispTask[d]) = {}]_vars
  BY <1>1
<1> QED BY <1>2, Invariance, PTL DEF Spec, SettledDispatchIsFinal

-----------------------------------------------------------------------------
(* Refinement of TaskOwnership.                                            *)

holders == [t \in Task |-> ActiveOf(t)]
completed == {t \in Task : taskStatus[t] = "completed"}

\* A step that may write t and only promotes other tasks records at most t as completed or not.
LEMMA FinishedFacts ==
  ASSUME NEW t \in Task, OnlyPromotes(t)
  PROVE  /\ completed' = IF taskStatus'[t] = "completed"
                         THEN completed \cup {t} ELSE completed \ {t}
         /\ taskStatus'[t] = "completed" <=> taskStatus[t] = "completed" => UNCHANGED completed
<1>1. \A u \in Task \ {t} : taskStatus'[u] = "completed" <=> taskStatus[u] = "completed"
  BY DEF OnlyPromotes
<1> QED BY <1>1 DEF completed

\* What a step on the rows of one dispatch does to the leases of its task, and to no other task's.
LEMMA HolderFacts ==
  ASSUME IInv, NEW d \in DispatchId, DispatchShape(d)
  PROVE  /\ dispTask[d] \in Task
         /\ ActiveOf(dispTask[d]) = IF Active(d) THEN {d} ELSE {}
         /\ ActiveOf(dispTask[d])' = IF Active(d)' THEN {d} ELSE {}
         /\ \A u \in Task \ {dispTask[d]} : ActiveOf(u)' = ActiveOf(u)
<1>1. \A e \in DispatchId \ {d} : Active(e)' <=> Active(e)
  BY DEF DispatchShape, OthersUnchanged, Active
<1>2. UNCHANGED dispTask
  BY DEF DispatchShape
<1>3. ActiveOf(dispTask[d]) \ {d} = {}
  BY DEF DispatchShape, Others
<1>4. DispatchId' = DispatchId
  BY DEF DispatchId
<1> QED BY <1>1, <1>2, <1>3, <1>4, WrittenTask DEF ActiveOf

\* Such a step ends the lease, records the outcome of a free task, or is invisible.
LEMMA DispatchRefines ==
  ASSUME IInv, NEW d \in DispatchId, DispatchShape(d)
  PROVE  [Ownership!Next]_Ownership!vars
<1> PICK t \in Task : t = dispTask[d]
  BY HolderFacts
<1>1. OnlyPromotes(t) /\ UNCHANGED rows
  BY DEF DispatchShape
<1>2. completed' \in {completed \cup {t}, completed \ {t}}
      /\ (taskStatus'[t] = "completed" <=> taskStatus[t] = "completed" => UNCHANGED completed)
  BY <1>1, FinishedFacts
<1>3. /\ ActiveOf(t) = IF Active(d) THEN {d} ELSE {}
      /\ ActiveOf(t)' = IF Active(d)' THEN {d} ELSE {}
      /\ \A u \in Task \ {t} : ActiveOf(u)' = ActiveOf(u)
  <2>1. (t = dispTask[d])'
    BY DEF DispatchShape
  <2> QED BY <2>1, HolderFacts
<1>4. holders[t] = ActiveOf(t) /\ holders' = [holders EXCEPT ![t] = ActiveOf(t)']
  BY <1>3 DEF holders
<1>5. CASE Active(d) /\ Active(d)'
  <2>1. UNCHANGED holders
    BY <1>3, <1>4, <1>5 DEF holders
  <2>2. taskStatus[t] # "completed" /\ taskStatus'[t] # "completed"
    BY <1>5, ActiveIsAlone DEF DispatchShape, RowInv, TaskOf
  <2> QED BY <1>1, <1>2, <2>1, <2>2 DEF Ownership!vars, holders, completed
<1>6. CASE Active(d) /\ ~Active(d)'
  <2>1. holders[t] # {} /\ holders' = [holders EXCEPT ![t] = {}]
    BY <1>3, <1>4, <1>6
  <2>2. completed' \in {completed, completed \cup {t}}
    BY <1>2, <1>6, ActiveIsAlone DEF completed, TaskOf
  <2>3. Ownership!Release(t)
    BY <1>1, <2>1, <2>2 DEF Ownership!Release, holders, completed
  <2> QED BY <2>3 DEF Ownership!Next
<1>7. CASE ~Active(d)
  <2>1. ~Active(d)'
    BY <1>7 DEF DispatchShape
  <2>2. holders[t] = {} /\ UNCHANGED holders
    BY <1>3, <1>4, <1>7, <2>1 DEF holders
  <2>3. Ownership!Record(t)
    BY <1>1, <1>2, <2>2 DEF Ownership!Record, holders, completed
  <2> QED BY <2>3 DEF Ownership!Next
<1> QED BY <1>5, <1>6, <1>7

\* A step on a task that nobody holds records it.
LEMMA TaskRefines ==
  ASSUME NEW t \in Task, TaskShape(t)
  PROVE  [Ownership!Next]_Ownership!vars
<1>1. holders[t] = {} /\ UNCHANGED <<rows, holders>>
  BY DEF TaskShape, holders, ActiveOf, Active
<1>2. completed' \in {completed \cup {t}, completed \ {t}}
  BY FinishedFacts DEF TaskShape
<1>3. Ownership!Record(t)
  BY <1>1, <1>2 DEF Ownership!Record, holders, completed
<1> QED BY <1>3 DEF Ownership!Next

\* An inserted row is a lease with a new number on a task nobody holds.
LEMMA InsertRefines ==
  ASSUME IInv, NEW t \in Task, InsertShape(t)
  PROVE  [Ownership!Next]_Ownership!vars
<1>1. /\ rows' = rows + 1 /\ rows < MaxDispatches
      /\ taskStatus[t] # "completed" /\ ActiveOf(t) = {}
  BY DEF InsertShape, InsertRow
<1>2. UNCHANGED completed
  BY <1>1, InsertFacts DEF completed
<1>3. ActiveOf(t)' = {rows + 1}
  BY <1>1, InsertFacts DEF ActiveOf, Active, DispatchId
<1>4. dispStatus[rows + 1] = "none"
  BY <1>1, InsertFacts DEF IInv, RowsWellFormed, TypeOK
<1>5. ASSUME NEW u \in Task \ {t}
      PROVE  ActiveOf(u)' = ActiveOf(u)
  BY <1>4, InsertFacts DEF ActiveOf, Active, ActiveStatuses, DispatchId
<1>6. holders[t] = {} /\ holders' = [holders EXCEPT ![t] = {rows + 1}]
  BY <1>1, <1>3, <1>5 DEF holders
<1>7. Ownership!Acquire(t)
  BY <1>1, <1>2, <1>6 DEF Ownership!Acquire, holders, completed
<1> QED BY <1>7 DEF Ownership!Next

\* The handlers, callbacks and relay steps implement TaskOwnership: every step grants one lease,
\* ends one, records one free task, or is invisible.
THEOREM ImplementsOwnership == Spec => OwnershipSpec
<1>1. Init => Ownership!Init
  BY DEF Init, Ownership!Init, ActiveOf, Active, ActiveStatuses
<1>2. IInv /\ [Next]_vars => [Ownership!Next]_Ownership!vars
  <2> SUFFICES ASSUME IInv, [Next]_vars PROVE [Ownership!Next]_Ownership!vars
    OBVIOUS
  <2>1. CASE QuietShape
    BY <2>1 DEF QuietShape, Ownership!vars, ActiveOf, Active
  <2> QED BY <2>1, NextShape, DispatchRefines, TaskRefines, InsertRefines DEF StepShape
<1> QED BY <1>1, <1>2, Invariance, PTL DEF Spec, OwnershipSpec, Ownership!Spec
=============================================================================
