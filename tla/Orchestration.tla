--------------------------- MODULE Orchestration ---------------------------
(***************************************************************************)
(* The task / dispatch / worker lifecycle of Orca's orchestration database *)
(* (src/main/runtime/orchestration).                                       *)
(*                                                                         *)
(* A task is worked on through dispatches.  A dispatch is a row of         *)
(* dispatch_contexts; a supervised dispatch also has a row of              *)
(* worker_dispatches, which records the life of the agent process.  The    *)
(* RPC handlers, the coordinator loop, the terminal-exit callback and the  *)
(* federation relay all write these rows.  Every write is one SQLite       *)
(* transaction, so it is one action here; what interleaves is the order in *)
(* which the transactions run.  A transaction that throws is rolled back:  *)
(* the action is then disabled.                                            *)
(*                                                                         *)
(* Left out: text (specs, results, reasons), timestamps, nesting depth,    *)
(* runs, and the mailbox.  Of last_failure the model keeps whether it is   *)
(* the "agent_prompt_stalled" text the code branches on; of runtime_epoch, *)
(* whether it is the epoch of the runtime that is now alive.               *)
(***************************************************************************)
EXTENDS Naturals, FiniteSets

CONSTANTS
  Task,           \* identifiers of tasks
  Terminal,       \* agent terminals (a handle together with its pane)
  Gate,           \* identifiers of decision gates
  Deps,           \* [Task -> SUBSET Task], tasks.deps of the task if created
  MaxDispatches,  \* bound: dispatch rows ever inserted
  Placements,     \* where worker-start may put a worker: "local", "federated"
  None

ASSUME DepsAssumption == Deps \in [Task -> SUBSET Task]
ASSUME MaxDispatchesAssumption == MaxDispatches \in Nat
ASSUME PlacementsAssumption == Placements \subseteq {"local", "federated"}
ASSUME NoneAssumption == None \notin Task \cup Terminal

VARIABLES
  taskStatus,   \* tasks.status, "absent" before the row exists
  rows,         \* number of dispatch_contexts rows; rowids are 1..rows
  dispTask,     \* dispatch_contexts.task_id
  dispStatus,   \* dispatch_contexts.status, "none" before the row exists
  failures,     \* dispatch_contexts.failure_count
  stalled,      \* last_failure = agent_prompt_stalled
  capability,   \* capability_hash / capability_revoked_at
  assignee,     \* dispatch_contexts.assignee_handle (with its pane)
  worker,       \* worker_dispatches.state, "none" when there is no row
  placement,    \* "federated" iff a federated_dispatches row exists
  ownEpoch,     \* worker_dispatches.runtime_epoch is this runtime's
  gateStatus,   \* decision_gates.status, "none" before the row exists
  gateTask      \* decision_gates.task_id

vars == <<taskStatus, rows, dispTask, dispStatus, failures, stalled, capability,
          assignee, worker, placement, ownEpoch, gateStatus, gateTask>>

rowVars == <<rows, dispTask, placement>>
gateVars == <<gateStatus, gateTask>>

DispatchId == 1..MaxDispatches

TaskStatuses == {"pending", "ready", "dispatched", "completed", "failed", "blocked"}
SettledTask == {"completed", "failed"}
ActiveStatuses == {"pending", "dispatched"}
SettledStatuses == {"completed", "failed", "circuit_broken"}
LiveStates == {"starting", "start_unknown", "ready", "stopping", "stop_unknown"}
SettledStates == {"succeeded", "failed", "stopped", "abandoned"}

DISPATCH_CIRCUIT_BREAK_FAILURES == 3

TypeOK ==
  /\ taskStatus \in [Task -> TaskStatuses \cup {"absent"}]
  /\ rows \in 0..MaxDispatches
  /\ dispTask \in [DispatchId -> Task \cup {None}]
  /\ dispStatus \in [DispatchId -> ActiveStatuses \cup SettledStatuses \cup {"none"}]
  /\ failures \in [DispatchId -> Nat]
  /\ stalled \in [DispatchId -> BOOLEAN]
  /\ capability \in [DispatchId -> {"none", "valid", "revoked"}]
  /\ assignee \in [DispatchId -> Terminal \cup {None}]
  /\ worker \in [DispatchId -> LiveStates \cup SettledStates \cup {"none"}]
  /\ placement \in [DispatchId -> {"local", "federated"}]
  /\ ownEpoch \in [DispatchId -> BOOLEAN]
  /\ gateStatus \in [Gate -> {"none", "pending", "resolved"}]
  /\ gateTask \in [Gate -> Task \cup {None}]

Init ==
  /\ taskStatus = [t \in Task |-> "absent"]
  /\ rows = 0
  /\ dispTask = [d \in DispatchId |-> None]
  /\ dispStatus = [d \in DispatchId |-> "none"]
  /\ failures = [d \in DispatchId |-> 0]
  /\ stalled = [d \in DispatchId |-> FALSE]
  /\ capability = [d \in DispatchId |-> "none"]
  /\ assignee = [d \in DispatchId |-> None]
  /\ worker = [d \in DispatchId |-> "none"]
  /\ placement = [d \in DispatchId |-> "local"]
  /\ ownEpoch = [d \in DispatchId |-> FALSE]
  /\ gateStatus = [g \in Gate |-> "none"]
  /\ gateTask = [g \in Gate |-> None]

-----------------------------------------------------------------------------
(* Queries the handlers share.                                             *)

Active(d) == dispStatus[d] \in ActiveStatuses
LiveWorker(d) == worker[d] \in LiveStates
ActiveOf(t) == {d \in DispatchId : dispTask[d] = t /\ Active(d)}
Others(d) == ActiveOf(dispTask[d]) \ {d}
TaskOf(d) == taskStatus[dispTask[d]]

\* getDispatchContext: the newest row of the dispatch's task
Latest(d) == \A e \in DispatchId : dispTask[e] = dispTask[d] => e <= d

\* findActiveDispatchForAssignee / getActiveDispatchForTerminal
ActiveOn(tm) == {d \in DispatchId : assignee[d] = tm /\ Active(d)}

\* Mutant: settling forgets to revoke
NotRevoked(D) == capability

\* capability_revoked_at = capability_revoked_at ?? now; a row without a hash stays without
Revoked(D) ==
  [d \in DispatchId |->
     IF d \in D /\ capability[d] = "valid" THEN "revoked" ELSE capability[d]]

\* Mutant: settling without the status filter rewrites the task's finished dispatches
SettledEveryRow(D, s) ==
  [d \in DispatchId |-> IF dispTask[d] \in {dispTask[e] : e \in D} THEN s ELSE dispStatus[d]]

Settled(D, s) == [d \in DispatchId |-> IF d \in D THEN s ELSE dispStatus[d]]

\* promoteReadyTasks(t) on the statuses ts
Promoted(ts, t) ==
  [u \in Task |->
     IF /\ ts[u] = "pending"
        /\ t \in Deps[u]
        /\ \A v \in Deps[u] : ts[v] = "completed"
     THEN "ready" ELSE ts[u]]

\* Mutant: completing a task forgets its dependants
WithTaskUnpromoted(t, s) == [taskStatus EXCEPT ![t] = s]

\* A task set to s; completion promotes its dependants in the same transaction
WithTask(t, s) ==
  LET ts == [taskStatus EXCEPT ![t] = s]
  IN  IF s = "completed" THEN Promoted(ts, t) ELSE ts

\* Mutant: an interruption leaves the task as it was
NotReconciled(d) == TaskOf(d)

\* reconcileTaskAfterDispatchInterruption
Reconciled(d) ==
  IF TaskOf(d) \in {"dispatched", "blocked"}
  THEN IF Others(d) # {} THEN "dispatched" ELSE "blocked"
  ELSE TaskOf(d)

\* Mutant: the breaker trips one failure early
FailedStatusEarly(n) ==
  IF n + 1 >= DISPATCH_CIRCUIT_BREAK_FAILURES THEN "circuit_broken" ELSE "failed"

\* The status a failure numbered n gives a dispatch
FailedStatus(n) ==
  IF n >= DISPATCH_CIRCUIT_BREAK_FAILURES THEN "circuit_broken" ELSE "failed"

\* Mutant: the dispatch's status is written to the task
DispatchStatusOfTask(s) == s

\* Where a task goes when its dispatch fails with status s
RetryOrFail(s) == IF s = "circuit_broken" THEN "failed" ELSE "ready"

-----------------------------------------------------------------------------
(* Tasks.                                                                  *)

CreateTask(t) ==
  /\ taskStatus[t] = "absent"
  /\ \A v \in Deps[t] : taskStatus[v] # "absent"
  /\ taskStatus' = [taskStatus EXCEPT ![t] =
                      IF \A v \in Deps[t] : taskStatus[v] = "completed"
                      THEN "ready" ELSE "pending"]
  /\ UNCHANGED <<rowVars, dispStatus, failures, stalled, capability, assignee,
                 worker, ownEpoch, gateVars>>

\* Mutant: no check for a live supervised worker
MayUpdateTaskUnderWorker(t, s) ==
  /\ taskStatus[t] # "absent"
  /\ s = "dispatched" => ActiveOf(t) # {}
  /\ s \notin SettledTask \cup {"dispatched"} => ActiveOf(t) = {}

\* Mutant: no check for an active dispatch
MayUpdateTaskUnderDispatch(t, s) ==
  /\ taskStatus[t] # "absent"
  /\ \A d \in ActiveOf(t) : ~LiveWorker(d)

\* What updateTaskStatus refuses: a supervised worker owns its task while it lives, an active
\* dispatch bars every status but a settled one and `dispatched`, which in turn needs it.
MayUpdateTask(t, s) ==
  /\ taskStatus[t] # "absent"
  /\ s \in SettledTask \/ (s = "dispatched" /\ taskStatus[t] # "dispatched")
       => \A d \in ActiveOf(t) : ~LiveWorker(d)
  /\ s = "dispatched" => ActiveOf(t) # {}
  /\ s \notin SettledTask \cup {"dispatched"} => ActiveOf(t) = {}

UpdateTaskStatus(t, s) ==
  /\ MayUpdateTask(t, s)
  /\ taskStatus' = WithTask(t, s)
  /\ IF s \in SettledTask
     THEN /\ dispStatus' = Settled(ActiveOf(t), s)
          /\ capability' = Revoked(ActiveOf(t))
     ELSE UNCHANGED <<dispStatus, capability>>

\* orchestration.taskUpdate: without a result the status already held is left as it is
TaskUpdate(t, s, withResult) ==
  /\ taskStatus[t] # s \/ withResult
  /\ UpdateTaskStatus(t, s)
  /\ UNCHANGED <<rowVars, failures, stalled, assignee, worker, ownEpoch, gateVars>>

-----------------------------------------------------------------------------
(* Dispatches without a supervised worker: `dispatch` and the coordinator. *)

\* Inserts the next dispatch row for task t
InsertRow(t, st, n, tm, cap, w, pl) ==
  /\ rows < MaxDispatches
  /\ rows' = rows + 1
  /\ dispTask' = [dispTask EXCEPT ![rows + 1] = t]
  /\ dispStatus' = [dispStatus EXCEPT ![rows + 1] = st]
  /\ failures' = [failures EXCEPT ![rows + 1] = n]
  /\ assignee' = [assignee EXCEPT ![rows + 1] = tm]
  /\ capability' = [capability EXCEPT ![rows + 1] = cap]
  /\ worker' = [worker EXCEPT ![rows + 1] = w]
  /\ placement' = [placement EXCEPT ![rows + 1] = pl]
  /\ ownEpoch' = [ownEpoch EXCEPT ![rows + 1] = (w # "none")]
  /\ taskStatus' = [taskStatus EXCEPT ![t] = "dispatched"]
  /\ UNCHANGED <<stalled, gateVars>>

\* SELECT MAX(failure_count) over the task's rows, 0 when it has none
FailureCounts(t) == {0} \cup {failures[d] : d \in {e \in DispatchId : dispTask[e] = t}}

\* inject mints a capability in the same turn of the event loop, before the prompt is sent
CreateDispatchContext(t, tm, inject) ==
  /\ taskStatus[t] = "ready"
  /\ ActiveOn(tm) = {}
  /\ \E n \in FailureCounts(t) :
       /\ \A m \in FailureCounts(t) : m <= n
       /\ InsertRow(t, "dispatched", n, tm, IF inject THEN "valid" ELSE "none",
                    "none", "local")

\* failDispatch of an active dispatch; exited says that the worker process is gone
FailDispatch(d, exited) ==
  LET s == FailedStatus(failures[d] + 1)
  IN  /\ Active(d)
      /\ exited \/ ~LiveWorker(d)
      /\ dispStatus' = [dispStatus EXCEPT ![d] = s]
      /\ failures' = [failures EXCEPT ![d] = @ + 1]
      /\ stalled' = [stalled EXCEPT ![d] = FALSE]
      /\ capability' = Revoked({d})
      /\ worker' = [worker EXCEPT ![d] =
                      IF exited /\ @ # "none" THEN "failed" ELSE @]
      /\ UNCHANGED <<rowVars, assignee, ownEpoch, gateVars>>

\* The task of a failed dispatch, under failDispatch's status guard
TaskAfterFailure(d) ==
  IF TaskOf(d) = "dispatched" /\ Others(d) = {}
  THEN RetryOrFail(FailedStatus(failures[d] + 1)) ELSE TaskOf(d)

\* Sending the prompt of a context-only dispatch failed.  A stalled prompt is not a failure here.
PromptFailure(d) ==
  /\ worker[d] = "none"
  /\ FailDispatch(d, FALSE)
  /\ taskStatus' = [taskStatus EXCEPT ![dispTask[d]] = TaskAfterFailure(d)]

\* applyEscalationToDispatch: a broken circuit also fails the task, whatever its status was.
\* (updateTaskStatus would settle other active dispatches; by ActiveDispatchIsNewest there are none.)
Escalation(d) ==
  /\ Active(d)
  /\ TaskOf(d) \notin SettledTask
  /\ FailDispatch(d, FALSE)
  /\ taskStatus' =
       [taskStatus EXCEPT ![dispTask[d]] =
          IF FailedStatus(failures[d] + 1) = "circuit_broken"
          THEN "failed" ELSE TaskAfterFailure(d)]

\* worker-stop or worker-abandon of a dispatch that has no worker row
ReleaseContextOnlyDispatch(d) ==
  /\ worker[d] = "none"
  /\ Active(d)
  /\ dispStatus' = [dispStatus EXCEPT ![d] = "failed"]
  /\ stalled' = [stalled EXCEPT ![d] = FALSE]
  /\ capability' = Revoked({d})
  /\ taskStatus' = [taskStatus EXCEPT ![dispTask[d]] =
                      IF Others(d) = {} /\ @ = "dispatched" THEN "blocked" ELSE @]
  /\ UNCHANGED <<rowVars, failures, assignee, worker, ownEpoch, gateVars>>

-----------------------------------------------------------------------------
(* worker-start: the supervised worker of a dispatch.                      *)

StartWorker(t, pl) ==
  /\ taskStatus[t] = "ready"
  /\ InsertRow(t, "pending", 0, None, "none", "starting", pl)

\* Mutant: a retry does not ask whether the earlier attempt is over
RetryWorkerUnsettled(p, pl) ==
  /\ dispStatus[p] # "none"
  /\ Latest(p)
  /\ TaskOf(p) \in {"failed", "blocked"}
  /\ InsertRow(dispTask[p], "pending", 0, None, "none", "starting", pl)

\* worker-start --retry-of p: p is the newest row of the task and is over
RetryWorker(p, pl) ==
  /\ dispStatus[p] # "none"
  /\ Latest(p)
  /\ IF worker[p] # "none"
     THEN worker[p] \in {"failed", "stopped", "abandoned"}
     ELSE dispStatus[p] = "failed"
  /\ TaskOf(p) \in {"failed", "blocked"}
  /\ InsertRow(dispTask[p], "pending", 0, None, "none", "starting", pl)

\* Mutant: no check that the terminal is free
PrepareAuthorityOnBusyTerminal(d, tm) ==
  /\ placement[d] = "local"
  /\ ownEpoch[d]
  /\ dispStatus[d] = "pending"
  /\ worker[d] = "starting"
  /\ assignee' = [assignee EXCEPT ![d] = tm]
  /\ capability' = [capability EXCEPT ![d] = "valid"]
  /\ UNCHANGED <<taskStatus, rowVars, dispStatus, failures, stalled, worker,
                 ownEpoch, gateVars>>

\* The start handler attaches the dispatch to the agent's terminal
PrepareStartingWorkerAuthority(d, tm) ==
  /\ placement[d] = "local"
  /\ ownEpoch[d]
  /\ dispStatus[d] = "pending"
  /\ worker[d] = "starting"
  /\ ActiveOn(tm) \subseteq {d}
  /\ assignee' = [assignee EXCEPT ![d] = tm]
  /\ capability' = [capability EXCEPT ![d] = "valid"]
  /\ UNCHANGED <<taskStatus, rowVars, dispStatus, failures, stalled, worker,
                 ownEpoch, gateVars>>

MarkWorkerDispatchReady(d) ==
  /\ ownEpoch[d]
  /\ placement[d] = "local" => assignee[d] # None
  /\ dispStatus[d] = "pending"
  /\ worker[d] = "starting"
  /\ dispStatus' = [dispStatus EXCEPT ![d] = "dispatched"]
  /\ worker' = [worker EXCEPT ![d] = "ready"]
  /\ UNCHANGED <<taskStatus, rowVars, failures, stalled, capability, assignee,
                 ownEpoch, gateVars>>

\* A prompt that stalled had been written, so a local worker keeps its capability (retainCapability)
FailWorkerStart(d, stall) ==
  /\ ownEpoch[d]
  /\ stall /\ placement[d] = "local" => assignee[d] # None
  /\ worker[d] = "starting"
  /\ dispStatus[d] \in ActiveStatuses \cup {"failed"}
  /\ dispStatus' = [dispStatus EXCEPT ![d] = "failed"]
  /\ stalled' = [stalled EXCEPT ![d] = stall]
  /\ capability' = Revoked(IF stall THEN {} ELSE {d})
  /\ worker' = [worker EXCEPT ![d] = "failed"]
  /\ taskStatus' = [taskStatus EXCEPT ![dispTask[d]] =
                      IF Others(d) = {} /\ @ # "completed" THEN "failed" ELSE @]
  /\ UNCHANGED <<rowVars, failures, assignee, ownEpoch, gateVars>>

\* The start handler lost sight of the start, or worker-show found a dead runtime's start
MarkWorkerStartUnknown(d) ==
  /\ ownEpoch[d] \/ placement[d] = "local"
  /\ worker[d] = "starting"
  /\ TaskOf(d) = "dispatched"
  /\ worker' = [worker EXCEPT ![d] = "start_unknown"]
  /\ taskStatus' = [taskStatus EXCEPT ![dispTask[d]] = "blocked"]
  /\ UNCHANGED <<rowVars, dispStatus, failures, stalled, capability, assignee,
                 ownEpoch, gateVars>>

\* worker-show of a federated dispatch projects what the worker server answered, behind the
\* observation fence.  The server's attachment is not modelled: any answer may come at any time.
ReconcileFederatedWorkerReady(d) ==
  /\ placement[d] = "federated"
  /\ worker[d] \in {"starting", "start_unknown"}
  /\ worker' = [worker EXCEPT ![d] = "ready"]
  /\ dispStatus' = [dispStatus EXCEPT ![d] = IF @ = "pending" THEN "dispatched" ELSE @]
  /\ taskStatus' = [taskStatus EXCEPT ![dispTask[d]] =
                      IF @ = "blocked" THEN "dispatched" ELSE @]
  /\ UNCHANGED <<rowVars, failures, stalled, capability, assignee, ownEpoch, gateVars>>

ReconcileFederatedWorkerStartUnknown(d) ==
  /\ placement[d] = "federated"
  /\ worker[d] \in {"starting", "start_unknown"}
  /\ worker' = [worker EXCEPT ![d] = "start_unknown"]
  /\ taskStatus' = [taskStatus EXCEPT ![dispTask[d]] =
                      IF @ = "dispatched" THEN "blocked" ELSE @]
  /\ UNCHANGED <<rowVars, dispStatus, failures, stalled, capability, assignee,
                 ownEpoch, gateVars>>

\* The server reports the attachment failed or stopped; only a failed one carries the stalled text
ReconcileFederatedWorkerGone(d, s, stall) ==
  /\ placement[d] = "federated"
  /\ stall => s = "failed"
  /\ worker[d] \in {"starting", "start_unknown"}
  /\ worker' = [worker EXCEPT ![d] = s]
  /\ dispStatus' = [dispStatus EXCEPT ![d] = IF Active(d) THEN "failed" ELSE @]
  /\ stalled' = [stalled EXCEPT ![d] = IF Active(d) THEN stall ELSE @]
  /\ capability' = Revoked({d})
  /\ taskStatus' = [taskStatus EXCEPT ![dispTask[d]] =
                      IF @ \in {"dispatched", "blocked"}
                      THEN IF Others(d) # {} THEN "dispatched" ELSE "failed"
                      ELSE @]
  /\ UNCHANGED <<rowVars, failures, assignee, ownEpoch, gateVars>>

-----------------------------------------------------------------------------
(* worker-stop, worker-abandon and recovery of a worker whose terminal is  *)
(* gone.                                                                   *)

BeginWorkerStop(d) ==
  /\ \/ worker[d] \in {"ready", "start_unknown"}
     \/ worker[d] = "stopping" /\ ~ownEpoch[d]   \* stranded by a dead runtime
  /\ worker' = [worker EXCEPT ![d] = "stopping"]
  /\ ownEpoch' = [ownEpoch EXCEPT ![d] = TRUE]
  /\ capability' = Revoked({d})
  /\ taskStatus' = [taskStatus EXCEPT ![dispTask[d]] = Reconciled(d)]
  /\ UNCHANGED <<rowVars, dispStatus, failures, stalled, assignee, gateVars>>

\* settleWorkerStop and reconcileFederatedWorkerStop write the same rows
WorkerStopped(d) ==
  /\ worker' = [worker EXCEPT ![d] = "stopped"]
  /\ dispStatus' = [dispStatus EXCEPT ![d] = IF Active(d) THEN "failed" ELSE @]
  /\ stalled' = [stalled EXCEPT ![d] = @ /\ ~Active(d)]
  /\ taskStatus' = [taskStatus EXCEPT ![dispTask[d]] = Reconciled(d)]
  /\ UNCHANGED <<rowVars, failures, capability, assignee, ownEpoch, gateVars>>

SettleWorkerStop(d) ==
  /\ placement[d] = "local"
  /\ worker[d] = "stopping"
  /\ ownEpoch[d]
  /\ WorkerStopped(d)

ReconcileFederatedWorkerStop(d) ==
  /\ placement[d] = "federated"
  /\ worker[d] \in {"stopping", "stop_unknown"}
  /\ WorkerStopped(d)

\* The stop handler has no proof of the exit, or worker-show found a dead runtime's stop
MarkWorkerStopUnknown(d) ==
  /\ ownEpoch[d] \/ placement[d] = "local"
  /\ worker[d] = "stopping"
  /\ worker' = [worker EXCEPT ![d] = "stop_unknown"]
  /\ UNCHANGED <<taskStatus, rowVars, dispStatus, failures, stalled, capability,
                 assignee, ownEpoch, gateVars>>

\* The worker server answers the stop that the worker had already reported
ResumeFederatedWorkerForTerminalRelay(d) ==
  /\ placement[d] = "federated"
  /\ ownEpoch[d]
  /\ worker[d] = "stopping"
  /\ worker' = [worker EXCEPT ![d] = "ready"]
  /\ taskStatus' = [taskStatus EXCEPT ![dispTask[d]] =
                      IF @ = "blocked" THEN "dispatched" ELSE @]
  /\ UNCHANGED <<rowVars, dispStatus, failures, stalled, capability, assignee,
                 ownEpoch, gateVars>>

AbandonWorkerDispatch(d) ==
  /\ worker[d] \in LiveStates \ {"stopping"}
  /\ Latest(d)
  /\ worker' = [worker EXCEPT ![d] = "abandoned"]
  /\ dispStatus' = [dispStatus EXCEPT ![d] = IF Active(d) THEN "failed" ELSE @]
  /\ capability' = Revoked(IF Active(d) THEN {d} ELSE {})
  /\ taskStatus' = [taskStatus EXCEPT ![dispTask[d]] = Reconciled(d)]
  /\ UNCHANGED <<rowVars, failures, stalled, assignee, ownEpoch, gateVars>>

\* Recovery at startup finds the recorded terminal of a local worker gone
ReconcileMissingWorkerTerminal(d) ==
  LET stopWasPending == worker[d] \in {"stopping", "stop_unknown"}
      s == FailedStatus(failures[d] + 1)
  IN  /\ placement[d] = "local"
      /\ assignee[d] # None
      /\ LiveWorker(d)
      /\ Active(d)
      /\ dispStatus' = [dispStatus EXCEPT ![d] = s]
      /\ failures' = [failures EXCEPT ![d] = @ + 1]
      /\ stalled' = [stalled EXCEPT ![d] = FALSE]
      /\ capability' = Revoked({d})
      /\ worker' = [worker EXCEPT ![d] =
                      IF stopWasPending THEN "stopped" ELSE "abandoned"]
      /\ taskStatus' =
           [taskStatus EXCEPT ![dispTask[d]] =
              IF ~stopWasPending /\ @ \in {"dispatched", "blocked"}
              THEN IF Others(d) # {} THEN "dispatched" ELSE RetryOrFail(s)
              ELSE @]
      /\ UNCHANGED <<rowVars, assignee, ownEpoch, gateVars>>

\* The process behind tm exits: it proves this runtime's own stop, else it fails the dispatch
TerminalExit(tm) ==
  \E d \in ActiveOn(tm) :
    /\ \A e \in ActiveOn(tm) : e <= d
    /\ IF worker[d] = "stopping" /\ ownEpoch[d]
       THEN WorkerStopped(d)
       ELSE /\ FailDispatch(d, TRUE)
            /\ taskStatus' = [taskStatus EXCEPT ![dispTask[d]] = TaskAfterFailure(d)]

-----------------------------------------------------------------------------
(* worker_done: the report of the worker, sent locally or imported from    *)
(* the worker server by the relay.                                         *)

\* A local sender needs its pane and a capability that is not revoked.  The relay authenticates the
\* worker server, which checked the worker; the model lets it relay a report at any time.
ReportAuthority(d) ==
  \/ placement[d] = "federated"
  \/ assignee[d] # None /\ capability[d] # "revoked"

\* Mutant: a late report is not held against the status of the task
CorrectableWhateverTask(d) == dispStatus[d] = "failed" /\ stalled[d]

\* settledByUnobservedPrompt: the report corrects a start recorded as failed on a stalled prompt
Correctable(d) == dispStatus[d] = "failed" /\ stalled[d] /\ TaskOf(d) = "failed"

Reconnecting(d) == Active(d) /\ TaskOf(d) = "blocked" /\ worker[d] = "start_unknown"

ReportingStart(d) ==
  dispStatus[d] = "pending" /\ TaskOf(d) = "dispatched" /\ worker[d] = "starting"

\* The report is accepted, and every worker transition it makes is legal.  A rejected report and
\* a duplicate change none of these rows.
ReportAccepted(d, succeeded) ==
  /\ ReportAuthority(d)
  /\ \A e \in Others(d) : ~LiveWorker(e)
  /\ worker[d] = "none" => Active(d) /\ \A e \in Others(d) : e < d
  /\ \/ Correctable(d) /\ worker[d] = "failed"
     \/ Reconnecting(d)
     \/ ReportingStart(d)
     \/ /\ dispStatus[d] = "dispatched"
        /\ TaskOf(d) = "dispatched"
        /\ worker[d] \in {"none", "ready"}
                          \cup IF succeeded THEN {} ELSE {"start_unknown", "starting"}

SettleWorkerReport(d, succeeded) ==
  LET s == IF succeeded THEN "completed" ELSE "failed"
      settled == {d} \cup Others(d)
  IN  /\ ReportAccepted(d, succeeded)
      /\ dispStatus' = Settled(settled, s)
      /\ stalled' = [e \in DispatchId |-> stalled[e] /\ (succeeded \/ e \notin settled)]
      /\ capability' = Revoked(settled)
      /\ worker' = [worker EXCEPT ![d] =
                      IF @ = "none" THEN @ ELSE IF succeeded THEN "succeeded" ELSE "failed"]
      /\ taskStatus' = WithTask(dispTask[d], s)
      /\ UNCHANGED <<rowVars, failures, assignee, ownEpoch, gateVars>>

-----------------------------------------------------------------------------
(* Decision gates.                                                         *)

\* Mutant: a gate opens under a supervised worker
CreateGateUnderWorker(t, g) ==
  /\ gateStatus[g] = "none"
  /\ taskStatus[t] # "absent"
  /\ gateStatus' = [gateStatus EXCEPT ![g] = "pending"]
  /\ gateTask' = [gateTask EXCEPT ![g] = t]
  /\ dispStatus' = Settled(ActiveOf(t), "completed")
  /\ capability' = Revoked(ActiveOf(t))
  /\ taskStatus' = [taskStatus EXCEPT ![t] = "blocked"]
  /\ UNCHANGED <<rowVars, failures, stalled, assignee, worker, ownEpoch>>

CreateGate(t, g) ==
  /\ gateStatus[g] = "none"
  /\ taskStatus[t] # "absent"
  /\ \A d \in ActiveOf(t) : ~LiveWorker(d)
  /\ gateStatus' = [gateStatus EXCEPT ![g] = "pending"]
  /\ gateTask' = [gateTask EXCEPT ![g] = t]
  /\ dispStatus' = Settled(ActiveOf(t), "completed")
  /\ capability' = Revoked(ActiveOf(t))
  /\ taskStatus' = [taskStatus EXCEPT ![t] = "blocked"]
  /\ UNCHANGED <<rowVars, failures, stalled, assignee, worker, ownEpoch>>

\* resolveGate has no status guard: a resolved gate can be resolved again
ResolveGate(g) ==
  /\ gateStatus[g] # "none"
  /\ gateStatus' = [gateStatus EXCEPT ![g] = "resolved"]
  /\ UpdateTaskStatus(gateTask[g], "ready")
  /\ UNCHANGED <<rowVars, failures, stalled, assignee, worker, ownEpoch, gateTask>>

\* reblockTasksWithPendingGates, one gate: an active dispatch makes it throw
ReblockTaskWithPendingGate(g) ==
  /\ gateStatus[g] = "pending"
  /\ taskStatus[gateTask[g]] # "blocked"
  /\ UpdateTaskStatus(gateTask[g], "blocked")
  /\ UNCHANGED <<rowVars, failures, stalled, assignee, worker, ownEpoch, gateVars>>

-----------------------------------------------------------------------------
(* The runtime is killed and started again; daemon terminals survive it.   *)

Restart ==
  /\ \E d \in DispatchId : ownEpoch[d]
  /\ ownEpoch' = [d \in DispatchId |-> FALSE]
  /\ UNCHANGED <<taskStatus, rowVars, dispStatus, failures, stalled, capability,
                 assignee, worker, gateVars>>

TaskNext(t) ==
  \/ CreateTask(t)
  \/ \E s \in TaskStatuses, withResult \in BOOLEAN : TaskUpdate(t, s, withResult)
  \/ \E tm \in Terminal, inject \in BOOLEAN : CreateDispatchContext(t, tm, inject)
  \/ \E pl \in Placements : StartWorker(t, pl)

DispatchNext(d) ==
  \/ PromptFailure(d)
  \/ Escalation(d)
  \/ ReleaseContextOnlyDispatch(d)
  \/ \E pl \in Placements : RetryWorker(d, pl)
  \/ \E tm \in Terminal : PrepareStartingWorkerAuthority(d, tm)
  \/ MarkWorkerDispatchReady(d)
  \/ \E stall \in BOOLEAN : FailWorkerStart(d, stall)
  \/ MarkWorkerStartUnknown(d)
  \/ ReconcileFederatedWorkerReady(d)
  \/ ReconcileFederatedWorkerStartUnknown(d)
  \/ \E s \in {"failed", "stopped"}, stall \in BOOLEAN :
       ReconcileFederatedWorkerGone(d, s, stall)
  \/ BeginWorkerStop(d)
  \/ SettleWorkerStop(d)
  \/ ReconcileFederatedWorkerStop(d)
  \/ MarkWorkerStopUnknown(d)
  \/ ResumeFederatedWorkerForTerminalRelay(d)
  \/ AbandonWorkerDispatch(d)
  \/ ReconcileMissingWorkerTerminal(d)
  \/ \E succeeded \in BOOLEAN : SettleWorkerReport(d, succeeded)

GateNext(g) ==
  \/ \E t \in Task : CreateGate(t, g)
  \/ ResolveGate(g)
  \/ ReblockTaskWithPendingGate(g)

Next ==
  \/ \E t \in Task : TaskNext(t)
  \/ \E d \in DispatchId : DispatchNext(d)
  \/ \E tm \in Terminal : TerminalExit(tm)
  \/ \E g \in Gate : GateNext(g)
  \/ Restart

Spec == Init /\ [][Next]_vars
=============================================================================
