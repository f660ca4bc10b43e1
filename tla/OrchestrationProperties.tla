---------------------- MODULE OrchestrationProperties ----------------------
(***************************************************************************)
(* What the task, dispatch and worker tables promise each other, whatever  *)
(* the order in which handlers, callbacks and the relay write them.        *)
(***************************************************************************)
EXTENDS Orchestration

\* Worker states in which nobody knows whether the agent still runs
Uncertain == {"start_unknown", "stopping", "stop_unknown"}

-----------------------------------------------------------------------------
(* Invariants.                                                             *)

\* Only the newest dispatch of a task can be active, so a task never has two and a superseded
\* attempt never comes back: createDispatchContext and worker-start admit a task by its status
\* and the newest row alone (dispatch-context-store.ts, worker-dispatch-start.ts).
ActiveDispatchIsNewest ==
  \A d \in DispatchId : Active(d) => Latest(d)

\* A task is dispatched only while some dispatch of it is active, and an active dispatch keeps its
\* task dispatched or blocked: nothing can claim the task again, and nothing waits for a dispatch
\* that is over.  Ten handlers keep the two tables in step by hand.
TaskMirrorsDispatch ==
  \A t \in Task :
    /\ taskStatus[t] = "dispatched" => ActiveOf(t) # {}
    /\ ActiveOf(t) # {} => taskStatus[t] \in {"dispatched", "blocked"}

\* While a dispatch is active its task is blocked exactly when nobody knows whether the worker
\* runs; every other block is a gate or an operator and has no active dispatch under it.
BlockedMeansUncertain ==
  \A d \in DispatchId :
    Active(d) => (TaskOf(d) = "blocked" <=> worker[d] \in Uncertain)

\* A supervised dispatch is active exactly while its worker is not settled: no handler settles one
\* row of the pair and leaves the other, which would strand the worker or free its task under it.
SupervisionMatchesDispatch ==
  \A d \in DispatchId :
    worker[d] # "none" => (LiveWorker(d) <=> Active(d))

\* A terminal works for one dispatch at a time, over every path that assigns one (the claim of
\* dispatch-row-writer.ts, the authority of worker-dispatch-authority.ts).
OneActiveDispatchPerTerminal ==
  \A d, e \in DispatchId :
    Active(d) /\ Active(e) /\ assignee[d] # None /\ assignee[d] = assignee[e] => d = e

\* A capability outlives its dispatch only for a start recorded as failed on a stalled prompt, and
\* none survives the request to stop (failWorkerStart retainCapability, beginWorkerStop).
CapabilityEndsWithDispatch ==
  \A d \in DispatchId :
    capability[d] = "valid" =>
      \/ Active(d) /\ worker[d] \notin {"stopping", "stop_unknown"}
      \/ dispStatus[d] = "failed" /\ stalled[d] /\ worker[d] = "failed"

\* The breaker never trips early: a broken circuit follows three failed dispatches of its task,
\* although the count is carried as a maximum over rows written by different paths.
CircuitNeedsThreeFailures ==
  \A d \in DispatchId :
    dispStatus[d] = "circuit_broken" =>
      Cardinality({e \in 1..d : /\ dispTask[e] = dispTask[d]
                                /\ dispStatus[e] \in {"failed", "circuit_broken"}})
        >= DISPATCH_CIRCUIT_BREAK_FAILURES

\* The rows that exist are 1..rows, with a task that exists; a worker still starting has a pending
\* dispatch; only a settled dispatch is marked stalled; a gate row has its task.
RowsWellFormed ==
  /\ \A d \in DispatchId :
       /\ d <= rows => dispTask[d] \in Task /\ TaskOf(d) # "absent" /\ dispStatus[d] # "none"
       /\ d > rows => /\ dispTask[d] = None /\ dispStatus[d] = "none"
                      /\ worker[d] = "none" /\ capability[d] = "none" /\ ~stalled[d]
       /\ worker[d] = "starting" => dispStatus[d] = "pending"
       /\ stalled[d] => ~Active(d)
  /\ \A g \in Gate : gateStatus[g] # "none" => gateTask[g] \in Task

\* The inductive invariant of the proofs
IInv ==
  /\ TypeOK
  /\ RowsWellFormed
  /\ ActiveDispatchIsNewest
  /\ TaskMirrorsDispatch
  /\ BlockedMeansUncertain
  /\ SupervisionMatchesDispatch
  /\ OneActiveDispatchPerTerminal
  /\ CapabilityEndsWithDispatch

-----------------------------------------------------------------------------
(* Action properties.                                                      *)

\* "A supervised worker owns its Task for as long as it is alive" (task-status-transition.ts): a
\* task with a live worker changes status only in a step that moves that worker.
SupervisedOwnership ==
  [][\A t \in Task : taskStatus'[t] # taskStatus[t] =>
       \A d \in ActiveOf(t) : LiveWorker(d) => worker'[d] # worker[d]]_vars

\* No late event reopens a completed task: what changes its status touches no dispatch and no
\* worker, so it is an operator's taskUpdate or a gate (status guard of failDispatch).
CompletedTaskIsSticky ==
  [][\A t \in Task : taskStatus[t] = "completed" /\ taskStatus'[t] # "completed" =>
       UNCHANGED <<rows, dispStatus, failures, stalled, worker>>]_vars

\* The step that completes a task's last dependency promotes it: a pending task is not left
\* behind (promoteReadyTasks runs only then).
NoStrandedChild ==
  [][\A u \in Task :
       /\ taskStatus[u] = "pending" /\ taskStatus'[u] = "pending"
       /\ \A v \in Deps[u] : taskStatus'[v] = "completed"
       => \A v \in Deps[u] : taskStatus[v] = "completed"]_vars

\* A settled dispatch keeps its outcome, except that a worker's own report may turn a failure
\* recorded on a stalled prompt into a completion, and then no attempt of the task is running.
SettledDispatchIsFinal ==
  [][\A d \in DispatchId :
       dispStatus[d] \in SettledStatuses /\ dispStatus'[d] # dispStatus[d] =>
         /\ dispStatus[d] = "failed" /\ stalled[d] /\ dispStatus'[d] = "completed"
         /\ ActiveOf(dispTask[d]) = {}]_vars
=============================================================================
