------------------------ MODULE OrchestrationClaims ------------------------
(***************************************************************************)
(* Statements of the repository's own comments and guides about the        *)
(* lifecycle which the code does not keep.                                 *)
(***************************************************************************)
EXTENDS Orchestration

\* "gate exists but task isn't blocked - re-block to restore the invariant"
\* (coordinator-decision-gates.ts): the coordinator's tick can always re-block the task of a
\* pending gate.
ReblockRestoresGate ==
  \A g \in Gate :
    gateStatus[g] = "pending" =>
      taskStatus[gateTask[g]] = "blocked" \/ MayUpdateTask(gateTask[g], "blocked")

\* "After three consecutive failures for one Task, its dispatch context circuit-breaks"
\* (recovery-and-cleanup.md): of three consecutive supervised dispatches of a task that each
\* counted a failure, the last is circuit-broken.  (A worker-start row begins at zero, so a
\* positive count is a failure of its own.)
ThreeFailuresBreakCircuit ==
  \A d \in DispatchId :
    /\ d >= 3
    /\ \A e \in {d - 2, d - 1, d} : /\ dispTask[e] = dispTask[d]
                                    /\ worker[e] # "none"
                                    /\ dispStatus[e] \in {"failed", "circuit_broken"}
                                    /\ failures[e] > 0
    => dispStatus[d] = "circuit_broken"
=============================================================================
