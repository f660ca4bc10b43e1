---------------------- MODULE OrchestrationRefinement ----------------------
(***************************************************************************)
(* The tables of Orchestration implement TaskOwnership: the leases of a    *)
(* task are its active dispatches, numbered by rowid.                      *)
(***************************************************************************)
EXTENDS OrchestrationProperties

Ownership == INSTANCE TaskOwnership WITH
  issued   <- rows,
  holder   <- [t \in Task |-> ActiveOf(t)],
  finished <- {t \in Task : taskStatus[t] = "completed"}

\* Every handler, callback and relay step grants, ends or records at most one lease, in the order
\* TaskOwnership allows: a task under a dispatch is never dispatched a second time and a settled
\* dispatch never owns its task again.
OwnershipSpec == Ownership!Spec
=============================================================================
