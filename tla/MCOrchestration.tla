-------------------------- MODULE MCOrchestration --------------------------
(***************************************************************************)
(* Small instances of Orchestration for TLC.                               *)
(***************************************************************************)
EXTENDS OrchestrationRefinement, TLC

CONSTANTS t1, t2, tm1, tm2, g1

\* Tasks without dependencies
NoDeps == [t \in Task |-> {}]

\* t2 waits for t1
ChainDeps == [t \in Task |-> IF t = t2 THEN {t1} ELSE {}]

TerminalSymmetry == Permutations(Terminal)
=============================================================================
