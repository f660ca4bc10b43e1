------------------------------ MODULE MCClaims ------------------------------
(***************************************************************************)
(* Small instances of Orchestration on which TLC refutes the statements of *)
(* OrchestrationClaims.                                                    *)
(***************************************************************************)
EXTENDS OrchestrationClaims, TLC

CONSTANTS t1, tm1, g1

NoDeps == [t \in Task |-> {}]
=============================================================================
