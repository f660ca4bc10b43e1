----------------------------- MODULE MCReceipts -----------------------------
(***************************************************************************)
(* Small instances of MutationReceipts for TLC.                            *)
(***************************************************************************)
EXTENDS MutationReceipts, TLC

CONSTANTS r1, r2, r3, r4, r5, r6, r7, p, q

\* One request of each kind of handler
AllKinds == r1 :> "send" @@ r2 :> "workerDone" @@ r3 :> "workerStart"
            @@ r4 :> "prompt" @@ r5 :> "remoteDone" @@ r6 :> "release" @@ r7 :> "dispatch"

\* A single worker start
OneStart == r3 :> "workerStart"

PayloadSymmetry == Permutations({p, q})
=============================================================================
