-------------------------- MODULE MutationReceipts --------------------------
(***************************************************************************)
(* Durable mutation receipts: how a request that changes orchestration     *)
(* state is kept from being executed twice although its caller may repeat  *)
(* it, join it while it runs, or lose the answer to a crash of the runtime *)
(* (src/main/runtime/rpc/orchestration-mutation-executor.ts over the table *)
(* mutation_receipts).                                                     *)
(*                                                                         *)
(* What runs between two awaits of the executor or of a handler is one     *)
(* action; Restart may fall between any two of them and loses the          *)
(* in-flight map, never a row.                                             *)
(*                                                                         *)
(* Handlers are modelled by when their effect becomes durable relative to  *)
(* their receipt, which is all the executor depends on:                    *)
(*   send        inserts the mail, records its receipt, then nudges        *)
(*   workerDone  checkpoints "effect free", then commits effect and        *)
(*               receipt in one transaction, then nudges                   *)
(*   remoteDone  queues the report, then waits for the Run home, which may *)
(*               not answer                                                *)
(*   workerStart inserts receipt and dispatch in one transaction, then     *)
(*               awaits the worker; it returns an outcome unless another   *)
(*               handler took the dispatch over meanwhile                  *)
(*   dispatch    creates a dispatch, then types its prompt; when that      *)
(*               throws it fails the dispatch                              *)
(*   release     repeats harmlessly, may fail after its effect             *)
(*   prompt      marks the effect possible, writes to a terminal           *)
(*                                                                         *)
(* Left out: texts, the terminal incarnation bound into a prompt's hash,   *)
(* prompts refused before a byte is written, and the order in which        *)
(* completed receipts age (which ones are pruned first is left open).  A   *)
(* request id is used with one method: another method fails the same       *)
(* comparison as another payload.  A receipt is not pruned while its own   *)
(* run is in flight: a run lasts minutes, retention is 30 days or ten      *)
(* thousand newer rows.                                                    *)
(***************************************************************************)
EXTENDS Naturals, FiniteSets

CONSTANTS
  Request,      \* (caller fingerprint, request id) pairs
  Kind,         \* [Request -> Kinds], the handler of a request
  Payload,      \* payload hashes
  MaxRows,      \* MUTATION_RECEIPT_MAX_ROWS
  PruneBatch,   \* MUTATION_RECEIPT_PRUNE_BATCH_SIZE
  MaxCalls,     \* bound: calls made
  MaxRestarts,  \* bound: restarts of the runtime
  None

Kinds == {"send", "workerDone", "remoteDone", "workerStart", "dispatch", "release",
          "prompt"}

Receipt == [state : {"pending", "completed"}, payload : Payload,
            body : {"none", "effectFree", "accepted", "recorded", "result"}]
Run == [pc : {"started", "checkpointed", "possible", "effected", "recorded",
              "observing"},
        payload : Payload, replay : BOOLEAN, joined : BOOLEAN]

ASSUME KindAssumption == Kind \in [Request -> Kinds]
ASSUME RowsAssumption == MaxRows \in Nat /\ PruneBatch \in Nat
ASSUME BoundsAssumption == MaxCalls \in Nat /\ MaxRestarts \in Nat
ASSUME FiniteAssumption == IsFiniteSet(Request)
ASSUME NoneAssumption == None \notin Receipt \cup Run

VARIABLES
  receipt,    \* the row of mutation_receipts, None when there is none
  run,        \* the executor's in-flight entry with its handler, or None
  starting,   \* dispatches the request created and is still bringing up
  effects,    \* history: how often the handler's effect became durable
  appliedTo,  \* history: the payloads whose effect became durable
  answers,    \* history: <<outcome, payload>> of the answered calls
  forgotten,  \* history: requests whose receipt was pruned
  calls, restarts

vars == <<receipt, run, starting, effects, appliedTo, answers, forgotten, calls,
          restarts>>

Outcomes == {"fresh", "replayed", "mismatch", "unknown", "full", "failed"}

TypeOK ==
  /\ receipt \in [Request -> Receipt \cup {None}]
  /\ run \in [Request -> Run \cup {None}]
  /\ starting \in [Request -> Nat]
  /\ effects \in [Request -> Nat]
  /\ appliedTo \in [Request -> SUBSET Payload]
  /\ answers \in [Request -> SUBSET (Outcomes \X Payload)]
  /\ forgotten \in SUBSET Request
  /\ calls \in 0..MaxCalls
  /\ restarts \in 0..MaxRestarts

Init ==
  /\ receipt = [r \in Request |-> None]
  /\ run = [r \in Request |-> None]
  /\ starting = [r \in Request |-> 0]
  /\ effects = [r \in Request |-> 0]
  /\ appliedTo = [r \in Request |-> {}]
  /\ answers = [r \in Request |-> {}]
  /\ forgotten = {}
  /\ calls = 0
  /\ restarts = 0

-----------------------------------------------------------------------------
(* The ledger *)

Rows == {r \in Request : receipt[r] # None}
Prunable == {r \in Rows : receipt[r].state = "completed" /\ run[r] = None}

\* Mutant: one row too many is let in
PrunedLate(kept) == Cardinality(kept) <= MaxRows

\* ensureMutationReceiptCapacity leaves room for one more row, or throws
HasRoom(kept) == Cardinality(kept) < MaxRows

(* Rows that survive ensureMutationReceiptCapacity: completed receipts past *)
(* the retention age go, and when the ledger is still full a batch of the  *)
(* other completed ones.                                                   *)
Survivors ==
  {kept \in SUBSET Rows :
     \E expired \in SUBSET Prunable :
       LET live == Rows \ expired
           surplus == Cardinality(live) - MaxRows + PruneBatch
       IN /\ Rows \ kept \subseteq Prunable
          /\ kept \subseteq live
          /\ IF Cardinality(live) >= MaxRows
               THEN \/ Cardinality(live \ kept) = surplus
                    \/ Cardinality(live \ kept) <= surplus /\ Prunable \cap kept = {}
               ELSE kept = live}

Inserted(r, kept, p, body) ==
  receipt' = [s \in Request |->
                IF s = r THEN [state |-> "pending", payload |-> p, body |-> body]
                ELSE IF s \in kept THEN receipt[s] ELSE None]

\* discardPendingMutationReceipt: a completed receipt stays
Discarded(r) ==
  IF receipt[r] # None /\ receipt[r].state = "pending"
    THEN [receipt EXCEPT ![r] = None] ELSE receipt

\* completeMutationReceipt
Completed(r, body) ==
  [receipt EXCEPT ![r] = [@ EXCEPT !.state = "completed", !.body = body]]

\* Requests whose effect is a dispatch
Starts(r) == Kind[r] \in {"workerStart", "dispatch"}

Applied(r) ==
  /\ starting' = IF Starts(r) THEN [starting EXCEPT ![r] = @ + 1] ELSE starting
  /\ effects' = [effects EXCEPT ![r] = @ + 1]
  /\ appliedTo' = [appliedTo EXCEPT ![r] = @ \cup {run[r].payload}]

\* A dispatch of the request is no longer its start's to bring up
Ended(r) == [starting EXCEPT ![r] = IF @ = 0 THEN 0 ELSE @ - 1]

-----------------------------------------------------------------------------
(* A call: everything OrchestrationMutationExecutor.run does before it     *)
(* awaits the handler.                                                     *)

\* worker starts insert their receipt with the dispatch, inside the handler
Atomic(r) == Kind[r] = "workerStart"
Active(r) == run[r] # None

Answered(r, outcome, p) ==
  answers' = [answers EXCEPT ![r] = @ \cup {<<outcome, p>>}]

Called == calls < MaxCalls /\ calls' = calls + 1

Began(r, p, pc, replay) ==
  run' = [run EXCEPT ![r] =
            [pc |-> pc, payload |-> p, replay |-> replay, joined |-> FALSE]]

\* Mutant: only a completed receipt is compared with the input
MismatchesCompleted(r, p) ==
  receipt[r] # None /\ receipt[r].payload # p /\ receipt[r].state = "completed"

Mismatches(r, p) ==
  \/ receipt[r] # None /\ receipt[r].payload # p
  \/ Atomic(r) /\ Active(r) /\ run[r].payload # p

\* The request id was used with other input
CallMismatched(r, p) ==
  /\ Called
  /\ Mismatches(r, p)
  /\ Answered(r, "mismatch", p)
  /\ UNCHANGED <<receipt, run, starting, effects, appliedTo, forgotten, restarts>>

\* The same mutation runs in this process: the call shares its answer
CallJoins(r, p) ==
  /\ Called
  /\ ~Mismatches(r, p)
  /\ Active(r)
  /\ run' = [run EXCEPT ![r].joined = TRUE]
  /\ UNCHANGED <<receipt, starting, effects, appliedTo, answers, forgotten, restarts>>

(* A completed receipt is replayed; where its answer still owes a nudge or *)
(* an observation the handler runs again for that alone.                   *)
OwesObservation(r) ==
  \/ receipt[r].body = "recorded"
  \/ Kind[r] = "workerDone"

CallReplays(r, p) ==
  /\ Called
  /\ ~Mismatches(r, p)
  /\ ~Active(r)
  /\ receipt[r] # None
  /\ receipt[r].state = "completed"
  /\ \/ /\ ~OwesObservation(r)
        /\ Answered(r, "replayed", p)
        /\ UNCHANGED run
     \/ /\ OwesObservation(r) \/ Kind[r] = "prompt"
        /\ Began(r, p, "observing", TRUE)
        /\ UNCHANGED answers
  /\ UNCHANGED <<receipt, starting, effects, appliedTo, forgotten, restarts>>

\* Mutant: any pending worker_done is resumed, checkpointed or not
ResumableWithoutCheckpoint(r) == Kind[r] \in {"release", "workerDone", "send"}

\* A pending receipt of a dead process that may be run again
Resumable(r) ==
  \/ Kind[r] = "release"
  \/ Kind[r] = "workerDone" /\ receipt[r].body = "effectFree"

\* A pending receipt whose process died: the effect may have happened
CallUnknown(r, p) ==
  /\ Called
  /\ ~Mismatches(r, p)
  /\ ~Active(r)
  /\ receipt[r] # None
  /\ receipt[r].state = "pending"
  /\ ~Resumable(r)
  /\ Answered(r, "unknown", p)
  /\ UNCHANGED <<receipt, run, starting, effects, appliedTo, forgotten, restarts>>

CallResumes(r, p) ==
  /\ Called
  /\ ~Mismatches(r, p)
  /\ ~Active(r)
  /\ receipt[r] # None
  /\ receipt[r].state = "pending"
  /\ Resumable(r)
  /\ Began(r, p, "started", TRUE)
  /\ UNCHANGED <<receipt, starting, effects, appliedTo, answers, forgotten, restarts>>

\* beginMutationReceipt inserts the pending row, in one transaction
CallBegins(r, p) ==
  /\ Called
  /\ ~Active(r)
  /\ receipt[r] = None
  /\ ~Atomic(r)
  /\ \E kept \in Survivors :
       IF HasRoom(kept)
         THEN /\ Inserted(r, kept, p, "none")
              /\ forgotten' = forgotten \cup (Rows \ kept)
              /\ Began(r, p, "started", FALSE)
              /\ UNCHANGED answers
         ELSE /\ Answered(r, "full", p)
              /\ UNCHANGED <<receipt, forgotten, run>>
  /\ UNCHANGED <<starting, effects, appliedTo, restarts>>

\* A worker start runs without a row until its acceptance
CallStartsWorker(r, p) ==
  /\ Called
  /\ ~Active(r)
  /\ receipt[r] = None
  /\ Atomic(r)
  /\ Began(r, p, "started", FALSE)
  /\ UNCHANGED <<receipt, starting, effects, appliedTo, answers, forgotten, restarts>>

-----------------------------------------------------------------------------
(* The handler, step by step *)

At(r, kinds, pc) == Active(r) /\ Kind[r] \in kinds /\ run[r].pc = pc
MovedTo(r, pc) == run' = [run EXCEPT ![r].pc = pc]

\* The handler's own transaction commits, its receipt not yet
Effect(r) ==
  /\ \/ At(r, {"send", "remoteDone", "release", "dispatch"}, "started")
     \/ At(r, {"prompt"}, "possible")
  /\ Applied(r)
  /\ MovedTo(r, "effected")
  /\ UNCHANGED <<receipt, answers, forgotten, calls, restarts>>

\* markWorkerDoneEffectFree: from here a restart may run the report again
Checkpoint(r) ==
  /\ At(r, {"workerDone"}, "started")
  /\ receipt' = [receipt EXCEPT ![r].body = "effectFree"]
  /\ MovedTo(r, "checkpointed")
  /\ UNCHANGED <<starting, effects, appliedTo, answers, forgotten, calls, restarts>>

\* commitWorkerDoneMessageMutation: mail, settlement and receipt together
CommitDone(r) ==
  /\ At(r, {"workerDone"}, "checkpointed")
  /\ Applied(r)
  /\ receipt' = Completed(r, "recorded")
  /\ MovedTo(r, "recorded")
  /\ UNCHANGED <<answers, forgotten, calls, restarts>>

\* createStartingWorkerDispatch: receipt and dispatch in one transaction
Accept(r) ==
  /\ At(r, {"workerStart"}, "started")
  /\ \E kept \in Survivors :
       /\ HasRoom(kept)
       /\ Inserted(r, kept, run[r].payload, "accepted")
       /\ forgotten' = forgotten \cup (Rows \ kept)
  /\ Applied(r)
  /\ MovedTo(r, "effected")
  /\ UNCHANGED <<answers, calls, restarts>>

\* markMutationEffectPossible: the next step writes to the terminal
MarkPossible(r) ==
  /\ At(r, {"prompt"}, "started")
  /\ MovedTo(r, "possible")
  /\ UNCHANGED <<receipt, starting, effects, appliedTo, answers, forgotten, calls,
                 restarts>>

\* recordReceipt before the nudge, or when the prompt was accepted
Record(r) ==
  /\ At(r, {"send", "prompt"}, "effected")
  /\ receipt' = Completed(r, "recorded")
  /\ MovedTo(r, "recorded")
  /\ UNCHANGED <<starting, effects, appliedTo, answers, forgotten, calls, restarts>>

\* The run ends with one answer for its caller and one for those who joined it
Settled(r, outcome, shared) ==
  /\ run' = [run EXCEPT ![r] = None]
  /\ answers' = [answers EXCEPT ![r] = @ \cup {<<outcome, run[r].payload>>} \cup
       IF run[r].joined THEN {<<shared, run[r].payload>>} ELSE {}]

\* The handler returns and its result becomes the receipt
Return(r) ==
  /\ \/ At(r, {"remoteDone", "workerStart", "dispatch", "release", "prompt"}, "effected")
     \/ At(r, {"send", "workerDone", "prompt"}, "recorded")
  /\ receipt' = Completed(r, "result")
  /\ Settled(r, IF run[r].replay THEN "replayed" ELSE "fresh", "replayed")
  /\ starting' = Ended(r)
  /\ UNCHANGED <<effects, appliedTo, forgotten, calls, restarts>>

\* worker-abandon, a stop, an exit or a report moves on a dispatch whose start
\* is still awaiting something, or died
TakenOver(r) ==
  /\ starting[r] > 0
  /\ starting' = Ended(r)
  /\ UNCHANGED <<receipt, run, effects, appliedTo, answers, forgotten, calls, restarts>>

\* the catch clause keeps a prompt's receipt once its effect was possible
KeepsReceipt(r) == Kind[r] = "prompt" /\ run[r].pc # "started"

\* Mutant: recording the failed start throws although the dispatch is starting
ThrowsWhileStarting(r) == TRUE

\* failWorkerStart and markWorkerStartUnknown throw dispatch_inactive for a row
\* that left `starting`; any other failure of an accepted start they record
OutcomeRefused(r) == starting[r] = 0

(* The handler throws: before its effect, after its receipt, or midway.    *)
(* Midway, repeating a release is harmless, the receipt of a prompt is     *)
(* kept, a dispatch was failed by its own handler, and an accepted worker  *)
(* start was taken over by another.                                        *)
Throw(r) ==
  /\ \/ At(r, Kinds, "started") \/ At(r, {"workerDone"}, "checkpointed")
     \/ At(r, {"prompt"}, "possible") \/ At(r, {"release", "prompt", "dispatch"}, "effected")
     \/ At(r, {"workerStart"}, "effected") /\ OutcomeRefused(r)
     \/ At(r, {"send", "workerDone", "prompt"}, "recorded")
  /\ receipt' = IF KeepsReceipt(r) THEN receipt ELSE Discarded(r)
  /\ Settled(r, "failed", "failed")
  /\ starting' = IF At(r, {"dispatch"}, "effected") THEN Ended(r) ELSE starting
  /\ UNCHANGED <<effects, appliedTo, forgotten, calls, restarts>>

\* The Run home did not confirm in time: operation_unknown, receipt kept
TimeOut(r) ==
  /\ At(r, {"remoteDone"}, "effected")
  /\ Settled(r, "unknown", "unknown")
  /\ UNCHANGED <<receipt, starting, effects, appliedTo, forgotten, calls, restarts>>

\* A replay-only run ends; failing, it answers its caller with the receipt it had
Observed(r) ==
  /\ Active(r)
  /\ run[r].pc = "observing"
  /\ \/ receipt' = Completed(r, "result") /\ Settled(r, "replayed", "replayed")
     \/ UNCHANGED receipt /\ Settled(r, "replayed", "failed")
  /\ UNCHANGED <<starting, effects, appliedTo, forgotten, calls, restarts>>

\* The runtime dies: rows survive, the in-flight map does not
Restart ==
  /\ restarts < MaxRestarts
  /\ restarts' = restarts + 1
  /\ run' = [r \in Request |-> None]
  /\ UNCHANGED <<receipt, starting, effects, appliedTo, answers, forgotten, calls>>

-----------------------------------------------------------------------------
Call(r, p) ==
  \/ CallMismatched(r, p) \/ CallJoins(r, p) \/ CallReplays(r, p)
  \/ CallUnknown(r, p) \/ CallResumes(r, p)
  \/ CallBegins(r, p) \/ CallStartsWorker(r, p)

Step(r) ==
  \/ Effect(r) \/ Checkpoint(r) \/ CommitDone(r) \/ Accept(r) \/ MarkPossible(r)
  \/ Record(r) \/ Return(r) \/ Throw(r) \/ TimeOut(r) \/ Observed(r) \/ TakenOver(r)

Next ==
  \/ \E r \in Request, p \in Payload : Call(r, p)
  \/ \E r \in Request : Step(r)
  \/ Restart

Spec == Init /\ [][Next]_vars

-----------------------------------------------------------------------------
(* Properties *)

Once == {r \in Request : Kind[r] # "release" /\ r \notin forgotten}

\* What the request did that nobody else has dealt with
Outstanding(r) == IF Starts(r) THEN starting[r] ELSE effects[r]

(* However often a request is repeated, joined or retried after a crash,   *)
(* its effect happens at most once while its receipt is retained (a        *)
(* release is allowed to repeat).  A request that starts a worker brings   *)
(* up at most one dispatch at a time: it may create another only when the  *)
(* one before was failed or taken over by another handler.                 *)
AtMostOneEffect == \A r \in Once : Outstanding(r) <= 1

(* A caller told of success, fresh or replayed, was told so for the very   *)
(* input whose effect is durable: neither a replay of a receipt that was   *)
(* completed too early nor of another payload's.                           *)
SuccessMeansEffect ==
  \A r \in Request : \A a \in answers[r] :
    a[1] \in {"fresh", "replayed"} => a[2] \in appliedTo[r]

(* When no receipt is left of a request, because it failed plainly, then   *)
(* it had no effect or left a dispatch that is no longer coming up: to     *)
(* send it again never doubles something still under way.                  *)
NoReceiptNothingOutstanding ==
  \A r \in Once : receipt[r] = None => Outstanding(r) = 0

(* Refuted: repeating a request under its id never duplicates its effect.  *)
(* The guide for coordinators says so of every orchestration mutation      *)
(* (recovery-and-cleanup.md:77-79).                                        *)
NeverDuplicated == \A r \in Once : effects[r] <= 1

(* The ledger never outgrows its row limit, whatever mix of pending and    *)
(* completed receipts fills it.                                            *)
LedgerBounded == Cardinality(Rows) <= MaxRows

-----------------------------------------------------------------------------
(* The inductive invariant *)

Before == {"started", "checkpointed", "possible"}

\* Where a handler stands says what its receipt is
RunInv ==
  \A r \in Request : run[r] # None =>
    /\ receipt[r] = None <=> Kind[r] = "workerStart" /\ run[r].pc = "started"
    /\ receipt[r] # None => receipt[r].payload = run[r].payload
    /\ run[r].pc \in {"recorded", "observing"} =>
         receipt[r] # None /\ receipt[r].state = "completed"
    /\ run[r].pc \in {"effected", "recorded"} => run[r].payload \in appliedTo[r]

\* A completed receipt and a told success stand for a durable effect
PayloadInv ==
  \A r \in Request :
    receipt[r] # None /\ receipt[r].state = "completed"
      => receipt[r].payload \in appliedTo[r]

\* Every place from which the handler may still apply its effect has none outstanding
OnceInv ==
  \A r \in Once :
    /\ run[r] # None /\ run[r].pc \in Before => Outstanding(r) = 0
    /\ receipt[r] # None /\ receipt[r].state = "pending" /\ receipt[r].body = "effectFree"
         => Kind[r] = "workerDone" /\ effects[r] = 0

(* The receipts, the handlers in flight and the durable effects of every   *)
(* request agree (orchestration-mutation-executor.ts:116-254): the         *)
(* strengthening from which the other invariants follow.                   *)
ReceiptInv ==
  /\ TypeOK /\ RunInv /\ PayloadInv /\ OnceInv
  /\ AtMostOneEffect /\ SuccessMeansEffect /\ NoReceiptNothingOutstanding
=============================================================================
