----------------------- MODULE MutationReceiptsProofs -----------------------
(***************************************************************************)
(* Proofs about MutationReceipts: for any number of requests, payloads,    *)
(* calls and restarts, a request's effect happens at most once while its   *)
(* receipt is retained, or, of a dispatch, once at a time; a told success  *)
(* stands for a durable effect, a missing receipt means that nothing is    *)
(* outstanding, and the ledger keeps its bound.                            *)
(*                                                                         *)
(* The argument: ReceiptInv says, request by request (Sound), what a       *)
(* receipt and a handler's position tell about the effect.  A step writes  *)
(* the receipt, handler and history of one request (Touches), only an      *)
(* insertion prunes others, and it prunes completed receipts without a     *)
(* handler and forgets them.                                               *)
(***************************************************************************)
EXTENDS MutationReceipts, FiniteSetTheorems, TLAPS

USE KindAssumption, RowsAssumption, BoundsAssumption, NoneAssumption

-----------------------------------------------------------------------------
(* One request at a time *)

\* What ReceiptInv says of one request
Sound(r) ==
  /\ run[r] # None =>
       /\ receipt[r] = None <=> Kind[r] = "workerStart" /\ run[r].pc = "started"
       /\ receipt[r] # None => receipt[r].payload = run[r].payload
       /\ run[r].pc \in {"recorded", "observing"} =>
            receipt[r] # None /\ receipt[r].state = "completed"
       /\ run[r].pc \in {"effected", "recorded"} => run[r].payload \in appliedTo[r]
  /\ receipt[r] # None /\ receipt[r].state = "completed"
       => receipt[r].payload \in appliedTo[r]
  /\ \A a \in answers[r] : a[1] \in {"fresh", "replayed"} => a[2] \in appliedTo[r]
  /\ r \in Once =>
       /\ Outstanding(r) <= 1
       /\ receipt[r] = None => Outstanding(r) = 0
       /\ run[r] # None /\ run[r].pc \in Before => Outstanding(r) = 0
       /\ receipt[r] # None /\ receipt[r].state = "pending" /\ receipt[r].body = "effectFree"
            => Kind[r] = "workerDone" /\ effects[r] = 0

LEMMA SoundEverywhere == ReceiptInv <=> TypeOK /\ \A r \in Request : Sound(r)
BY DEF ReceiptInv, Sound, RunInv, PayloadInv, OnceInv, AtMostOneEffect,
       SuccessMeansEffect, NoReceiptNothingOutstanding, Once, Outstanding, Starts

\* A step of request r alone
Touches(r) ==
  /\ forgotten' = forgotten
  /\ \A s \in Request \ {r} :
       /\ receipt'[s] = receipt[s] /\ run'[s] = run[s] /\ starting'[s] = starting[s]
       /\ effects'[s] = effects[s] /\ appliedTo'[s] = appliedTo[s] /\ answers'[s] = answers[s]

LEMMA OneRequest ==
  ASSUME ReceiptInv, NEW r \in Request, TypeOK', Touches(r), Sound(r)'
  PROVE  ReceiptInv'
<1>1. ASSUME NEW s \in Request, s # r PROVE Sound(s)'
  BY SoundEverywhere, <1>1 DEF Touches, Sound, Once, Outstanding, Starts
<1>2. ASSUME NEW s \in Request PROVE Sound(s)'
  <2>1. CASE s = r
    BY <2>1
  <2> QED BY <1>1, <2>1
<1> QED BY <1>2 DEF ReceiptInv, Sound, RunInv, PayloadInv, OnceInv, AtMostOneEffect,
       SuccessMeansEffect, NoReceiptNothingOutstanding, Once, Outstanding, Starts

Bodies == {"none", "effectFree", "accepted", "recorded", "result"}

\* What completing a receipt, and moving a handler, leave behind
LEMMA CompletedRow ==
  ASSUME TypeOK, NEW r \in Request, receipt[r] # None, NEW body \in Bodies
  PROVE  /\ Completed(r, body) \in [Request -> Receipt \cup {None}]
         /\ Completed(r, body)[r] \in Receipt
         /\ Completed(r, body)[r].state = "completed"
         /\ Completed(r, body)[r].payload = receipt[r].payload
         /\ \A s \in Request : s # r => Completed(r, body)[s] = receipt[s]
<1>1. receipt[r] \in Receipt
  BY DEF TypeOK
<1>2. [receipt[r] EXCEPT !.state = "completed", !.body = body] \in Receipt
  BY <1>1 DEF Receipt, Bodies
<1> QED BY <1>1, <1>2 DEF Completed, TypeOK, Receipt

LEMMA MovedRun ==
  ASSUME TypeOK, NEW r \in Request, Active(r),
         NEW pc \in {"started", "checkpointed", "possible", "effected", "recorded", "observing"},
         MovedTo(r, pc)
  PROVE  /\ run' \in [Request -> Run \cup {None}]
         /\ run'[r] \in Run
         /\ run'[r].pc = pc
         /\ run'[r].payload = run[r].payload
         /\ \A s \in Request : s # r => run'[s] = run[s]
<1>1. run[r] \in Run
  BY DEF TypeOK, Active
<1>2. [run[r] EXCEPT !.pc = pc] \in Run
  BY <1>1 DEF Run
<1>3. run' = [run EXCEPT ![r] = [run[r] EXCEPT !.pc = pc]]
  BY DEF MovedTo
<1> QED BY <1>1, <1>2, <1>3 DEF TypeOK, Run

\* What an effect, and the end of a start, leave behind
LEMMA AppliedHistory ==
  ASSUME TypeOK, NEW r \in Request, run[r].payload \in Payload, Applied(r)
  PROVE  /\ starting' \in [Request -> Nat] /\ effects' \in [Request -> Nat]
         /\ appliedTo' \in [Request -> SUBSET Payload]
         /\ Outstanding(r)' = Outstanding(r) + 1 /\ effects'[r] = effects[r] + 1
         /\ appliedTo'[r] = appliedTo[r] \cup {run[r].payload}
         /\ \A s \in Request : s # r =>
              /\ starting'[s] = starting[s] /\ effects'[s] = effects[s]
              /\ appliedTo'[s] = appliedTo[s]
BY DEF TypeOK, Applied, Outstanding, Starts

LEMMA EndedStart ==
  ASSUME TypeOK, NEW r \in Request
  PROVE  /\ Ended(r) \in [Request -> Nat]
         /\ Ended(r)[r] <= starting[r]
         /\ starting[r] <= 1 => Ended(r)[r] = 0
         /\ \A s \in Request : s # r => Ended(r)[s] = starting[s]
BY DEF TypeOK, Ended

LEMMA CallMismatchedKeeps ==
  ASSUME ReceiptInv, NEW r \in Request, NEW p \in Payload, CallMismatched(r, p)
  PROVE  ReceiptInv'
<1>1. TypeOK'
  BY SoundEverywhere DEF TypeOK, Receipt, Run, Outcomes, CallMismatched, Called, Mismatches, Answered, Active, Atomic
<1>2. Touches(r)
  BY SoundEverywhere DEF Touches, TypeOK, CallMismatched, Called, Mismatches, Answered, Active, Atomic
<1>3. Sound(r)'
  BY SoundEverywhere, <1>1 DEF Sound, TypeOK, Once, Outstanding, Starts, Receipt, Run, Outcomes, Before,
     CallMismatched, Called, Mismatches, Answered, Active, Atomic
<1> QED BY <1>1, <1>2, <1>3, OneRequest

LEMMA CallJoinsKeeps ==
  ASSUME ReceiptInv, NEW r \in Request, NEW p \in Payload, CallJoins(r, p)
  PROVE  ReceiptInv'
<1>1. run[r] \in Run /\ run' = [run EXCEPT ![r] = [run[r] EXCEPT !.joined = TRUE]]
  BY SoundEverywhere DEF TypeOK, CallJoins, Active
<1>2. [run[r] EXCEPT !.joined = TRUE] \in Run
  BY <1>1 DEF Run
<1>3. TypeOK'
  BY <1>1, <1>2, SoundEverywhere DEF TypeOK, CallJoins, Called
<1>4. Touches(r)
  BY <1>1, SoundEverywhere DEF Touches, TypeOK, CallJoins
<1>5. Sound(r)'
  BY <1>1, <1>2, SoundEverywhere DEF Sound, TypeOK, Run, Once, Outstanding, Starts, CallJoins
<1> QED BY <1>3, <1>4, <1>5, OneRequest

LEMMA CallReplaysKeeps ==
  ASSUME ReceiptInv, NEW r \in Request, NEW p \in Payload, CallReplays(r, p)
  PROVE  ReceiptInv'
<1>1. receipt[r] \in Receipt /\ receipt[r].payload = p /\ p \in appliedTo[r]
  BY SoundEverywhere DEF TypeOK, CallReplays, Mismatches, Sound
<1>2. \/ run' = run
      \/ run' = [run EXCEPT ![r] = [pc |-> "observing", payload |-> p, replay |-> TRUE, joined |-> FALSE]]
  BY DEF CallReplays, Began
<1>3. \/ answers' = answers
      \/ answers' = [answers EXCEPT ![r] = answers[r] \cup {<<"replayed", p>>}]
  BY DEF CallReplays, Answered
<1>4. TypeOK'
  <2>1. run' \in [Request -> Run \cup {None}]
    <3>1. [pc |-> "observing", payload |-> p, replay |-> TRUE, joined |-> FALSE] \in Run
      BY DEF Run
    <3> QED BY <1>2, <3>1, SoundEverywhere DEF TypeOK
  <2>2. answers' \in [Request -> SUBSET (Outcomes \X Payload)]
    BY <1>3, SoundEverywhere DEF TypeOK, Outcomes
  <2> QED BY <2>1, <2>2, SoundEverywhere DEF TypeOK, CallReplays, Called
<1>5. Touches(r)
  BY <1>2, <1>3, SoundEverywhere DEF Touches, TypeOK, CallReplays
<1>6. Sound(r)'
  BY <1>1, <1>2, <1>3, SoundEverywhere DEF Sound, TypeOK, Once, Outstanding, Starts, CallReplays, Before
<1> QED BY <1>4, <1>5, <1>6, OneRequest

LEMMA CallUnknownKeeps ==
  ASSUME ReceiptInv, NEW r \in Request, NEW p \in Payload, CallUnknown(r, p)
  PROVE  ReceiptInv'
<1>1. TypeOK'
  BY SoundEverywhere DEF TypeOK, Receipt, Run, Outcomes, CallUnknown, Called, Mismatches, Active, Resumable, Answered
<1>2. Touches(r)
  BY SoundEverywhere DEF Touches, TypeOK, CallUnknown, Called, Mismatches, Active, Resumable, Answered
<1>3. Sound(r)'
  BY SoundEverywhere, <1>1 DEF Sound, TypeOK, Once, Outstanding, Starts, Receipt, Run, Outcomes, Before,
     CallUnknown, Called, Mismatches, Active, Resumable, Answered
<1> QED BY <1>1, <1>2, <1>3, OneRequest

LEMMA CallResumesKeeps ==
  ASSUME ReceiptInv, NEW r \in Request, NEW p \in Payload, CallResumes(r, p)
  PROVE  ReceiptInv'
<1>1. TypeOK'
  BY SoundEverywhere DEF TypeOK, Receipt, Run, Outcomes, CallResumes, Called, Mismatches, Active, Resumable, Began
<1>2. Touches(r)
  BY SoundEverywhere DEF Touches, TypeOK, CallResumes, Called, Mismatches, Active, Resumable, Began
<1>3. Sound(r)'
  BY SoundEverywhere, <1>1 DEF Sound, TypeOK, Once, Outstanding, Starts, Receipt, Run, Outcomes, Before,
     CallResumes, Called, Mismatches, Active, Resumable, Began
<1> QED BY <1>1, <1>2, <1>3, OneRequest

LEMMA CallStartsWorkerKeeps ==
  ASSUME ReceiptInv, NEW r \in Request, NEW p \in Payload, CallStartsWorker(r, p)
  PROVE  ReceiptInv'
<1>1. TypeOK'
  BY SoundEverywhere DEF TypeOK, Receipt, Run, Outcomes, CallStartsWorker, Called, Active, Atomic, Began
<1>2. Touches(r)
  BY SoundEverywhere DEF Touches, TypeOK, CallStartsWorker, Called, Active, Atomic, Began
<1>3. Sound(r)'
  BY SoundEverywhere, <1>1 DEF Sound, TypeOK, Once, Outstanding, Starts, Receipt, Run, Outcomes, Before,
     CallStartsWorker, Called, Active, Atomic, Began
<1> QED BY <1>1, <1>2, <1>3, OneRequest

LEMMA EffectKeeps ==
  ASSUME ReceiptInv, NEW r \in Request, Effect(r)
  PROVE  ReceiptInv'
<1>1. run[r] # None /\ run[r] \in Run /\ Active(r) /\ run[r].pc \in Before /\ Kind[r] \notin {"workerStart", "workerDone"}
  BY SoundEverywhere DEF Effect, At, Active, TypeOK, Before
<1>2. receipt[r] # None /\ run[r].payload \in Payload
  BY <1>1, SoundEverywhere DEF Sound, Run
<1>3. TypeOK'
  BY <1>1, <1>2, MovedRun, AppliedHistory, SoundEverywhere DEF TypeOK, Effect
<1>4. Touches(r)
  BY <1>1, <1>2, MovedRun, AppliedHistory, SoundEverywhere DEF Touches, Effect
<1>5. Sound(r)'
  <2>1. TypeOK /\ Sound(r)
    BY SoundEverywhere
  <2>2. /\ run'[r] # None /\ run'[r].pc = "effected" /\ run'[r].payload = run[r].payload
        /\ receipt' = receipt /\ answers' = answers /\ Once' = Once
    BY <1>1, <2>1, MovedRun DEF Effect, Once, Run
  <2>3. /\ Outstanding(r)' = Outstanding(r) + 1
        /\ appliedTo'[r] = appliedTo[r] \cup {run[r].payload}
        /\ effects'[r] = effects[r] + 1
    BY <1>2, <2>1, AppliedHistory DEF Effect
  <2>4. r \in Once => Outstanding(r) = 0
    BY <1>1, <2>1 DEF Sound
  <2> QED BY <1>1, <1>2, <2>1, <2>2, <2>3, <2>4 DEF Sound, Before
<1> QED BY <1>3, <1>4, <1>5, OneRequest

LEMMA CheckpointKeeps ==
  ASSUME ReceiptInv, NEW r \in Request, Checkpoint(r)
  PROVE  ReceiptInv'
<1>1. run[r] # None /\ run[r].pc = "started" /\ Kind[r] = "workerDone" /\ Active(r)
  BY DEF Checkpoint, At, Active
<1>2. receipt[r] \in Receipt /\ receipt' = [receipt EXCEPT ![r] = [receipt[r] EXCEPT !.body = "effectFree"]]
  BY <1>1, SoundEverywhere DEF Checkpoint, Sound, TypeOK
<1>3. [receipt[r] EXCEPT !.body = "effectFree"] \in Receipt
  BY <1>2 DEF Receipt
<1>4. TypeOK'
  BY <1>1, <1>2, <1>3, MovedRun, SoundEverywhere DEF TypeOK, Checkpoint
<1>5. Touches(r)
  BY <1>1, <1>2, MovedRun, SoundEverywhere DEF Touches, TypeOK, Checkpoint
<1>6. Sound(r)'
  BY <1>1, <1>2, <1>3, MovedRun, SoundEverywhere DEF Sound, TypeOK, Receipt, Once, Outstanding, Starts, Checkpoint, Before
<1> QED BY <1>4, <1>5, <1>6, OneRequest

LEMMA CommitDoneKeeps ==
  ASSUME ReceiptInv, NEW r \in Request, CommitDone(r)
  PROVE  ReceiptInv'
<1>1. run[r] # None /\ run[r] \in Run /\ run[r].pc = "checkpointed" /\ Kind[r] = "workerDone" /\ Active(r)
  BY SoundEverywhere DEF CommitDone, At, Active, TypeOK
<1>2. receipt[r] # None /\ run[r].payload \in Payload
  BY <1>1, SoundEverywhere DEF Sound, Run
<1>3. TypeOK'
  BY <1>1, <1>2, MovedRun, CompletedRow, AppliedHistory, SoundEverywhere DEF TypeOK, CommitDone, Bodies
<1>4. Touches(r)
  BY <1>1, <1>2, MovedRun, CompletedRow, AppliedHistory, SoundEverywhere DEF Touches, CommitDone, Bodies
<1>5. Sound(r)'
  <2>1. TypeOK /\ Sound(r)
    BY SoundEverywhere
  <2>2. /\ run'[r] # None /\ run'[r].pc = "recorded" /\ run'[r].payload = run[r].payload
        /\ answers' = answers /\ Once' = Once
    BY <1>1, <2>1, MovedRun DEF CommitDone, Once, Run
  <2>3. /\ Outstanding(r)' = Outstanding(r) + 1
        /\ appliedTo'[r] = appliedTo[r] \cup {run[r].payload}
    BY <1>2, <2>1, AppliedHistory DEF CommitDone
  <2>4. receipt'[r] # None /\ receipt'[r].state = "completed" /\ receipt'[r].payload = run[r].payload
    BY <1>1, <1>2, <2>1, CompletedRow DEF CommitDone, Bodies, Sound
  <2>5. r \in Once => Outstanding(r) = 0
    BY <1>1, <2>1 DEF Sound, Before
  <2> QED BY <1>1, <2>1, <2>2, <2>3, <2>4, <2>5 DEF Sound, Before
<1> QED BY <1>3, <1>4, <1>5, OneRequest

LEMMA MarkPossibleKeeps ==
  ASSUME ReceiptInv, NEW r \in Request, MarkPossible(r)
  PROVE  ReceiptInv'
<1>1. TypeOK'
  BY SoundEverywhere DEF TypeOK, Receipt, Run, Outcomes, MarkPossible, At, Active, MovedTo
<1>2. Touches(r)
  BY SoundEverywhere DEF Touches, TypeOK, MarkPossible, At, Active, MovedTo
<1>3. Sound(r)'
  BY SoundEverywhere, <1>1 DEF Sound, TypeOK, Once, Outstanding, Starts, Receipt, Run, Outcomes, Before,
     MarkPossible, At, Active, MovedTo
<1> QED BY <1>1, <1>2, <1>3, OneRequest

LEMMA RecordKeeps ==
  ASSUME ReceiptInv, NEW r \in Request, Record(r)
  PROVE  ReceiptInv'
<1>1. run[r] # None /\ run[r].pc = "effected" /\ Kind[r] # "workerStart" /\ Active(r)
  BY DEF Record, At, Active
<1>2. receipt[r] # None
  BY <1>1, SoundEverywhere DEF Sound
<1>3. TypeOK'
  <2>1. TypeOK
    BY SoundEverywhere
  <2>2. receipt' \in [Request -> Receipt \cup {None}]
    BY <1>1, <1>2, <2>1, CompletedRow DEF TypeOK, Record, Bodies
  <2>3. run' \in [Request -> Run \cup {None}]
    BY <1>1, <2>1, MovedRun DEF TypeOK, Record
  <2> QED BY <2>1, <2>2, <2>3 DEF TypeOK, Record
<1>4. Touches(r)
  <2>1. TypeOK
    BY SoundEverywhere
  <2>2. \A s \in Request \ {r} : receipt'[s] = receipt[s]
    BY <1>1, <1>2, <2>1, CompletedRow DEF Record, Bodies
  <2>3. \A s \in Request \ {r} : run'[s] = run[s]
    BY <1>1, <2>1, MovedRun DEF Record
  <2> QED BY <2>2, <2>3 DEF Touches, Record
<1>5. Sound(r)'
  <2>1. TypeOK /\ Sound(r)
    BY SoundEverywhere
  <2>2. run'[r] \in Run /\ run'[r].pc = "recorded" /\ run'[r].payload = run[r].payload
    BY <1>1, <2>1, MovedRun DEF Record
  <2>3. /\ receipt'[r] \in Receipt /\ receipt'[r].state = "completed"
        /\ receipt'[r].payload = receipt[r].payload
    BY <1>1, <1>2, <2>1, CompletedRow DEF Record, Bodies
  <2>4. UNCHANGED <<starting, effects, appliedTo, answers, forgotten>>
    BY DEF Record
  <2>5. /\ run[r].payload \in appliedTo[r] /\ receipt[r].payload = run[r].payload
        /\ \A a \in answers[r] : a[1] \in {"fresh", "replayed"} => a[2] \in appliedTo[r]
        /\ r \in Once => Outstanding(r) <= 1
    BY <1>1, <1>2, <2>1 DEF Sound
  <2>6. run'[r] # None /\ receipt'[r] # None
    BY <2>2, <2>3, NoneAssumption
  <2>7. Once' = Once /\ Outstanding(r)' = Outstanding(r) /\ "recorded" \notin Before
    BY <2>4 DEF Once, Outstanding, Starts, Before
  <2> QED BY <1>1, <2>2, <2>3, <2>4, <2>5, <2>6, <2>7 DEF Sound
<1> QED BY <1>3, <1>4, <1>5, OneRequest

LEMMA ReturnKeeps ==
  ASSUME ReceiptInv, NEW r \in Request, Return(r)
  PROVE  ReceiptInv'
<1>1. run[r] # None /\ run[r] \in Run /\ run[r].pc \in {"effected", "recorded"}
  BY SoundEverywhere DEF Return, At, Active, TypeOK
<1>2. receipt[r] # None /\ run[r].payload \in appliedTo[r] /\ run[r].payload \in Payload
  BY <1>1, SoundEverywhere DEF Sound, Run
<1>3. TypeOK'
  <2>1. TypeOK
    BY SoundEverywhere
  <2>2. receipt' \in [Request -> Receipt \cup {None}] /\ starting' \in [Request -> Nat]
    BY <1>2, <2>1, CompletedRow, EndedStart DEF Return, Bodies
  <2>3. /\ run' \in [Request -> Run \cup {None}]
        /\ answers' \in [Request -> SUBSET (Outcomes \X Payload)]
    BY <1>2, <2>1 DEF TypeOK, Return, Settled, Outcomes
  <2> QED BY <2>1, <2>2, <2>3 DEF TypeOK, Return
<1>4. Touches(r)
  <2>1. TypeOK
    BY SoundEverywhere
  <2>2. \A s \in Request \ {r} : receipt'[s] = receipt[s] /\ starting'[s] = starting[s]
    BY <1>2, <2>1, CompletedRow, EndedStart DEF Return, Bodies
  <2>3. \A s \in Request \ {r} : run'[s] = run[s] /\ answers'[s] = answers[s]
    BY <2>1 DEF TypeOK, Return, Settled
  <2> QED BY <2>2, <2>3 DEF Touches, Return
<1>5. Sound(r)'
  <2>1. TypeOK /\ Sound(r)
    BY SoundEverywhere
  <2>2. /\ receipt'[r] # None /\ receipt'[r].state = "completed"
        /\ receipt'[r].payload = run[r].payload
    BY <1>1, <1>2, <2>1, CompletedRow DEF Return, Bodies, Sound
  <2>3. Outstanding(r)' <= Outstanding(r) /\ Outstanding(r)' \in Nat /\ Outstanding(r) \in Nat
    BY <2>1, EndedStart DEF TypeOK, Return, Outstanding, Starts
  <2>4. /\ run'[r] = None /\ appliedTo' = appliedTo /\ Once' = Once
        /\ \A a \in answers'[r] : a \in answers[r] \/ a[2] = run[r].payload
    BY <2>1 DEF TypeOK, Return, Settled, Once
  <2> QED BY <1>2, <2>1, <2>2, <2>3, <2>4 DEF Sound
<1> QED BY <1>3, <1>4, <1>5, OneRequest

\* What a handler that throws leaves of its request: nothing outstanding, or a receipt
LEMMA ThrowKeeps ==
  ASSUME ReceiptInv, NEW r \in Request, Throw(r)
  PROVE  ReceiptInv'
<1>1. TypeOK /\ Sound(r) /\ run[r] # None /\ run[r] \in Run
  BY SoundEverywhere DEF TypeOK, Throw, At, Active
<1>2. /\ run' = [run EXCEPT ![r] = None]
      /\ answers' = [answers EXCEPT ![r] = @ \cup {<<"failed", run[r].payload>>}]
      /\ starting' = starting \/ starting' = Ended(r)
      /\ receipt' = receipt \/ receipt' = Discarded(r)
      /\ UNCHANGED <<effects, appliedTo, forgotten, calls, restarts>>
  BY DEF Throw, Settled
<1>3. TypeOK'
  BY <1>1, <1>2, EndedStart DEF TypeOK, Run, Outcomes, Discarded
<1>4. Touches(r)
  BY <1>1, <1>2, EndedStart DEF TypeOK, Touches, Discarded
<1>5. r \in Once => Outstanding(r)' <= 1
  BY <1>1, <1>2, EndedStart DEF TypeOK, Sound, Outstanding, Starts
<1>6. r \in Once /\ receipt'[r] = None => Outstanding(r)' = 0
  <2> SUFFICES ASSUME r \in Once, receipt'[r] = None
               PROVE  Outstanding(r)' = 0
    OBVIOUS
  <2>1. CASE run[r].pc \in Before
    BY <1>1, <1>2, <2>1, EndedStart DEF TypeOK, Sound, Outstanding, Starts
  <2>2. CASE At(r, {"workerStart"}, "effected") /\ OutcomeRefused(r)
    BY <1>1, <1>2, <2>2, EndedStart DEF TypeOK, At, OutcomeRefused, Outstanding, Starts
  <2>3. CASE At(r, {"dispatch"}, "effected")
    BY <1>1, <2>3, EndedStart DEF TypeOK, Throw, At, Sound, Outstanding, Starts
  <2>4. CASE At(r, {"release", "prompt"}, "effected")
    BY <1>1, <2>4 DEF Throw, At, KeepsReceipt, Once, Sound
  <2>5. CASE At(r, {"send", "workerDone", "prompt"}, "recorded")
    BY <1>1, <1>2, <2>5 DEF At, Sound, TypeOK, Discarded
  <2> QED BY <1>1, <2>1, <2>2, <2>3, <2>4, <2>5 DEF Throw, At, Before
<1>7. Sound(r)'
  <2>1. run'[r] = None /\ Once' = Once
    BY <1>1, <1>2 DEF TypeOK, Once
  <2>2. receipt'[r] = None \/ receipt'[r] = receipt[r]
    BY <1>1, <1>2 DEF TypeOK, Discarded
  <2> QED BY <1>1, <1>2, <1>5, <1>6, <2>1, <2>2 DEF TypeOK, Sound
<1> QED BY <1>3, <1>4, <1>7, OneRequest

LEMMA TimeOutKeeps ==
  ASSUME ReceiptInv, NEW r \in Request, TimeOut(r)
  PROVE  ReceiptInv'
<1>1. TypeOK'
  BY SoundEverywhere DEF TypeOK, Receipt, Run, Outcomes, TimeOut, At, Active, Settled
<1>2. Touches(r)
  BY SoundEverywhere DEF Touches, TypeOK, TimeOut, At, Active, Settled
<1>3. Sound(r)'
  BY SoundEverywhere, <1>1 DEF Sound, TypeOK, Once, Outstanding, Starts, Receipt, Run, Outcomes, Before,
     TimeOut, At, Active, Settled
<1> QED BY <1>1, <1>2, <1>3, OneRequest

LEMMA ObservedKeeps ==
  ASSUME ReceiptInv, NEW r \in Request, Observed(r)
  PROVE  ReceiptInv'
<1>1. run[r] # None /\ run[r] \in Run /\ run[r].pc = "observing"
  BY SoundEverywhere DEF Observed, Active, TypeOK
<1>2. receipt[r] # None /\ run[r].payload \in appliedTo[r] /\ run[r].payload \in Payload
      /\ receipt[r].body \in Bodies
  BY <1>1, SoundEverywhere DEF Sound, Run, TypeOK, Receipt, Bodies
<1>3. \/ receipt' = Completed(r, "result")
      \/ receipt' = receipt
  BY DEF Observed
<1>4. /\ run' = [run EXCEPT ![r] = None]
      /\ \/ answers' = [answers EXCEPT ![r] = @ \cup {<<"replayed", run[r].payload>>}]
         \/ answers' = [answers EXCEPT ![r] = @ \cup {<<"replayed", run[r].payload>>,
                                                      <<"failed", run[r].payload>>}]
  BY DEF Observed, Settled
<1>5. TypeOK'
  BY <1>1, <1>2, <1>3, <1>4, CompletedRow, SoundEverywhere DEF TypeOK, Observed, Outcomes, Bodies
<1>6. Touches(r)
  BY <1>1, <1>2, <1>3, <1>4, CompletedRow, SoundEverywhere DEF Touches, TypeOK, Observed, Bodies
<1>7. Sound(r)'
  BY <1>1, <1>2, <1>3, <1>4, CompletedRow, SoundEverywhere
     DEF Sound, TypeOK, Once, Outstanding, Starts, Observed, Bodies
<1> QED BY <1>5, <1>6, <1>7, OneRequest

LEMMA TakenOverKeeps ==
  ASSUME ReceiptInv, NEW r \in Request, TakenOver(r)
  PROVE  ReceiptInv'
<1>1. TypeOK /\ Sound(r)
  BY SoundEverywhere
<1>2. TypeOK'
  BY <1>1, EndedStart DEF TypeOK, TakenOver
<1>3. Touches(r)
  BY <1>1, EndedStart DEF Touches, TakenOver
<1>4. Outstanding(r)' <= Outstanding(r) /\ Outstanding(r)' \in Nat
  BY <1>1, EndedStart DEF TypeOK, TakenOver, Outstanding, Starts
<1>5. Outstanding(r) \in Nat
  BY <1>1 DEF TypeOK, Outstanding
<1>6. Sound(r)'
  BY <1>1, <1>4, <1>5 DEF Sound, Once, TakenOver
<1> QED BY <1>2, <1>3, <1>6, OneRequest

-----------------------------------------------------------------------------
(* Steps of more than one request *)

\* An insertion prunes only requests that are settled, and forgets them
LEMMA InsertionKeeps ==
  ASSUME ReceiptInv, NEW r \in Request, NEW p \in Payload, NEW kept \in Survivors,
         NEW body \in Bodies, receipt[r] = None, Inserted(r, kept, p, body),
         forgotten' = forgotten \cup (Rows \ kept),
         \A s \in Request : s # r =>
           /\ run'[s] = run[s] /\ starting'[s] = starting[s] /\ effects'[s] = effects[s]
           /\ appliedTo'[s] = appliedTo[s] /\ answers'[s] = answers[s],
         TypeOK', Sound(r)'
  PROVE  ReceiptInv'
<1>1. ASSUME NEW s \in Request, s # r
      PROVE  Sound(s)'
  <2>1. CASE s \in Rows /\ s \notin kept
    <3>1. run[s] = None /\ receipt'[s] = None /\ s \in forgotten'
      BY <1>1, <2>1 DEF Survivors, Prunable, Inserted
    <3> QED BY <1>1, <3>1, SoundEverywhere DEF Sound, Once, Outstanding, Starts
  <2>2. CASE s \in kept \/ s \notin Rows
    <3>1. receipt'[s] = receipt[s]
      BY <1>1, <2>2 DEF Inserted, Rows
    <3> QED BY <1>1, <3>1, SoundEverywhere DEF Sound, Once, Outstanding, Starts
  <2> QED BY <2>1, <2>2
<1>2. ASSUME NEW s \in Request
      PROVE  Sound(s)'
  <2>1. CASE s = r
    BY <2>1
  <2> QED BY <1>1, <2>1
<1> QED BY <1>2 DEF ReceiptInv, Sound, RunInv, PayloadInv, OnceInv, AtMostOneEffect,
       SuccessMeansEffect, NoReceiptNothingOutstanding, Once, Outstanding, Starts

LEMMA InsertedTyped ==
  ASSUME TypeOK, NEW r \in Request, NEW p \in Payload, NEW kept, NEW body \in Bodies,
         Inserted(r, kept, p, body), forgotten' = forgotten \cup (Rows \ kept)
  PROVE  /\ receipt' \in [Request -> Receipt \cup {None}]
         /\ receipt'[r] = [state |-> "pending", payload |-> p, body |-> body]
         /\ receipt'[r] # None
         /\ forgotten' \in SUBSET Request
<1>1. [state |-> "pending", payload |-> p, body |-> body] \in Receipt
  BY DEF Receipt, Bodies
<1> QED BY <1>1 DEF TypeOK, Inserted, Rows

LEMMA CallBeginsKeeps ==
  ASSUME ReceiptInv, NEW r \in Request, NEW p \in Payload, CallBegins(r, p)
  PROVE  ReceiptInv'
<1>1. PICK kept \in Survivors :
        IF HasRoom(kept)
          THEN /\ Inserted(r, kept, p, "none")
               /\ forgotten' = forgotten \cup (Rows \ kept)
               /\ Began(r, p, "started", FALSE)
               /\ UNCHANGED answers
          ELSE /\ Answered(r, "full", p)
               /\ UNCHANGED <<receipt, forgotten, run>>
  BY DEF CallBegins
<1>2. /\ receipt[r] = None /\ run[r] = None
      /\ calls' \in 0..MaxCalls
      /\ UNCHANGED <<starting, effects, appliedTo, restarts>>
  BY SoundEverywhere DEF CallBegins, Active, Called, TypeOK
<1>3. CASE HasRoom(kept)
  <2>1. [pc |-> "started", payload |-> p, replay |-> FALSE, joined |-> FALSE] \in Run
    BY DEF Run
  <2>2. TypeOK'
    <3>1. TypeOK
      BY SoundEverywhere
    <3>2. run' \in [Request -> Run \cup {None}]
      BY <1>1, <1>3, <2>1, <3>1 DEF TypeOK, Began
    <3>3. receipt' \in [Request -> Receipt \cup {None}]
      BY <1>1, <1>3, <3>1, InsertedTyped DEF Bodies
    <3>4. forgotten' \in SUBSET Request
      BY <1>1, <1>3, <3>1 DEF TypeOK, Rows
    <3> QED BY <1>1, <1>2, <1>3, <3>1, <3>2, <3>3, <3>4 DEF TypeOK
  <2>3. /\ receipt'[r] = [state |-> "pending", payload |-> p, body |-> "none"]
        /\ receipt'[r] # None /\ forgotten \subseteq forgotten'
    BY <1>1, <1>3, InsertedTyped, SoundEverywhere DEF Bodies
  <2>4. run'[r] = [pc |-> "started", payload |-> p, replay |-> FALSE, joined |-> FALSE]
    BY <1>1, <1>3, SoundEverywhere DEF Began, TypeOK
  <2>5. Sound(r)'
    BY <1>1, <1>2, <1>3, <2>3, <2>4, SoundEverywhere DEF Sound, Once, Outstanding, Starts, CallBegins, Atomic
  <2>6. \A s \in Request : s # r =>
           /\ run'[s] = run[s] /\ starting'[s] = starting[s] /\ effects'[s] = effects[s]
           /\ appliedTo'[s] = appliedTo[s] /\ answers'[s] = answers[s]
    BY <1>1, <1>2, <1>3, SoundEverywhere DEF TypeOK, Began
  <2> QED BY <1>1, <1>2, <1>3, <2>2, <2>5, <2>6, InsertionKeeps DEF Bodies
<1>4. CASE ~HasRoom(kept)
  <2>1. TypeOK'
    BY <1>1, <1>2, <1>4, SoundEverywhere DEF TypeOK, Answered, Outcomes
  <2>2. Touches(r)
    BY <1>1, <1>2, <1>4, SoundEverywhere DEF Touches, TypeOK, Answered
  <2>3. Sound(r)'
    BY <1>1, <1>2, <1>4, SoundEverywhere DEF Sound, TypeOK, Answered, Once, Outstanding, Starts
  <2> QED BY <2>1, <2>2, <2>3, OneRequest
<1> QED BY <1>3, <1>4

LEMMA AcceptKeeps ==
  ASSUME ReceiptInv, NEW r \in Request, Accept(r)
  PROVE  ReceiptInv'
<1>1. PICK kept \in Survivors :
        /\ Inserted(r, kept, run[r].payload, "accepted")
        /\ forgotten' = forgotten \cup (Rows \ kept)
  BY DEF Accept
<1>2. run[r] \in Run /\ Active(r) /\ run[r].pc = "started" /\ Kind[r] = "workerStart"
  BY SoundEverywhere DEF Accept, At, Active, TypeOK
<1>3. run[r].payload \in Payload
  BY <1>2 DEF Run
<1>4. /\ receipt' \in [Request -> Receipt \cup {None}] /\ forgotten' \in SUBSET Request
      /\ receipt'[r] = [state |-> "pending", payload |-> run[r].payload, body |-> "accepted"]
      /\ receipt'[r] # None /\ forgotten \subseteq forgotten'
  BY <1>1, <1>3, InsertedTyped, SoundEverywhere DEF Bodies
<1>5. /\ run' \in [Request -> Run \cup {None}]
      /\ run'[r].pc = "effected" /\ run'[r].payload = run[r].payload
  BY <1>2, MovedRun, SoundEverywhere DEF Accept
<1>6. TypeOK'
  BY <1>3, <1>4, <1>5, AppliedHistory, SoundEverywhere DEF Accept, TypeOK
<1>7. /\ Outstanding(r)' = Outstanding(r) + 1 /\ appliedTo'[r] = appliedTo[r] \cup {run[r].payload}
       /\ effects'[r] = effects[r] + 1 /\ answers' = answers
  BY <1>3, AppliedHistory, SoundEverywhere DEF Accept
<1>8. Sound(r)'
  <2>1. TypeOK /\ Sound(r) /\ run[r] # None
    BY <1>2, SoundEverywhere DEF Active
  <2>2. Outstanding(r)' \in Nat /\ (r \in Once => Outstanding(r) = 0) /\ Once' \subseteq Once
    BY <1>2, <1>4, <1>6, <2>1 DEF TypeOK, Outstanding, Sound, Once, Before
  <2> QED BY <1>2, <1>4, <1>5, <1>7, <2>1, <2>2 DEF Sound, Before
<1>9. \A s \in Request : s # r =>
        /\ run'[s] = run[s] /\ starting'[s] = starting[s] /\ effects'[s] = effects[s]
        /\ appliedTo'[s] = appliedTo[s] /\ answers'[s] = answers[s]
  BY <1>2, MovedRun, SoundEverywhere DEF Accept, TypeOK, Applied
<1>10. receipt[r] = None
  BY <1>2, SoundEverywhere DEF Sound
<1> QED BY <1>1, <1>3, <1>6, <1>8, <1>9, <1>10, InsertionKeeps DEF Bodies

LEMMA RestartKeeps ==
  ASSUME ReceiptInv, Restart
  PROVE  ReceiptInv'
<1>1. TypeOK'
  BY SoundEverywhere DEF Restart, TypeOK
<1>2. ASSUME NEW s \in Request
      PROVE  Sound(s)'
  BY SoundEverywhere DEF Restart, Sound, TypeOK, Once, Outstanding, Starts
<1> QED BY <1>1, <1>2 DEF ReceiptInv, Sound, RunInv, PayloadInv, OnceInv, AtMostOneEffect,
       SuccessMeansEffect, NoReceiptNothingOutstanding, Once, Outstanding, Starts

-----------------------------------------------------------------------------
(* The invariants *)

\* The receipts, the handlers in flight and the durable effects always agree.
THEOREM Invariance == Spec => []ReceiptInv
<1>1. Init => ReceiptInv
  BY DEF Init, ReceiptInv, TypeOK, RunInv, PayloadInv, OnceInv, AtMostOneEffect,
         SuccessMeansEffect, NoReceiptNothingOutstanding, Once, Outstanding, Starts
<1>2. ReceiptInv /\ [Next]_vars => ReceiptInv'
  <2> SUFFICES ASSUME ReceiptInv, [Next]_vars
               PROVE  ReceiptInv'
    OBVIOUS
  <2>1. ASSUME NEW r \in Request, NEW p \in Payload, Call(r, p)
        PROVE  ReceiptInv'
    BY <2>1, CallMismatchedKeeps, CallJoinsKeeps, CallReplaysKeeps, CallUnknownKeeps,
       CallResumesKeeps, CallBeginsKeeps, CallStartsWorkerKeeps DEF Call
  <2>2. ASSUME NEW r \in Request, Step(r)
        PROVE  ReceiptInv'
    BY <2>2, EffectKeeps, CheckpointKeeps, CommitDoneKeeps, AcceptKeeps, MarkPossibleKeeps,
       RecordKeeps, ReturnKeeps, ThrowKeeps, TimeOutKeeps, ObservedKeeps,
       TakenOverKeeps DEF Step
  <2>3. CASE UNCHANGED vars
    BY <2>3 DEF vars, ReceiptInv, TypeOK, RunInv, PayloadInv, OnceInv, AtMostOneEffect,
       SuccessMeansEffect, NoReceiptNothingOutstanding, Once, Outstanding, Starts
  <2> QED BY <2>1, <2>2, <2>3, RestartKeeps DEF Next
<1> QED BY <1>1, <1>2, PTL DEF Spec

\* A request takes effect at most once, however it is repeated or crashed upon,
\* while its receipt is retained; one that starts workers has at most one
\* dispatch coming up (orchestration-mutation-executor.ts:52-254).
THEOREM EffectsHappenOnce == Spec => []AtMostOneEffect
BY Invariance, PTL DEF ReceiptInv

\* Every told success, fresh or replayed, stands for a durable effect of that input.
THEOREM SuccessIsReal == Spec => []SuccessMeansEffect
BY Invariance, PTL DEF ReceiptInv

\* A request without a receipt has had no effect, or only dispatches that were
\* failed or taken over (orchestration-mutation-executor.ts:244-250).
THEOREM NothingWithoutReceipt == Spec => []NoReceiptNothingOutstanding
BY Invariance, PTL DEF ReceiptInv

-----------------------------------------------------------------------------
(* The bound of the ledger *)

\* Only an insertion, for which ensureMutationReceiptCapacity made room, adds a row.
LEMMA RowsGrowByInsertion ==
  ASSUME ReceiptInv, [Next]_vars
  PROVE  \/ Rows' \subseteq Rows
         \/ \E kept \in SUBSET Rows, r \in Request :
              Cardinality(kept) < MaxRows /\ Rows' \subseteq kept \cup {r}
<1>1. ASSUME NEW r \in Request, NEW kept \in Survivors, NEW p, NEW body,
             HasRoom(kept), Inserted(r, kept, p, body)
      PROVE  \E k \in SUBSET Rows, q \in Request :
               Cardinality(k) < MaxRows /\ Rows' \subseteq k \cup {q}
  BY <1>1 DEF Survivors, HasRoom, Inserted, Rows
<1>2. ASSUME NEW r \in Request, NEW p \in Payload, Call(r, p)
      PROVE  \/ UNCHANGED receipt
             \/ \E kept \in Survivors : HasRoom(kept) /\ Inserted(r, kept, p, "none")
  BY <1>2 DEF Call, CallMismatched, CallJoins, CallReplays, CallUnknown, CallResumes,
     CallBegins, CallStartsWorker
<1>3. ASSUME NEW r \in Request, Step(r)
      PROVE  \/ UNCHANGED receipt
             \/ receipt[r] # None /\ \A s \in Request : s # r => receipt'[s] = receipt[s]
             \/ \E kept \in Survivors : \E q : HasRoom(kept) /\ Inserted(r, kept, q, "accepted")
  <2>1. CASE Accept(r)
    BY <2>1 DEF Accept
  <2>2. CASE receipt[r] = None /\ ~Accept(r)
    <3>1. run[r] # None => run[r].pc = "started" /\ Kind[r] = "workerStart"
      BY <2>2, SoundEverywhere DEF Sound
    <3>2. Throw(r) \/ TakenOver(r)
      BY <1>3, <2>2, <3>1 DEF Step, Effect, Checkpoint, CommitDone, MarkPossible, Record,
         Return, TimeOut, Observed, At, Active
    <3> QED BY <2>2, <3>2 DEF Throw, TakenOver, Discarded
  <2>3. CASE receipt[r] # None /\ ~Accept(r)
    BY <1>3, <2>3, SoundEverywhere DEF TypeOK, Step, Effect, Checkpoint, CommitDone, MarkPossible, Record,
       Return, Throw, TimeOut, Observed, TakenOver, Discarded, Completed
  <2> QED BY <2>1, <2>2, <2>3
<1>4. UNCHANGED receipt => Rows' \subseteq Rows
  BY DEF Rows
<1>5. ASSUME NEW r \in Request, receipt[r] # None,
             \A s \in Request : s # r => receipt'[s] = receipt[s]
      PROVE  Rows' \subseteq Rows
  BY <1>5 DEF Rows
<1> QED BY <1>1, <1>2, <1>3, <1>4, <1>5 DEF Next, Restart, vars

\* The ledger never holds more than MUTATION_RECEIPT_MAX_ROWS receipts
\* (mutation-receipt-capacity.ts:53-79).
THEOREM LedgerStaysBounded == Spec => []LedgerBounded
<1>1. Rows \subseteq Request /\ IsFiniteSet(Request)
  BY FiniteAssumption DEF Rows
<1>2. Init => LedgerBounded
  <2>1. Init => Rows = {}
    BY DEF Init, Rows
  <2> QED BY <2>1, FS_EmptySet DEF LedgerBounded
<1>3. ASSUME ReceiptInv, LedgerBounded, [Next]_vars
      PROVE  LedgerBounded'
  <2>1. IsFiniteSet(Rows) /\ Cardinality(Rows) \in Nat
    BY <1>1, FS_Subset, FS_CardinalityType
  <2>2. CASE Rows' \subseteq Rows
    <3>1. Cardinality(Rows') \in Nat /\ Cardinality(Rows') <= Cardinality(Rows)
      BY <2>1, <2>2, FS_Subset, FS_CardinalityType
    <3> QED BY <1>3, <2>1, <3>1 DEF LedgerBounded
  <2>3. ASSUME NEW kept \in SUBSET Rows, NEW r \in Request,
               Cardinality(kept) < MaxRows, Rows' \subseteq kept \cup {r}
        PROVE  LedgerBounded'
    <3>1. IsFiniteSet(kept) /\ Cardinality(kept) \in Nat
      BY <2>1, FS_Subset, FS_CardinalityType
    <3>2. IsFiniteSet(kept \cup {r}) /\ Cardinality(kept \cup {r}) <= Cardinality(kept) + 1
      <4>1. CASE r \in kept
        <5>1. kept \cup {r} = kept
          BY <4>1
        <5> QED BY <3>1, <5>1
      <4>2. CASE r \notin kept
        <5>1. /\ IsFiniteSet(kept \cup {r})
              /\ Cardinality(kept \cup {r}) = Cardinality(kept) + 1
          BY <3>1, <4>2, FS_AddElement, Zenon
        <5> QED BY <3>1, <5>1
      <4> QED BY <4>1, <4>2
    <3>3. Cardinality(Rows') <= Cardinality(kept \cup {r}) /\ Cardinality(Rows') \in Nat
          /\ Cardinality(kept \cup {r}) \in Nat
      BY <2>3, <3>2, FS_Subset, FS_CardinalityType
    <3> QED BY <2>3, <3>1, <3>2, <3>3 DEF LedgerBounded
  <2> QED BY <1>3, <2>2, <2>3, RowsGrowByInsertion
<1> QED BY <1>2, <1>3, Invariance, PTL DEF Spec
=============================================================================
