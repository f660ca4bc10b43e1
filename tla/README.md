# Orca orchestration in TLA+

Orca runs coding agents in terminals and lets a coordinating agent hand out
tasks. The part of it that has to be right under every interleaving is the
*orchestration database* (`src/src/main/runtime/orchestration`): SQLite tables
written by RPC handlers, by the coordinator loop, by terminal-exit callbacks, by
startup recovery and by the relay that mirrors workers of another machine. This
directory models that core, checks it with TLC and proves its main invariants
with TLAPS. Around the tables it models the three protocols that carry their
commands and messages: the receipts that make a repeated request harmless, the
relay between two servers, and the mailboxes that agents read.

Abbreviations for paths: `O/` is `src/src/main/runtime/orchestration/`, `R/` is
`src/src/main/runtime/rpc/methods/orchestration/`.

## The system

| Component | State it keeps | Operations | What makes it correct |
|---|---|---|---|
| Tasks (`O/db/tasks`) | `tasks.status`, `tasks.deps` | createTask, updateTaskStatus, promoteReadyTasks | dependants are promoted; a completed task is not reopened by a late event |
| Dispatch contexts (`O/db/dispatch-context`) | one row per attempt: status, failure count, assignee, capability | create, fail, complete, mint / revoke a capability | one active attempt per task and per terminal; the circuit breaker counts right |
| Supervised workers (`O/db/worker-dispatch`) | `worker_dispatches.state`, `runtime_epoch` | start, retry, authority, ready, fail, unknown, stop, abandon, recover | worker, dispatch and task rows never contradict each other |
| Worker reports (`O/db/dispatch-context/worker-report-settlement.ts`) | none of its own | settle a `worker_done` | a late report corrects only what nobody superseded |
| Decision gates (`O/db/decision-gates`) | `decision_gates` | create, resolve, re-block | a gate does not steal a task from a live worker |
| Coordinator loop (`O/coordinator*.ts`) | in memory: phase, failed tasks | tick: messages, re-block, stale check, dispatch, convergence | never more than `maxConcurrent` tasks; ends when the DAG settled |
| Federation (`O/db/federation`, `O/federation-sync.ts`) | home: `federated_dispatches`; worker server: attachments, relay items | attach, relay, import, acknowledge, reconcile | each worker message is imported once and in order |
| Mailboxes, run delivery (`O/db/messages`, `O/db/runs`) | messages, deliveries, consumer generations | insert, deliver, acknowledge, take over | a message is acknowledged only by the consumer that got it |
| Mailbox pointers (`O/mailbox-pointer-*.ts`) | pointer state per terminal | stage, write, submit | one prompt per notification |
| Mutation receipts (`O/db/mutation-receipts`) | receipts by caller and request id | reserve, complete, replay | a retried request never doubles what is under way |
| Questions (`O/db/questions`) | threads | ask, reply, close | closed with their dispatch |
| Worker terminal resources (`O/db/worker-terminal`) | owner and lifecycle of terminals | transfer, take over, release | released once, never under a live worker |
| PTY daemon, SSH relay, cloud relay and push, agent-session journal, UI, mobile | their own | | outside this project, see *Not modelled* |

How they interact. Handlers call the database methods directly; each method is
one SQLite transaction (`BEGIN IMMEDIATE` or a savepoint) and either commits all
its rows or throws and leaves them. The Node event loop is single threaded, so a
transaction is atomic with respect to the other handlers of the process; the
*awaits between* transactions (terminal inspection, agent start-up, remote
calls) are where everything else runs. Daemon terminals outlive the runtime, so
a restart keeps the rows and loses only what the handlers held in memory;
`runtime_epoch` tells a row of the present runtime from a stranded one.

What is hard: a stop, an exit, a report, an abandon and a retry of the same
attempt may come in any order; a start may be recorded as failed although the
agent got its prompt; three tables (tasks, dispatches, workers) have to agree and
ten functions write them by hand. `PROJECT.json` lists every such hazard at its
line, with the property that covers it. The protocols around the tables add
crashes between an effect and its receipt, requests that are lost, late or
repeated between two servers that restart independently, and consumers of one
mailbox that are replaced while their checks sleep.

## Modules

| Module | What it is |
|---|---|
| `Orchestration` | tasks, dispatch contexts, supervised workers, reports, decision gates, terminal exits, restart: the core state machine |
| `OrchestrationProperties` | its invariants and action properties, and the inductive invariant `IInv` |
| `OrchestrationProofs` | TLAPS proofs that every step keeps `IInv`, and the theorems that follow |
| `OrchestrationStepProofs` | TLAPS proofs of the action properties and of the refinement |
| `OrchestrationCircuitProofs` | TLAPS proof that a circuit breaks only after three failures |
| `TaskOwnership` | the abstract promise: a task is held through numbered leases |
| `OrchestrationRefinement` | the mapping under which `Orchestration` implements `TaskOwnership` |
| `OrchestrationClaims` | statements of the repository's own text that the code does not keep |
| `MutationReceipts` | the ledger of requests: begin, join, replay, resume, complete, prune, over seven ways in which handlers use it |
| `MutationReceiptsProofs` | TLAPS proofs that a request takes effect at most once, that a told success is real, and that the ledger is bounded |
| `FederatedRelay` | the relay of one federated dispatch: both servers, what is between them, and their failures |
| `RelayChannel` | the abstract promise of the relay: an ordered channel without loss or repetition, live while it is open |
| `FederatedRelayProofs` | TLAPS proofs of the relay's invariants, and that without replaced heartbeats it is the ordered channel |
| `Mailbox` | the mailboxes of a Run and of one of its dispatches, with checks in flight and consumers that change |
| `MailQueue` | the abstract promise of a mailbox: batches, oldest first, replayed until acknowledged, handed back to a new consumer; nothing else is struck off but a message answered and those a report supersedes |
| `MailboxProofs` | TLAPS proofs of the mailboxes' invariants |
| `MailboxQueueProofs` | TLAPS proofs that both mailboxes implement `MailQueue` |
| `NumberLemmas` | least and greatest members of bounded sets of naturals, used by the two |
| `MCOrchestration`, `MCClaims`, `MCReceipts`, `MCRelay`, `MCMailbox` | values of the constants for TLC |

The protocol modules meet the tables in few places, and each models the tables'
side of the meeting as it needs it. `FederatedRelay` keeps the home's dispatch and
worker as one value (`live`, `stopping`, or how it ended): its `Import` of a
report, `Stop` and `StopAnswered` are `SettleWorkerReport`, `BeginWorkerStop` and
`ReconcileFederatedWorkerStop` / `ResumeFederatedWorkerForTerminalRelay` of
`Orchestration`. `Mailbox` keeps of a dispatch whether it is active and which
terminal has it: `Attach` and `Settle` stand for `PrepareStartingWorkerAuthority`
(or the minting of a capability) and for whatever settles it. Requests between
servers and from agents pass through `MutationReceipts`; `FederatedRelay` carries
the one receipt that its protocol depends on, that of an acknowledgement. A
product of the modules is out of TLC's reach and would add no interaction beyond
these.

### The tables: state

`Orchestration` keeps one function per column that control depends on.

| Variable | Column |
|---|---|
| `taskStatus` | `tasks.status`; `"absent"` before the row exists |
| `rows` | how many `dispatch_contexts` rows were inserted; a dispatch is its rowid, so "newest row of the task" is the greatest number |
| `dispTask`, `dispStatus`, `failures`, `assignee` | `task_id`, `status`, `failure_count`, `assignee_handle` with its pane |
| `stalled` | `last_failure` is the `agent_prompt_stalled` text, the one value the code branches on |
| `capability` | `"none"` no `capability_hash`; `"valid"`; `"revoked"` once `capability_revoked_at` is set |
| `worker`, `ownEpoch` | `worker_dispatches.state`; whether `runtime_epoch` is that of the runtime alive now |
| `placement` | `"federated"` when a `federated_dispatches` row exists |
| `gateStatus`, `gateTask` | `decision_gates` |

### The tables: actions

Each action is one transaction, named after its function, with the function's
early returns and thrown errors as guards (a thrown error rolls the transaction
back, so the action is disabled). Inner calls are part of the action:
`updateTaskStatus` settles the task's active dispatches and promotes dependants,
`failDispatch` revokes, counts and moves the task, `settleWorkerReport` settles
siblings. What interleaves is the transactions of different handlers; the model
imposes no order on a handler's transactions beyond the guards of the code and
three facts about the caller, which are conjuncts of the action:

- a start or stop handler lives in the runtime that created the row, so its
  later steps need `ownEpoch` (the exceptions are worker-show, which settles the
  rows of dead runtimes, and worker-stop, which takes over a stranded stop);
- a local start is marked ready, or failed on a stalled prompt, only after the
  terminal was attached (`assignee # None`): the handler does these in sequence;
- minting a capability for `dispatch --inject` happens in the same turn of the
  event loop as the insert, so it is part of `CreateDispatchContext`.

| Action | Code |
|---|---|
| `CreateTask`, `TaskUpdate`, `UpdateTaskStatus` | `O/db/tasks/task-store.ts`, `O/db/tasks/task-status-transition.ts`, RPC `orchestration.taskUpdate` |
| `CreateDispatchContext`, `InsertRow` | `O/db/dispatch-context/dispatch-context-store.ts`, `O/db/dispatch-row-writer.ts` |
| `FailDispatch`, `PromptFailure`, `Escalation`, `TerminalExit` | `dispatch-completion.ts` failDispatch and its callers |
| `ReleaseContextOnlyDispatch` | `O/context-only-dispatch-release.ts` |
| `StartWorker`, `RetryWorker` | `O/db/worker-dispatch/worker-dispatch-start.ts` |
| `PrepareStartingWorkerAuthority` | `worker-dispatch-authority.ts` |
| `MarkWorkerDispatchReady`, `FailWorkerStart`, `MarkWorkerStartUnknown` | `worker-dispatch-outcome.ts` |
| `ReconcileFederatedWorker...` | `federated-worker-start-reconcile.ts` |
| `BeginWorkerStop`, `SettleWorkerStop`, `ReconcileFederatedWorkerStop`, `MarkWorkerStopUnknown`, `ResumeFederatedWorkerForTerminalRelay` | `worker-dispatch-stop.ts` |
| `AbandonWorkerDispatch`, `ReconcileMissingWorkerTerminal` | `worker-dispatch-abandon.ts`, `worker-terminal-recovery.ts` |
| `SettleWorkerReport` | `worker-report-settlement.ts` |
| `CreateGate`, `ResolveGate`, `ReblockTaskWithPendingGate` | `decision-gate-store.ts`, `O/coordinator-decision-gates.ts` |
| `Restart` | the runtime epoch compared in worker-show and worker-stop |

In `Orchestration` the worker server of a federated dispatch may answer anything
at any time, so that module has *more* behaviours than the system there, and what
is proved holds for the system too; the protocol itself is `FederatedRelay`.

### Mutation receipts

A mutation arrives with the caller's request id. `beginMutationReceipt` inserts a
pending row or refuses, joins, replays or resumes (`Call...`), the handler runs,
and the executor (`src/src/main/runtime/rpc/orchestration-mutation-executor.ts`)
completes, keeps or discards the row (`Return`, `Throw`, `TimeOut`, `Observed`).
The executor depends on a handler only through the moment at which its effect
becomes durable relative to the receipt, so a request has a `Kind`: mail, a local
report, a report of a remote attachment, a worker start, a dispatch to a running
agent, a release, or a prompt typed into a terminal. `receipt` is the table, `run` the
in-flight map with its handler, `starting` counts the dispatches a request has created
and not finished bringing up; `effects`, `appliedTo`, `answers` and `forgotten` are
history. `Restart` loses `run` between any two steps.

While a worker start waits for its terminal and its agent, `worker-abandon`,
`worker-stop`, an exit or a report may move its row out of `starting` (`TakenOver`).
A start that fails afterwards cannot record its outcome: `failWorkerStart` and
`markWorkerStartUnknown` throw `dispatch_inactive`, and the executor discards the
pending receipt as after any plain failure (`Throw`, `OutcomeRefused`). A retry then
acts a second time, so what the code keeps is not "at most once" for such requests.
`AtMostOneEffect` and `NoReceiptNothingOutstanding` say what it does keep: sends,
reports and prompts take effect at most once, and requests that start a worker have at
most one dispatch that nobody else has taken over. `claim_duplicate` shows the
rest.

### The relay of a federated dispatch

| Part | Variables | Code |
|---|---|---|
| execution host | `attachment`, `queue`, `receipts`, `downImported`, `epoch`, `supported` | `remote_dispatch_attachments`, `federation_relay_items`, `R/federation/federation-relay.ts`, `O/db/federation/*` |
| Run home, durable | `protocol`, `home`, `inbox`, `imported`, `homeAcked`, `homeEpoch`, `downSent`, `downAcked` | `federated_dispatches` and the mail it imported |
| Run home, volatile | `sync`, `cached`, `checkpoint` | `O/federation-sync.ts`, the peer capability cache, the acknowledgement checkpoints |
| between them | `wire` | calls with a timeout of 15 s |

One sync goes `Pull`, one `Import` for each item (a transaction of its own),
`Acknowledge`, `AckAnswered`, the coordinator's mail (`HandleDown`,
`DownAnswered`), and the next page or the end. `Refused`, `ImportFails` and
`TimeOut` are its error paths. Failures: either server restarts between any two
steps, the host as a version with or without support for settlements; a request
is given up because it, or its answer, is lost, or is executed after the home gave
it up (`GiveUp`).

### Mailboxes

`messages` and `deliveries` are the tables; `runPane`, `runGen`, `workerPane`,
`workerGen` say who may consume; `calls` are the checks in flight. A check is
interrupted between two pages of routing (`schemas.ts` yieldToEventLoop) and while
it waits; `Start`, `Route`, `Proceed`, `Awake` and `Forward` are the stretches
between. `Bind`, `Unbind` and `Attach` replace a consumer and fence its
deliveries, `Settle` ends the dispatch, `End` is a time-out or a closed connection,
`Restart` loses the checks. Mail is struck off without a delivery by `Reply` (which
also marks the message answered as read, and puts the answer under the handle its
sender gave) and by `Report` (an accepted `worker_done` supersedes the heartbeats
before it); `Nudge` wakes a dispatch's waiters when only its question was answered. A
caller may have missed any answer, or remember an old one, so a check may name any
delivery there is as the one it acknowledges.

Definitions whose comment begins with "Mutant:" are deliberately wrong variants
of the definition that follows them. No specification uses them; putting one in
place of its neighbour must make a named property fail, which shows that the
property depends on that line of code.

## Runs

| Run | Instance | Checks |
|---|---|---|
| `retries` | 1 task, 1 terminal, 1 gate, local and federated, 3 dispatches | `TypeOK`, `TaskMirrorsDispatch`, `ActiveDispatchIsNewest`, `CircuitNeedsThreeFailures`, `BlockedMeansUncertain`, `SupervisionMatchesDispatch`, `CompletedTaskIsSticky`, `SettledDispatchIsFinal` |
| `terminals` | 2 tasks in a chain, 2 terminals (symmetric), local and federated, 2 dispatches | `OneActiveDispatchPerTerminal`, `CapabilityEndsWithDispatch`, `IInv`, `NoStrandedChild`, `SupervisedOwnership`, `OwnershipSpec` |
| `claim_gate`, `claim_circuit` | 1 task, 1 terminal, local | each finds its statement violated |
| `receipts` | 7 requests, one of each kind, 2 payloads (symmetric), 2 rows, 3 calls, 2 restarts | `AtMostOneEffect`, `LedgerBounded`, `SuccessMeansEffect`, `NoReceiptNothingOutstanding` |
| `claim_duplicate` | 1 worker start, 2 calls, no restart | finds its statement violated |
| `relay_faults` | protocol 3, 3 items over a quota of 2, 1 mail down, 1 fault, 1 restart of each server, support changing | `TypeOK`, `AckedMeansImported`, `WatermarkIsAcked`, `HomeDecides`, `DownAckedMeansImported`, `RelayInv` |
| `relay_settled` | protocols 2 and 3, 2 items, 2 mails down, 1 fault, 1 restart of the home | `ChannelInv`, `OrderedChannel`, `ImportedIsAcked`, `DownMailArrives`, `PlainRelayRests` |
| `relay_quota`, `relay_request_id` | protocol 3, host always supports settlements | each finds its statement violated |
| `mail_queues` | 1 check at a time, 3 terminals (symmetric), 3 messages, pages and batches of 2, 1 change of consumer | `TypeOK`, `MailInv`, `RunQueue`, `DispatchQueue` |
| `mail_checks` | 2 checks, 2 terminals, 1 message of either kind, pages of 1, 1 change of consumer | `AcknowledgedOnce`, `OutstandingIsCurrent`, `RunWaiterIsCurrent`, `ErrorMeansNothingAcknowledged`, `WaiterIsWoken` |

**Bounds of the tables.** `MaxDispatches` is the only bound of that model; rows are
never deleted, so some bound is needed. Three attempts are the least at which a
circuit can break and at which a retry can be retried; two are the least at which
attempts compete for a terminal. Two tasks are the least with a dependency; since an operator may set the dependant
to `ready` before its dependency is done, they also compete for the terminals. One
terminal makes contention certain, two allow a dispatch to move on; one gate is
enough for the re-opening of an old gate, since a gate can be resolved repeatedly.
A gate with two tasks is left to the proofs: it takes TLC longer than five minutes.
These properties are proved for all bounds anyway, so the runs matter for finding
what is false before a proof is tried, for the violated claims, and for showing
that a changed definition is noticed. Deadlock is checked there (a runtime with rows
can always restart or be told something).

**Bounds of the protocols.** These runs turn deadlock checking off, because their
systems really stop: every bounded call made, every item acknowledged, nothing
left to send.

- *Receipts.* Three calls allow a call, a retry that joins or replays, and a third
  after that; two restarts put one inside a run and one inside its resumption. Two
  rows for seven requests keep the ledger full, with a batch of one pruned at a time.
  A start that loses its receipt and the retry that starts a second worker take two calls.
- *Relay.* A page holds two items (50 in the code) and a sync of `relay_faults`
  has one page (6 in the code), so the last page of a sync, where the code
  under-records on purpose, and a full page are reached with three items. A quota
  of two (256 in the code) is passed by the third item. One fault is enough for
  an answer that is lost, a request that is lost, and a request that is executed
  after the next sync has begun. `relay_settled` has two pages in a sync, and two
  mails down so that one is queued while the request for the other is out.
  `relay_settled` lets the host keep one runtime: with a restarting host the defect
  that `relay_request_id` shows leaves imports at protocol 3 unacknowledged, and
  `ImportedIsAcked` does not hold.
- *Mailboxes.* Two terminals are the coordinator's and the worker's and may swap
  roles; a third gets mail before it becomes a consumer, which is what has to be
  routed. With one message every overlap of two checks and a change of consumer
  concerns the same mail; with three, a page and a batch of two (50 in the code) have
  a rest, and the interruption between two pages is reached. Restarts are not bounded.
  `Reply` needs a message to answer and room for the answer, so it is exercised by
  `mail_queues` alone. A second change of consumer, and more messages under two checks,
  exceed what TLC finishes in five minutes; two messages of one kind under two checks
  take eleven, and there every property of `mail_checks` holds as well.

**Fairness.** `Orchestration` and `MutationReceipts` have none: nothing in the code
makes operators, agents or callers act, and their properties are safety. In
`FederatedRelay` a timer of one second syncs every eligible dispatch
(`runtime-orchestration-federation.ts:170-197`), concurrent requests for a sync are
coalesced into one (129-159), each step of a sync follows the last, and a request
that is not lost is handled: weak fairness of `HomeStep` and of `HostStep`. Nothing is
assumed of the worker, the coordinator, a stop, or restarts. In `Mailbox` the event
loop resumes every continuation (`schemas.ts:34-51`): weak fairness of each check's
`RuntimeStep`. No agent has to check and no timeout has to fire.

**What the liveness properties say.** `OrderedChannel` is a refinement *with*
fairness: while the dispatch is synced, what the worker queued reaches the home, in
order and once. `ImportedIsAcked` survives lost answers and restarts of the home because
an unacknowledged import keeps a settled dispatch eligible and is asked for again;
`PlainRelayRests` adds that below protocol 3 the home learns of it, so that the syncs of
a settled dispatch end. `WaiterIsWoken`
compares every wait with every way in which mail enters a mailbox (arrival, an answer,
routing at a rebinding, forwarding from a settled dispatch), for a Run and a dispatch
in different terminals; the last remark below says what happens in one terminal.

What the violated statements show:

- `claim_gate`: a task with a pending gate can be dispatched again (by
  `taskUpdate`, by `worker-start --retry-of`, or when a second gate on it is
  resolved). The coordinator's re-block then throws `task_not_startable`; the
  throw leaves `tick`, and the run is recorded as failed.
- `claim_circuit`: rows of `worker-start` begin at `failure_count` 0, so the
  documented "three consecutive failures" never break the circuit of a supervised
  task.
- `claim_duplicate`: the start of a worker is accepted, its dispatch is taken over while
  the start still waits, the start throws and its receipt is discarded; the same request
  id then starts a second worker, where the guide for coordinators promises a replay
  (`skill-guides/orchestration/references/recovery-and-cleanup.md:77-79`).
- `relay_quota`: at the quota a report takes the row of the oldest unacknowledged
  heartbeat, sequence included. When the home has imported that sequence already,
  the report is never imported: every replay throws, and below protocol 3 it is
  never pulled.
- `relay_request_id`: the request id of an acknowledgement names the dispatch and the
  last sequence of the page, not what is acknowledged or settled. When the host has
  restarted, a page with a report behind another message is imported while the cached
  capability is that of the old epoch: the acknowledgement stops before the report but
  takes the report's sequence for its id. The one that later settles the report has the
  same id and another payload, and the host refuses it as a mismatch on every sync. A
  lost answer to an acknowledgement with settlements ends the same way. `PlainRelayRests`
  is what remains true: without settlements the relay comes to rest.

Seen while modelling, without a run of their own:

- A worker in `start_unknown`, `stop_unknown` or a dead runtime's `stopping` whose
  terminal exits leaves its task `blocked`, while the escalation says that the task
  is ready to be dispatched again
  (`orca-runtime-subscribe-to-terminal-resize.ts:126`).
- `check-worker.ts:146-167` looks at the caller's pane only after the last page of
  routing; a dispatch attached to another terminal in between receives the rest of
  the old terminal's direct mail.
- Routing announces what it moved only at its end. When one terminal is both the Run's
  and the dispatch's, mail stays under its bare handle while the dispatch is active; once
  the dispatch settles, a later check moves that mail into the Run's mailbox, and when
  that check is aborted or fails the Run's waiter is not told and sleeps until its
  time-out. `WaiterIsWoken` therefore assumes two terminals.
- `orchestration.reply` (`R/messaging/message-methods.ts:113-125`) does not call
  `assertDispatchMailboxDeliverable` (`recipient-routing.ts:16-27`), which refuses new
  mail to a settled dispatch. An answer can land in such a mailbox, where it stays until
  the old worker checks once more and has its mail forwarded. The model has the step, and
  `DispatchQueue` allows it.

## Proofs

TLAPS checks every statement below for all values of the constants. For the tables the
assumptions are the four named in `Orchestration`: `Deps` maps tasks to sets of
tasks, `MaxDispatches` is a natural number, `Placements` names only the two
placements, and `None` is no task and no terminal. Nothing is assumed of the
dependency graph (not even that it has no cycle), of the number of tasks,
terminals and gates, or of finiteness. `MutationReceipts` assumes that `Kind` gives
each request one of the seven kinds, that the limits and bounds are natural numbers,
that `None` is no row and no run, and that the set of requests is finite (which
`LedgerStaysBounded` needs to count rows). `FederatedRelay` assumes that pages, a
sync and the quota hold at least one item, that `Protocols`, `Kinds` and `Supports` are
sets of protocol versions, kinds and truth values, and that the bounds are natural
numbers with at least one runtime of the host; three theorems have one
hypothesis more, named below. `Mailbox` assumes that a page holds at least one message,
that `NoPane` is no terminal and no terminal is called as a mailbox, and that its bounds
are natural numbers; nothing of the number of terminals or checks, or of finiteness.

| Theorem | Module | States |
|---|---|---|
| `Invariance` | `OrchestrationProofs` | `[]IInv` |
| `TypeCorrect`, `OneAttemptAtATime`, `TablesAgree`, `BlockedIsUncertain`, `WorkersMatchDispatches`, `TerminalsAreExclusive`, `CapabilitiesEnd` | `OrchestrationProofs` | the invariants `TypeOK`, `ActiveDispatchIsNewest`, `TaskMirrorsDispatch`, `BlockedMeansUncertain`, `SupervisionMatchesDispatch`, `OneActiveDispatchPerTerminal`, `CapabilityEndsWithDispatch` |
| `WorkersOwnTheirTasks`, `CompletedTasksStay`, `ChildrenArePromoted`, `SettledDispatchesStay` | `OrchestrationStepProofs` | the action properties `SupervisedOwnership`, `CompletedTaskIsSticky`, `NoStrandedChild`, `SettledDispatchIsFinal` |
| `ImplementsOwnership` | `OrchestrationStepProofs` | `Spec => OwnershipSpec`, the refinement of `TaskOwnership` |
| `CircuitBreaksOnThree` | `OrchestrationCircuitProofs` | `CircuitNeedsThreeFailures` |
| `Invariance` | `MutationReceiptsProofs` | `[]ReceiptInv` |
| `EffectsHappenOnce`, `SuccessIsReal`, `NothingWithoutReceipt`, `LedgerStaysBounded` | `MutationReceiptsProofs` | `AtMostOneEffect`, `SuccessMeansEffect`, `NoReceiptNothingOutstanding`, `LedgerBounded` |
| `RelayInvariance` | `FederatedRelayProofs` | `[]RelayInv` |
| `RelayTypes`, `AckedIsImported`, `WatermarkHolds`, `OnlyHomeDecides`, `DownAckedIsImported` | `FederatedRelayProofs` | `TypeOK`, `AckedMeansImported`, `WatermarkIsAcked`, `HomeDecides`, `DownAckedMeansImported` |
| `ChannelInvariance`, `RelayIsOrdered`, `ImportedHasItsMessage` | `FederatedRelayProofs` | under `NoReplacement`: `[]ChannelInv`, `Spec => Channel!Safe` (the safety part of `OrderedChannel`), `[]CommittedWithItsMessage` |
| `MailInvariance` | `MailboxProofs` | `[]MailInv` |
| `MailTypes`, `NothingAcknowledgedTwice`, `OutstandingBelongsToConsumer`, `WaiterBelongsToConsumer`, `ErrorHidesNoAcknowledgement` | `MailboxProofs` | `TypeOK`, `AcknowledgedOnce`, `OutstandingIsCurrent`, `RunWaiterIsCurrent`, `ErrorMeansNothingAcknowledged` |
| `RunMailboxIsQueue`, `DispatchMailboxIsQueue` | `MailboxQueueProofs` | `Spec => RunQueue`, `Spec => DispatchQueue`, the refinements of `MailQueue` |

**Why one invariant.** None of the invariants is inductive by itself. A retry asks
only for the newest row, its worker's state and the task's status; that no other
attempt is active then needs `ActiveDispatchIsNewest` (nothing older is active)
and `SupervisionMatchesDispatch` (the newest is not active because its worker is
settled). A first dispatch asks only for a `ready` task; that nobody holds it is
`TaskMirrorsDispatch`. A stop handler leaves the task `blocked` and later expects
to find it so: `BlockedMeansUncertain`. Handlers that look at the worker alone
(ready, failed start, stop) write the dispatch, and it is
`SupervisionMatchesDispatch` and `RowsWellFormed` that say which status it has.
`CapabilityEndsWithDispatch` and `OneActiveDispatchPerTerminal` lean on the
others. `IInv` is their conjunction with the types, and it is checked by the run
`terminals` as well.

**The argument.** There are twenty-eight actions, but every step has one of four
shapes (`StepShape`): it writes the rows of one dispatch and of its task while no
other dispatch of the task is active (`DispatchShape`), it writes a task that
nobody holds (`TaskShape`), it inserts a dispatch for such a task
(`InsertShape`), or it changes only epochs (`QuietShape`). Each action has a
lemma that finds its shape from `IInv` and the action's guards (this is where
the code's conditions matter); each shape has a lemma that it preserves `IInv`.
The action properties and the refinement then follow from the shapes alone:
`InsertShape` is a lease granted, `DispatchShape` a lease ended, a free task
recorded, or nothing, `TaskShape` a free task recorded.

**The circuit.** Counts are carried from row to row as a maximum, so
`CircuitNeedsThreeFailures` needs an invariant about sets of rows: `CountInv`
says that the count of a dispatch is at most the number of dispatches of its task,
up to it, that failed *for good*. A stalled start is left out of that number
because a report may still turn it into a completion, and indeed no path counts
it. The proof shows that this set only grows, that every counted failure
adds its own dispatch to it, and that an inherited count is covered by the rows
it came from.

**The receipts.** `AtMostOneEffect` is not inductive: that a resumed handler has
nothing outstanding depends on what its row says, and that the row says so depends on where
the handler was when the runtime died. `ReceiptInv` therefore relates the place of
every handler to its row (`RunInv`), a completed row and a told success to a
durable effect of that payload (`PayloadInv`), and every place from which a handler
may still act, or from which a restart lets it resume, to nothing outstanding
(`OnceInv`). A handler that throws is the case where the code's conditions matter
(`ThrowKeeps`): it leaves a receipt, no effect, or a dispatch that has ended. It speaks of one request at a time (`SoundEverywhere`), so each
action has a lemma about the request it touches, and `OneRequest` carries the others.
The bound of the ledger is an argument of its own: a step that adds a row is an
insertion that first made room (`RowsGrowByInsertion`).

**The relay.** That an item struck off is at home says nothing of an acknowledgement
that is still on its way, and each is built from a page that may be old when it is
built, older when the host executes it, and answered after the home gave it up.
`RelayInv` therefore follows it: the marked items are a prefix of the queue, within what
the home imported (`PrefixInv`, `QueueInv`), a page, a request on the wire, the
host's receipt and the answer each claim no more than the tables hold, and an accepted
settlement on its way is the home's own verdict. The steps of the home other than an
import leave the host and the imported mail alone, and share a lemma (`HomeMoves`); those
of the host share `HostMoves` and `SyncStays`.

**The ordered channel** needs a hypothesis, `NoReplacement`: no heartbeats are sent, or
the quota is at least the number of messages. It is not an idle one. With a heartbeat
and a full quota a report takes the heartbeat's row, and `relay_quota` shows a state in
which the home holds the sequence without the message. `ImportedHasItsMessage` is the
converse: without a replacement that state is never reached, so the replacement is the
only cause. Under the hypothesis `ChannelInv` says that the mail at home *is* the first
part of the queue, and that a page names the items it was read from, however many were
sent since; every step then puts a message, delivers one, opens or closes the channel, or
rests. `relay_settled` checks the same refinement with its fairness.

**The mailboxes.** That no message is acknowledged twice is not inductive: a delivery may
have been made, fenced and made again of the same mail. `MailInv` says that a mailbox
has at most one outstanding delivery with unread mail, that it is of the present
generation and its mail is where it was, and that two live deliveries (acknowledged, or
outstanding in a mailbox somebody may still read) share no mail. A delivery all of whose
mail was answered stays in the table as outstanding but no longer blocks the mailbox,
which is why the clause speaks of unread mail, as the view `outstanding_deliveries`
does. Of the checks in flight it says what they may rely on after an await: little more
than that the delivery they name exists and that only the mail of a dispatch that ended
is being forwarded. Everything else they look up again, and the proof of `Proceed` and
`Awake` is where those second looks (`Holds`, `StillConsumer`) are needed.

**The queues.** Both refinements are proved at once, for a mailbox `box`. The batch is the
unread mail of the one outstanding delivery, so an acknowledgement strikes off the batch
and nothing else, and the next batch is the oldest of the rest. A step that moves mail in
from a bare handle, strikes off one message or a set of old ones, or works on the other
mailbox is covered by `QueueStays`.

**Only model-checked.** Liveness under fairness, which the prover does not do:
`ImportedIsAcked`, `DownMailArrives`, `PlainRelayRests`, `WaiterIsWoken`, and the
fairness of `OrderedChannel`. The violated statements, which are about particular
behaviours. All other properties of the runs are proved; of `OrderedChannel` the safety
part, under `NoReplacement`, which the run's instance satisfies (it sends no
heartbeats).

## Not modelled

*Inside the modelled components.* Text, timestamps, listing and pagination of
listings; nesting depth and run membership of a dispatch; heartbeats in the tables
(they change no status); `timeoutGate`, which has no caller in the program; legacy
runs, resets and schema migrations, which rewrite stored rows once. Of the relay: the
start of an attachment, the quota in bytes, questions across servers, terminal
history, a change of the peer's identity, and the fence that keeps an old observation
of a remote worker from being projected (the tables let it come at any time). Of the
mailboxes: reading without consuming, terminals with neither Run nor dispatch, legacy
coordinators, mail that is inserted read, attachments of another server's dispatches. Of the receipts: the
terminal incarnation bound into a prompt's hash.

*Steps that are coarser, or looser, than the code.* None of the properties depends on
them. `Pull` is the status probe and the pull of a sync in one step, and only of an
eligible dispatch, although a sync may be asked for explicitly. `Verdict` accepts the
replay of a settled report even when an operator has changed the task since, where the
code answers with a rejection, which settles no attachment. `Reply` may leave an answer
under a former coordinator's handle that a trigger moves to the Run
(`run-coordinator-mail-routing.ts:23-48`). `Proceed` acknowledges and hands out in one
step: two transactions, with no await between them. A check that is aborted announces
what it had routed (`check-worker.ts:127`); `Forward` leaves these extra wake-ups out.

*Components left out.* The coordinator loop writes the tables only through actions
of `Orchestration`, which may take them at any time; what is its own (the order of a
tick, slots, convergence) is not modelled, and nothing in the code promises that a run
ends. Pointers typed into terminals, questions and the custody of terminals are
protocols of the same size as the three above. The PTY daemon, the SSH relay, the
cloud services, agent sessions and the user interface share no state with the
orchestration tables and are mostly I/O. Each is listed in `PROJECT.json` with its
reason.

## Plan

1. *Done*: the core tables, their invariants, the abstract ownership and the proofs.
2. *Done*: `MutationReceipts` with its proofs, `FederatedRelay` with `RelayChannel`,
   `Mailbox` with `MailQueue`.
3. *Done*: theorems for the relay and the safety part of its channel.
4. *Done*: theorems for the mailboxes and the refinement of their queues.
5. Left to prove: a form of the ordered channel that holds without `NoReplacement` (what
   the home has is an ordered part of what was queued, with the replaced heartbeats
   missing).
6. Candidates for later modules: custody of worker terminals, questions, the
   coordinator's tick.
