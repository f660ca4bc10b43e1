--------------------------- MODULE FederatedRelay ---------------------------
(***************************************************************************)
(* The relay of one federated dispatch: a worker on another Orca server    *)
(* queues its mail and its final report, the Run home pulls and imports    *)
(* them, settles the report and acknowledges, and pushes the coordinator's *)
(* own mail the other way (federation-sync.ts at home, federation-relay.ts *)
(* and the table federation_relay_items on both servers).                  *)
(*                                                                         *)
(* What runs between two awaits is one action, except that every import is *)
(* a transaction of its own and so an action of its own.  Failures: either *)
(* server restarts between any two steps; a request is lost, answered too  *)
(* late for the home to hear, or executed after the home gave it up.       *)
(*                                                                         *)
(* Kinds of mail: a status (any mail without a settlement), a heartbeat,   *)
(* and a worker_done, named by its outcome.  Left out: texts, the contents *)
(* of a heartbeat (a heartbeat that only refreshes an unacknowledged one   *)
(* is no step), byte quotas (the count quota stands for both), a           *)
(* change of the peer, reports the home finds malformed, and the two       *)
(* events of a dispatch other than a report and a stop.                    *)
(***************************************************************************)
EXTENDS Integers, Sequences, FiniteSets

CONSTANTS
  Protocols,    \* protocol versions the two servers may have agreed on
  Supports,     \* whether an execution host offers settlements: SUBSET BOOLEAN
  PageSize,     \* FEDERATION_PULL_PAGE_SIZE
  MaxPages,     \* MAX_FEDERATION_PULL_PAGES_PER_SYNC
  Quota,        \* unacknowledged items one direction may hold
  Kinds,        \* kinds the worker sends
  MaxSent,      \* bound: mail of the worker
  MaxDown,      \* bound: mail of the coordinator
  MaxFaults,    \* bound: requests given up by the home
  MaxEpoch,     \* bound: runtimes of the execution host
  MaxRestarts   \* bound: restarts of the home

ReportKinds == {"succeeded", "failed"}
AllKinds == ReportKinds \cup {"status", "heartbeat"}
ASSUME ProtocolAssumption == Protocols \in (SUBSET (1..3)) \ {{}}
ASSUME SupportAssumption == Supports \in (SUBSET BOOLEAN) \ {{}}
ASSUME PagesAssumption == {PageSize, MaxPages, Quota} \subseteq Nat \ {0}
ASSUME KindsAssumption == Kinds \subseteq AllKinds
ASSUME BoundsAssumption ==
  {MaxSent, MaxDown, MaxFaults, MaxEpoch, MaxRestarts} \subseteq Nat /\ MaxEpoch > 0

VARIABLES
  \* the execution host
  attachment,   \* state of the remote dispatch attachment
  queue,        \* items to_home, by sequence: [msg, kind, acked]
  receipts,     \* completed receipts of federationAck, by their request id
  downImported, \* to_worker_imported_sequence
  epoch,        \* number of its runtime
  supported,    \* whether that runtime offers settlements
  sent,         \* messages sent so far; the next one's id
  \* the Run home, durable
  protocol,     \* protocol_version, the same in the host's attachment
  home,         \* the dispatch and its worker row
  inbox,        \* relayed mail in import order
  imported,     \* to_home_imported_sequence
  homeAcked,    \* to_home_acknowledged_sequence
  homeEpoch,    \* remote_runtime_epoch
  downSent,     \* items queued to_worker
  downAcked,    \* of those, acknowledged
  \* the Run home, volatile
  sync,         \* the sync of the dispatch
  cached,       \* cached capability of the peer, or NoCapability
  checkpoint,   \* acknowledgement checkpoint: [epoch, through]
  \* between them
  wire,         \* requests on their way to the host
  faults, restarts

hostVars == <<attachment, queue, receipts, downImported, epoch, supported, sent>>
rowVars == <<inbox, imported, home>>
dispatchRow == <<protocol, homeAcked, homeEpoch>>
downVars == <<downSent, downAcked>>
bounds == <<faults, restarts>>
vars == <<hostVars, rowVars, dispatchRow, downVars, sync, cached, checkpoint, wire, bounds>>

NoCapability == [epoch |-> 0, supported |-> FALSE]
NoCheckpoint == [epoch |-> 0, through |-> 0]
NoRequest == [to |-> "none"]
Idle == [pc |-> "idle"]

Item == [msg : 1..MaxSent, kind : AllKinds, acked : BOOLEAN]
Settlement == [seq : 1..MaxSent, action : ReportKinds \cup {"rejected"}]
AckRequest == [to : {"ack"}, id : 0..MaxSent, through : 0..MaxSent,
               settlements : SUBSET Settlement]
DownRequest == [to : {"import"}, through : 1..MaxDown]
PageItem == [seq : 1..MaxSent, msg : 1..MaxSent, kind : AllKinds]

\* A sync between two pages, and one at work on a page
NextSync == [pc : {"next"}, pages : 1..MaxPages]
BusySync ==
  [pc : {"importing", "waiting", "answered"}, pages : 1..MaxPages,
   page : Seq(PageItem), full : BOOLEAN, epoch : 1..MaxEpoch, settling : BOOLEAN,
   cursor : 0..MaxSent, barrier : 0..MaxSent, settlements : SUBSET Settlement,
   request : AckRequest \cup DownRequest \cup {NoRequest},
   answer : {"none", "ok", "refused"}]

TypeOK ==
  /\ attachment \in ReportKinds \cup {"ready", "stopped"}
  /\ queue \in Seq(Item) /\ Len(queue) <= MaxSent
  /\ \A id \in DOMAIN receipts : id \in 0..MaxSent /\ receipts[id] \in AckRequest
  /\ downImported \in 0..MaxDown
  /\ epoch \in 1..MaxEpoch /\ supported \in Supports
  /\ sent \in 0..MaxSent
  /\ home \in ReportKinds \cup {"live", "stopping", "stopped"}
  /\ inbox \in Seq([msg : 1..MaxSent, kind : AllKinds]) /\ Len(inbox) <= MaxSent
  /\ imported \in 0..MaxSent /\ homeAcked \in 0..MaxSent
  /\ homeEpoch \in 0..MaxEpoch
  /\ protocol \in Protocols
  /\ downSent \in 0..MaxDown /\ downAcked \in 0..MaxDown
  /\ sync \in {Idle} \cup NextSync \cup BusySync
  /\ cached \in [epoch : 0..MaxEpoch, supported : BOOLEAN]
  /\ checkpoint \in [epoch : 0..MaxEpoch, through : 0..MaxSent]
  /\ wire \subseteq AckRequest \cup DownRequest
  /\ faults \in 0..MaxFaults /\ restarts \in 0..MaxRestarts

Init ==
  /\ attachment = "ready" /\ queue = << >> /\ receipts = << >>
  /\ downImported = 0 /\ epoch = 1 /\ supported \in Supports /\ sent = 0
  /\ home = "live" /\ inbox = << >> /\ imported = 0
  /\ protocol \in Protocols /\ homeAcked = 0 /\ homeEpoch = 1
  /\ downSent = 0 /\ downAcked = 0
  /\ sync = Idle /\ cached = NoCapability /\ checkpoint = NoCheckpoint
  /\ wire = {} /\ faults = 0 /\ restarts = 0

\* From protocol 3 a report is settled at home
Settles == protocol >= 3

MaxOf(a, b) == IF a >= b THEN a ELSE b
Least(S) == CHOOSE s \in S : \A t \in S : s <= t

-----------------------------------------------------------------------------
(* The execution host *)

Unacked == {s \in DOMAIN queue : ~queue[s].acked}
Heartbeats == {s \in Unacked : queue[s].kind = "heartbeat"}
NewItem(k) == [msg |-> sent + 1, kind |-> k, acked |-> FALSE]

(* sendRemoteMessage checks the capability, which lasts as long as the     *)
(* attachment is ready, and enqueueFederationRelay queues the item.  Below *)
(* protocol 3 the attachment takes the outcome at once.                    *)
Send(k) ==
  /\ sent < MaxSent
  /\ attachment = "ready"
  /\ k = "heartbeat" => Heartbeats = {}
  /\ \/ /\ Cardinality(Unacked) < Quota
        /\ queue' = Append(queue, NewItem(k))
     \/ /\ Cardinality(Unacked) >= Quota   \* a report takes a heartbeat's place
        /\ k \in ReportKinds /\ Heartbeats # {}
        /\ queue' = [queue EXCEPT ![Least(Heartbeats)] = NewItem(k)]
  /\ sent' = sent + 1
  /\ attachment' = IF k \in ReportKinds /\ ~Settles THEN k ELSE attachment
  /\ UNCHANGED <<receipts, downImported, epoch, supported, rowVars, dispatchRow,
                 downVars, sync, cached, checkpoint, wire, bounds>>

\* federationStop: a ready attachment stops, a settled one says so
StopArrives ==
  /\ home = "stopping"
  /\ attachment = "ready"
  /\ attachment' = "stopped"
  /\ UNCHANGED <<queue, receipts, downImported, epoch, supported, sent, rowVars,
                 dispatchRow, downVars, sync, cached, checkpoint, wire, bounds>>

(* acknowledgeFederationRelay accepts: each settlement names a queued      *)
(* report with its outcome, at protocol 3 no report is passed over, and    *)
(* the outcomes agree with each other and with the attachment.             *)
AckAllowed(q) ==
  LET named == {t \in q.settlements : t.seq <= q.through}
      outcomes == {t.action : t \in named} \ {"rejected"}
  IN  /\ \A t \in named :
           /\ t.seq \in DOMAIN queue
           /\ queue[t.seq].kind \in ReportKinds
           /\ t.action = "rejected" \/ t.action = queue[t.seq].kind
      /\ Settles => \A s \in Unacked :
           s <= q.through /\ queue[s].kind \in ReportKinds
             => \E t \in named : t.seq = s
      /\ Cardinality(outcomes) <= 1
      /\ outcomes # {} => attachment \in outcomes \cup {"ready"}

\* Mutant: the outcome the worker claimed, whatever the home's verdict
OutcomesClaimed(q) == {queue[t.seq].kind : t \in {u \in q.settlements : u.seq <= q.through}}

\* Mutant: a rejection counts as an outcome
OutcomesWithRejected(q) == {t.action : t \in {u \in q.settlements : u.seq <= q.through}}

Outcomes(q) == {t.action : t \in {u \in q.settlements : u.seq <= q.through}} \ {"rejected"}

\* The answer reaches the home when it still waits for this request
Answered(q, answer) ==
  sync' = IF sync.pc = "waiting" /\ sync.request = q
          THEN [sync EXCEPT !.pc = "answered", !.answer = answer]
          ELSE sync

\* The payload hash of a receipt covers the whole request
SameRequest(q) == receipts[q.id] = q

\* Mutant: every queued item is marked
MarksAll(q, s) == TRUE

\* sequence <= throughSequence
Marks(q, s) == s <= q.through

(* federationAck under its durable receipt: a repeated request id replays  *)
(* the receipt or is refused for another payload, and a handler that       *)
(* throws leaves none.                                                     *)
HandleAck(q) ==
  /\ q \in wire /\ q.to = "ack"
  /\ wire' = wire \ {q}
  /\ IF q.id \in DOMAIN receipts
     THEN /\ Answered(q, IF SameRequest(q) THEN "ok" ELSE "refused")
          /\ UNCHANGED <<attachment, queue, receipts>>
     ELSE IF ~AckAllowed(q)
     THEN /\ Answered(q, "refused")
          /\ UNCHANGED <<attachment, queue, receipts>>
     ELSE /\ Answered(q, "ok")
          /\ receipts' = [id \in DOMAIN receipts \cup {q.id} |->
                            IF id = q.id THEN q ELSE receipts[id]]
          /\ queue' = [s \in DOMAIN queue |->
                         [queue[s] EXCEPT !.acked = @ \/ Marks(q, s)]]
          /\ attachment' = IF Outcomes(q) = {} THEN attachment
                           ELSE CHOOSE o \in Outcomes(q) : TRUE
  /\ UNCHANGED <<downImported, epoch, supported, sent, rowVars, dispatchRow, downVars,
                 cached, checkpoint, bounds>>

\* A settled attachment takes no new mail
TakesDown(q) == q.through <= downImported \/ attachment = "ready"

DownAnswer(q) == IF TakesDown(q) THEN "ok" ELSE "refused"

(* federationImport takes the coordinator's mail up to the request's last  *)
(* item, skipping what it has.                                             *)
HandleDown(q) ==
  /\ q \in wire /\ q.to = "import"
  /\ wire' = wire \ {q}
  /\ Answered(q, DownAnswer(q))
  /\ downImported' = IF TakesDown(q) THEN MaxOf(downImported, q.through) ELSE downImported
  /\ UNCHANGED <<attachment, queue, receipts, epoch, supported, sent, rowVars,
                 dispatchRow, downVars, cached, checkpoint, bounds>>

\* A new runtime, perhaps of another version; what was on the wire is lost
HostRestart ==
  /\ epoch < MaxEpoch
  /\ epoch' = epoch + 1
  /\ supported' \in Supports
  /\ wire' = {}
  /\ UNCHANGED <<attachment, queue, receipts, downImported, sent, rowVars, dispatchRow,
                 downVars, sync, cached, checkpoint, bounds>>

-----------------------------------------------------------------------------
(* The Run home: one sync at a time, page by page *)

\* isFederatedDispatchRelayEligible: the timer syncs such a dispatch
Eligible == home \in {"live", "stopping"} \/ homeAcked < imported

\* ORDER BY sequence LIMIT
Page(s) == IF Len(s) <= PageSize THEN s ELSE SubSeq(s, 1, PageSize)

From(first) ==
  [n \in 1..MaxOf(0, Len(queue) - first + 1) |->
     [seq |-> first + n - 1, msg |-> queue[first + n - 1].msg,
      kind |-> queue[first + n - 1].kind]]

\* Mutant: a sync never asks again for what it imported without acknowledging
ReplaysNothing(cap) == FALSE

\* shouldReplayUnacknowledged
Replays(cap) == Settles /\ (cap.supported \/ homeAcked < imported)

(* The capability is resolved, from the cache or by a probe, and a page is *)
(* pulled: the first unacknowledged items of the host, or those after the  *)
(* imported one.  Acknowledged items are a prefix of the queue.            *)
Pull ==
  /\ \/ sync.pc = "idle" /\ Eligible
     \/ sync.pc = "next"
  /\ LET fresh == [epoch |-> epoch, supported |-> supported]
         cap == IF ~Settles THEN NoCapability
                ELSE IF cached # NoCapability THEN cached ELSE fresh
         page == Page(From(IF ~Replays(cap) THEN imported + 1
                           ELSE IF Unacked = {} THEN Len(queue) + 1 ELSE Least(Unacked)))
     IN  /\ cached' = cap
         /\ sync' = [pc |-> "importing", page |-> page, epoch |-> epoch,
                     settling |-> cap.supported /\ cap.epoch = epoch,
                     cursor |-> IF Replays(cap) /\ page # << >>
                                THEN page[1].seq - 1 ELSE imported,
                     full |-> Len(page) = PageSize,
                     settlements |-> {}, barrier |-> 0,
                     request |-> NoRequest, answer |-> "none",
                     pages |-> IF sync.pc = "idle" THEN MaxPages ELSE sync.pages]
  /\ UNCHANGED <<hostVars, rowVars, dispatchRow, downVars, checkpoint, wire, bounds>>

\* A sync ends; its checkpoint goes with a dispatch that needs no other
Finished(eligible, check) ==
  /\ sync' = Idle
  /\ checkpoint' = IF eligible THEN check ELSE NoCheckpoint

\* Mutant: a report counts although the home has stopped the dispatch
VerdictUnchecked(k) == k

\* settleWorkerReportInTransaction: the home's verdict on a report
Verdict(k) == IF home \in {"live", k} THEN k ELSE "rejected"

Known(m) == \E n \in DOMAIN inbox : inbox[n].msg = m

\* Mutant: mail already imported is stored once more
ImportedAgain(m) == TRUE

\* insertMessage, unless the mail is there
NewMail(m) == ~Known(m)

\* Mutant: the next place is counted from the acknowledged one
ImportableAfterAcked(i) ==
  /\ i.seq <= imported => Known(i.msg)
  /\ i.seq > imported => i.seq = homeAcked + 1

(* importFederatedRelayItem refuses an item whose place was imported with  *)
(* another message.                                                        *)
Importable(i) ==
  /\ i.seq <= imported => Known(i.msg)
  /\ i.seq > imported => i.seq = imported + 1

Import ==
  /\ sync.pc = "importing" /\ sync.page # << >>
  /\ LET i == Head(sync.page)
         report == i.kind \in ReportKinds
     IN  /\ Importable(i)
         /\ inbox' = IF NewMail(i.msg)
                     THEN Append(inbox, [msg |-> i.msg, kind |-> i.kind]) ELSE inbox
         /\ imported' = MaxOf(imported, i.seq)
         /\ home' = IF report /\ home = "live" THEN i.kind ELSE home
         /\ sync' = [sync EXCEPT
              !.page = Tail(@), !.cursor = i.seq,
              !.settlements = IF report /\ sync.settling
                THEN @ \cup {[seq |-> i.seq, action |-> Verdict(i.kind)]} ELSE @,
              !.barrier = IF @ = 0 /\ report /\ Settles /\ ~sync.settling
                THEN i.seq ELSE @]
  /\ UNCHANGED <<hostVars, dispatchRow, downVars, cached, checkpoint, wire, bounds>>

\* The import throws and ends the sync
ImportFails ==
  /\ sync.pc = "importing" /\ sync.page # << >>
  /\ ~Importable(Head(sync.page))
  /\ Finished(Eligible, checkpoint)
  /\ UNCHANGED <<hostVars, rowVars, dispatchRow, downVars, cached, wire, bounds>>

AckCursor == IF sync.barrier > 0 THEN sync.barrier - 1 ELSE sync.cursor

AlreadyAcked ==
  MaxOf(IF checkpoint.epoch = sync.epoch THEN checkpoint.through ELSE 0,
        IF homeEpoch = sync.epoch THEN homeAcked ELSE 0)

\* A request leaves and the sync waits for its answer
Requested(q) ==
  /\ wire' = wire \cup {q}
  /\ sync' = [sync EXCEPT !.pc = "waiting", !.request = q, !.answer = "none"]

\* The next page of this sync, or its end
Continued(acked, check) ==
  IF sync.full /\ sync.pages > 1 /\ sync.barrier = 0
  THEN sync' = [pc |-> "next", pages |-> sync.pages - 1] /\ checkpoint' = check
  ELSE Finished(home \in {"live", "stopping"} \/ acked < imported, check)

(* Everything after the acknowledgement: the epoch of the page is recorded *)
(* and a capability learned of another one dropped; then the coordinator's *)
(* mail goes out while the worker is ready.                                *)
Proceed(acked, check) ==
  /\ homeAcked' = acked
  /\ homeEpoch' = sync.epoch
  /\ UNCHANGED protocol
  /\ cached' = IF cached.epoch # sync.epoch THEN NoCapability ELSE cached
  /\ IF home = "live" /\ downAcked < downSent
     THEN Requested([to |-> "import", through |-> downSent]) /\ checkpoint' = check
     ELSE Continued(acked, check) /\ UNCHANGED wire

Acknowledge ==
  /\ sync.pc = "importing" /\ sync.page = << >>
  /\ IF AckCursor > AlreadyAcked
     THEN /\ Requested([to |-> "ack", id |-> sync.cursor, through |-> AckCursor,
                        settlements |-> sync.settlements])
          /\ UNCHANGED <<dispatchRow, cached, checkpoint>>
     ELSE Proceed(homeAcked, checkpoint)
  /\ UNCHANGED <<hostVars, rowVars, downVars, bounds>>

\* Mutant: the whole page is recorded, not what the host acknowledged
RecordedCursor == sync.cursor

\* Mutant: always one short
RecordedShort == MaxOf(0, sync.request.through - 1)

\* The last page of a sync stays unrecorded by one, which asks for another sync
Recorded ==
  IF sync.full /\ sync.pages = 1
  THEN MaxOf(0, sync.request.through - 1) ELSE sync.request.through

\* recordFederatedHomeAcknowledgment and recordFederationAckCheckpoint
AckAnswered ==
  /\ sync.pc = "answered" /\ sync.request.to = "ack" /\ sync.answer = "ok"
  /\ Recorded <= imported
  /\ Proceed(IF homeEpoch = sync.epoch THEN MaxOf(homeAcked, Recorded) ELSE Recorded,
             IF checkpoint.epoch = sync.epoch /\ checkpoint.through >= Recorded
             THEN checkpoint ELSE [epoch |-> sync.epoch, through |-> Recorded])
  /\ UNCHANGED <<hostVars, rowVars, downVars, bounds>>

\* Mutant: mail queued since the request counts as imported
DownThroughLatest == downSent

\* Mutant: one too many is struck off
DownThroughNext == sync.request.through + 1

DownThrough == sync.request.through

DownAnswered ==
  /\ sync.pc = "answered" /\ sync.request.to = "import" /\ sync.answer = "ok"
  /\ downAcked' = MaxOf(downAcked, DownThrough)
  /\ Continued(homeAcked, checkpoint)
  /\ UNCHANGED <<hostVars, rowVars, dispatchRow, downSent, cached, wire, bounds>>

\* A refused request ends the sync before it records anything
Refused ==
  /\ sync.pc = "answered" /\ sync.answer = "refused"
  /\ Finished(Eligible, checkpoint)
  /\ UNCHANGED <<hostVars, rowVars, dispatchRow, downVars, cached, wire, bounds>>

(* The request is lost, or its answer, or it takes longer than the home    *)
(* waits and is executed later.                                            *)
GiveUp ==
  /\ sync.pc \in {"waiting", "answered"}
  /\ faults < MaxFaults
  /\ faults' = faults + 1
  /\ wire' \in {wire, wire \ {sync.request}}
  /\ Finished(Eligible, checkpoint)
  /\ UNCHANGED <<hostVars, rowVars, dispatchRow, downVars, cached, restarts>>

\* The request went down with the host's runtime
TimeOut ==
  /\ sync.pc = "waiting" /\ sync.request \notin wire
  /\ Finished(Eligible, checkpoint)
  /\ UNCHANGED <<hostVars, rowVars, dispatchRow, downVars, cached, wire, bounds>>

HomeRestart ==
  /\ restarts < MaxRestarts
  /\ restarts' = restarts + 1
  /\ sync' = Idle /\ cached' = NoCapability /\ checkpoint' = NoCheckpoint
  /\ UNCHANGED <<hostVars, rowVars, dispatchRow, downVars, wire, faults>>

-----------------------------------------------------------------------------
(* The dispatch at home *)

\* A reply or control mail of the coordinator to a worker that is ready
SendDown ==
  /\ home = "live"
  /\ downSent < MaxDown
  /\ downSent' = downSent + 1
  /\ UNCHANGED <<hostVars, rowVars, dispatchRow, downAcked, sync, cached, checkpoint,
                 wire, bounds>>

\* beginWorkerStop
Stop ==
  /\ home = "live"
  /\ home' = "stopping"
  /\ UNCHANGED <<hostVars, inbox, imported, dispatchRow, downVars, sync, cached,
                 checkpoint, wire, bounds>>

(* The host answers the stop: reconcileFederatedWorkerStop, or             *)
(* resumeFederatedWorkerForTerminalRelay when the worker had reported.     *)
StopAnswered ==
  /\ home = "stopping"
  /\ attachment # "ready"
  /\ home' = IF attachment = "stopped" THEN "stopped" ELSE "live"
  /\ UNCHANGED <<hostVars, inbox, imported, dispatchRow, downVars, sync, cached,
                 checkpoint, wire, bounds>>

-----------------------------------------------------------------------------
HomeStep ==
  \/ Pull \/ Import \/ ImportFails \/ Acknowledge \/ AckAnswered \/ DownAnswered
  \/ Refused \/ TimeOut

HostStep == \E q \in wire : HandleAck(q) \/ HandleDown(q)

Next ==
  \/ HomeStep \/ HostStep
  \/ \E k \in Kinds : Send(k)
  \/ SendDown \/ Stop \/ StopArrives \/ StopAnswered
  \/ GiveUp \/ HostRestart \/ HomeRestart

(* A timer of one second syncs every eligible dispatch, each step of a     *)
(* sync follows the last, and a request that is not lost is handled.       *)
(* Nothing makes a worker send, a coordinator stop it or a server fail.    *)
Fairness == WF_vars(HomeStep) /\ WF_vars(HostStep)

Spec == Init /\ [][Next]_vars /\ Fairness

-----------------------------------------------------------------------------
(* Properties *)

AckedItems == {s \in DOMAIN queue : queue[s].acked}
Settled(state) == state \in ReportKinds

(* The host forgets an item (acked_at) only when the home has it, whatever *)
(* was queued while the page was on its way (federation-relay-ack.ts).     *)
AckedMeansImported == \A s \in AckedItems : s <= imported

(* The home never records more as acknowledged than the host marked: its   *)
(* watermark suppresses later acknowledgements (federation-sync.ts:192).   *)
WatermarkIsAcked == 1..homeAcked \subseteq AckedItems

(* At protocol 3 a remote attachment is settled with the outcome the home  *)
(* settled the dispatch with, and not when the home refused the report.    *)
HomeDecides == Settles /\ Settled(attachment) => home = attachment

(* Coordinator mail is struck off only when the worker's server has it.    *)
DownAckedMeansImported == downAcked <= downImported

(* The parts of the inductive invariant.                                   *)
QueueInv == Len(queue) <= sent /\ imported <= Len(queue) /\ Len(inbox) <= imported

\* Marked items are a prefix of the queue, within what was imported
PrefixInv == \E n \in 0..imported : AckedItems = 1..n

Marked(n) == 1..n \subseteq AckedItems

ReceiptsInv == \A id \in DOMAIN receipts : Marked(receipts[id].through)

\* Verdicts on their way are those of the home
Agrees(settlements) ==
  \A t \in settlements : t.action # "rejected" => home = t.action

WireInv ==
  \A q \in wire : q.to = "ack" => q.through <= imported /\ Agrees(q.settlements)

\* What a sync at work has seen, done and been told
SyncInv ==
  sync.pc \in {"importing", "waiting", "answered"} =>
    /\ sync.cursor <= imported /\ sync.barrier <= imported
    /\ Agrees(sync.settlements)
    /\ \A n \in DOMAIN sync.page : sync.page[n].seq <= Len(queue)
    /\ sync.answer = "ok" /\ sync.request.to = "ack" => Marked(sync.request.through)
    /\ sync.answer = "ok" /\ sync.request.to = "import" =>
         sync.request.through <= downImported

(* What is on its way between the servers, receipts and pages included,    *)
(* never runs ahead of the two tables: the inductive invariant from which  *)
(* the four above follow.                                                  *)
RelayInv ==
  /\ TypeOK /\ QueueInv /\ PrefixInv /\ ReceiptsInv /\ WireInv /\ SyncInv
  /\ WatermarkIsAcked /\ HomeDecides /\ DownAckedMeansImported

(* While the host keeps its runtime, what the home has imported the host   *)
(* eventually marks, in spite of lost answers, late requests and restarts  *)
(* of the home.  RelayRests says what becomes of it when the host restarts.*)
ImportedIsAcked ==
  \A s \in 1..MaxSent : (imported >= s) ~> (s \in AckedItems)

(* What the home has imported it eventually records as acknowledged, so    *)
(* that the relay of a settled dispatch comes to rest.                     *)
RelayRests ==
  \A s \in 1..MaxSent : (imported >= s) ~> (homeAcked >= s)

(* Below protocol 3, where no acknowledgement carries settlements, it      *)
(* does: no retry is refused for its request id.                           *)
PlainRelayRests ==
  \A s \in 1..MaxSent :
    (protocol < 3 /\ imported >= s) ~> (homeAcked >= s)

(* Coordinator mail reaches the worker's server, unless the dispatch ends. *)
DownMailArrives ==
  \A n \in 1..MaxDown :
    (downSent >= n) ~> (downImported >= n \/ home # "live" \/ attachment # "ready")

Mail(item) == [msg |-> item.msg, kind |-> item.kind]

(* The relay is an ordered channel: what the worker queued is imported in  *)
(* its order, once, and eventually, for as long as the dispatch is synced. *)
Channel == INSTANCE RelayChannel WITH
  sent <- [s \in DOMAIN queue |-> Mail(queue[s])],
  delivered <- inbox,
  open <- Eligible

OrderedChannel == Channel!Spec

\* No report ever takes the place of a heartbeat: none is sent, or the quota is never full
NoReplacement == "heartbeat" \notin Kinds \/ Quota >= MaxSent

(* Without replacements the home's mail is the first part of the queue,    *)
(* and a page pulled before any number of sends still names the items it   *)
(* was read from.                                                          *)
ChannelInv ==
  /\ \A s \in DOMAIN queue : queue[s].msg <= sent /\ queue[s].kind \in Kinds
  /\ \A s, t \in DOMAIN queue : queue[s].msg = queue[t].msg => s = t
  /\ Len(inbox) = imported
  /\ \A n \in 1..imported : inbox[n] = Mail(queue[n])
  /\ sync.pc \in {"importing", "waiting", "answered"} =>
       \A n \in DOMAIN sync.page :
         LET i == sync.page[n]
         IN  i.seq \in DOMAIN queue /\ Mail(i) = Mail(queue[i.seq])

(* An item of the queue whose sequence was imported has its message at     *)
(* home (federation-relay-import.ts:54 treats the opposite as corruption). *)
CommittedWithItsMessage ==
  \A s \in DOMAIN queue : s <= imported => Known(queue[s].msg)
=============================================================================
