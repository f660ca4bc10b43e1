------------------------------ MODULE Mailbox ------------------------------
(***************************************************************************)
(* The mailbox of a Run and the mailbox of one of its dispatches, read by  *)
(* "orchestration check" (check-run.ts, check-worker.ts).  Mail is handed  *)
(* out in deliveries and struck off by acknowledging the delivery; a new   *)
(* consumer (another pane bound to the Run, another process attached to    *)
(* the dispatch) fences the deliveries of the old one.                     *)
(*                                                                         *)
(* A check runs without interruption between two awaits: while it moves    *)
(* mail sent to the caller's bare handle into the mailbox, page by page,   *)
(* and while it waits for mail.  A terminal's handle and its pane are one  *)
(* here.  Left out: reading without consuming (--peek, --all), terminals   *)
(* with neither Run nor dispatch, legacy coordinators, attachments of      *)
(* another server's dispatches, mail that is inserted read (the answer to  *)
(* a question, a late heartbeat), and the pointers typed into terminals.   *)
(***************************************************************************)
EXTENDS Naturals, Sequences, FiniteSets

CONSTANTS
  Panes,       \* terminals
  Kinds,       \* mail a filtered wait wants (TRUE), and other mail
  Calls,       \* checks in flight at once
  PageLimit,   \* ORCHESTRATION_DELIVERY_BATCH_LIMIT
  NoPane,
  MaxMail,     \* bound: messages
  MaxChanges   \* bound: changes of a consumer

ASSUME PaneAssumption == NoPane \notin Panes /\ Panes \cap {"run", "dispatch"} = {}
ASSUME KindAssumption == Kinds \in {{TRUE}, {TRUE, FALSE}}
ASSUME LimitAssumption == PageLimit \in Nat \ {0}
ASSUME MailboxBounds == {MaxMail, MaxChanges} \subseteq Nat

VARIABLES
  \* tables
  messages,     \* by sequence: [to, wanted, read]
  deliveries,   \* by id: [box, gen, mail, status]
  runPane,      \* pane bound to the Run, or NoPane
  runGen,       \* consumer_generation of the Run
  remembered,   \* handles that have coordinated the Run
  active,       \* the dispatch is pending or dispatched
  workerPane,   \* pane of the dispatch
  workerGen,    \* consumer_generation of the dispatch
  \* the runtime and its callers
  calls,        \* the checks in flight
  changes

tables == <<messages, deliveries>>
runVars == <<runPane, runGen, remembered>>
workerVars == <<active, workerPane, workerGen>>
vars == <<tables, runVars, workerVars, calls, changes>>

Boxes == {"run", "dispatch"}
Idle == [pc |-> "idle"]

Message == [to : Boxes \cup Panes, wanted : BOOLEAN, read : BOOLEAN]
Delivery == [box : Boxes, gen : Nat, mail : (SUBSET (1..MaxMail)) \ {{}},
             status : {"outstanding", "acknowledged", "fenced"}]

\* A check that routes, one that waits or has waited, the forwarding it may
\* leave behind, and the error its caller was told
Routing == [pc : {"routing"}, pane : Panes, box : Boxes, gen : Nat, through : 0..MaxMail,
            ack : Nat, acked : {FALSE}, waits : BOOLEAN, wanted : BOOLEAN]
Waiting == [pc : {"waiting", "notified", "ended"}, pane : Panes, box : Boxes, gen : Nat,
            acked : BOOLEAN, wanted : BOOLEAN]
Forwarding == [pc : {"forwarding"}, kinds : SUBSET BOOLEAN, through : 0..MaxMail]
Failed == [pc : {"failed"}, acked : BOOLEAN]

TypeOK ==
  /\ messages \in Seq(Message) /\ Len(messages) <= MaxMail
  /\ deliveries \in Seq(Delivery)
  /\ runPane \in Panes \cup {NoPane} /\ runGen \in Nat /\ remembered \subseteq Panes
  /\ active \in BOOLEAN /\ workerPane \in Panes /\ workerGen \in Nat
  /\ calls \in [Calls -> Routing \cup Waiting \cup Forwarding \cup Failed \cup {Idle}]
  /\ changes \in 0..MaxChanges

Init ==
  /\ messages = << >> /\ deliveries = << >>
  /\ runPane \in Panes /\ runGen = 1 /\ remembered = {runPane}
  /\ active = TRUE /\ workerPane \in Panes \ {runPane} /\ workerGen = 1
  /\ calls = [c \in Calls |-> Idle]
  /\ changes = 0

-----------------------------------------------------------------------------
(* Mail and deliveries *)

Unread(ms, to) == {n \in DOMAIN ms : ms[n].to = to /\ ~ms[n].read}

\* Mutant: the newest first
LastOf(S, k) == {n \in S : Cardinality({m \in S : m > n}) < k}

\* The first k of a set of sequences
FirstOf(S, k) == {n \in S : Cardinality({m \in S : m < n}) < k}

MovedIn(ms, S, to) ==
  [n \in DOMAIN ms |-> IF n \in S THEN [ms[n] EXCEPT !.to = to] ELSE ms[n]]

Moved(S, to) == MovedIn(messages, S, to)

\* markAsRead, and the same update of an acknowledgement
Struck(S) ==
  [n \in DOMAIN messages |->
     IF n \in S THEN [messages[n] EXCEPT !.read = TRUE] ELSE messages[n]]

\* The view outstanding_deliveries
Outstanding(ms, ds, box) ==
  {d \in DOMAIN ds : /\ ds[d].box = box /\ ds[d].status = "outstanding"
                     /\ \E n \in ds[d].mail : ~ms[n].read}

\* fenceUnacknowledgedMailboxDeliveries
Fenced(box) ==
  [d \in DOMAIN deliveries |->
     IF deliveries[d].box = box /\ deliveries[d].status = "outstanding"
     THEN [deliveries[d] EXCEPT !.status = "fenced"] ELSE deliveries[d]]

\* Mail to a bare handle: resolveBareOrchestrationRecipient
ResolvedTo(p) ==
  IF runPane = p THEN "run"
  ELSE IF active /\ workerPane = p THEN "dispatch"
  ELSE IF p \in remembered THEN "run" ELSE p

\* Mutant: only the waiters that name a kind are told
WokenFiltered(box, kinds) ==
  [c \in Calls |->
     IF /\ calls[c].pc = "waiting" /\ calls[c].box = box
        /\ TRUE \in kinds /\ calls[c].wanted
     THEN [calls[c] EXCEPT !.pc = "notified"] ELSE calls[c]]

(* resolveMessageWaiter: waiters of the mailbox that want one of the kinds *)
(* of mail (TRUE for the wanted one) that arrived.                         *)
Woken(box, kinds) ==
  [c \in Calls |->
     IF /\ calls[c].pc = "waiting" /\ calls[c].box = box
        /\ kinds # {} /\ (TRUE \in kinds \/ ~calls[c].wanted)
     THEN [calls[c] EXCEPT !.pc = "notified"] ELSE calls[c]]

Send(recipient, wanted) ==
  /\ Len(messages) < MaxMail
  /\ recipient = "dispatch" => active
  /\ LET to == IF recipient \in Panes THEN ResolvedTo(recipient) ELSE recipient
     IN  /\ messages' = Append(messages, [to |-> to, wanted |-> wanted, read |-> FALSE])
         /\ calls' = Woken(to, {wanted})
  /\ UNCHANGED <<deliveries, runVars, workerVars, changes>>

\* The mailbox a check of this terminal reads
BoxOf(p) ==
  IF p = runPane THEN "run" ELSE IF active /\ p = workerPane THEN "dispatch" ELSE "none"

\* Mail of a terminal's handle that may be moved to its mailbox
Routable(ms, p, box) ==
  IF box = "run" /\ active /\ workerPane = p THEN {} ELSE Unread(ms, p)

(* orchestration.reply to a message, read or not, that is no question: it  *)
(* is struck off wherever it is, and the answer put under the handle its   *)
(* sender gave.  The nudge then moves what is under the handle of a         *)
(* terminal to the mailbox it reads: a page at once, the rest from         *)
(* setImmediate, which is one step here.                                   *)
Reply(n, recipient, wanted) ==
  /\ Len(messages) < MaxMail
  /\ n \in DOMAIN messages
  /\ LET sent == Append(Struck({n}), [to |-> recipient, wanted |-> wanted, read |-> FALSE])
         box == IF recipient \in Panes THEN BoxOf(recipient) ELSE recipient
         moved == IF recipient \in Panes /\ box # "none"
                  THEN Routable(sent, recipient, box) ELSE {}
     IN  /\ messages' = MovedIn(sent, moved, box)
         /\ calls' = Woken(box, {wanted} \cup {sent[m].wanted : m \in moved})
  /\ UNCHANGED <<deliveries, runVars, workerVars, changes>>

\* The dispatch's waiters are told although nothing came, as when its question is answered
Nudge(wanted) ==
  /\ calls' = Woken("dispatch", {wanted})
  /\ UNCHANGED <<tables, runVars, workerVars, changes>>

-----------------------------------------------------------------------------
(* Consumers *)

\* Mutant: a rebinding leaves the old waiter of the Run registered
CancelledNothing == calls

\* cancelMessageWaiters of the Run
Cancelled ==
  [c \in Calls |->
     IF calls[c].pc = "waiting" /\ calls[c].box = "run"
     THEN [calls[c] EXCEPT !.pc = "ended"] ELSE calls[c]]

\* Unread mail to these handles, unless they still have the active dispatch
Direct(P) == UNION {Unread(messages, p) : p \in P \ (IF active THEN {workerPane} ELSE {})}

\* run-use: the pane becomes the Run's consumer
Bind(p) ==
  /\ p # runPane => changes < MaxChanges
  /\ remembered' = remembered \cup {p}
  /\ messages' = Moved(Direct({p, runPane} \cap Panes), "run")
  /\ IF p = runPane
     THEN UNCHANGED <<runPane, runGen, deliveries, changes>>
     ELSE /\ runPane' = p
          /\ runGen' = runGen + 1
          /\ deliveries' = Fenced("run")
          /\ changes' = changes + 1
  /\ calls' = Cancelled
  /\ UNCHANGED workerVars

\* The pane binds to another Run or creates one: unbindOtherRunsForPane
Unbind ==
  /\ runPane # NoPane
  /\ changes < MaxChanges
  /\ changes' = changes + 1
  /\ messages' = Moved(Direct({runPane}), "run")
  /\ runPane' = NoPane
  /\ runGen' = runGen + 1
  /\ deliveries' = Fenced("run")
  /\ calls' = Cancelled
  /\ UNCHANGED <<remembered, workerVars>>

\* mintDispatchCapability or prepareStartingWorkerAuthority
Attach(p) ==
  /\ active
  /\ changes < MaxChanges
  /\ changes' = changes + 1
  /\ workerPane' = p
  /\ workerGen' = workerGen + 1
  /\ deliveries' = Fenced("dispatch")
  /\ UNCHANGED <<messages, runVars, active, calls>>

(* An accepted worker_done ends the dispatch and strikes off the earlier   *)
(* heartbeats of the Run's mailbox: suppressEarlierHeartbeats.  Heartbeats *)
(* are not told apart from other mail.                                     *)
Report(heartbeats, wanted) ==
  /\ active
  /\ Len(messages) < MaxMail
  /\ heartbeats \subseteq Unread(messages, "run")
  /\ active' = FALSE
  /\ messages' = Append(Struck(heartbeats), [to |-> "run", wanted |-> wanted, read |-> FALSE])
  /\ calls' = Woken("run", {wanted})
  /\ UNCHANGED <<deliveries, runVars, workerPane, workerGen, changes>>

\* The dispatch ends in another way: a stop tells its waiters
Settle ==
  /\ active
  /\ active' = FALSE
  /\ calls' \in {calls, Woken("dispatch", {FALSE})}
  /\ UNCHANGED <<tables, runVars, workerPane, workerGen, changes>>

-----------------------------------------------------------------------------
(* A check *)

Latest(S) == IF S = {} THEN 0 ELSE CHOOSE n \in S : \A m \in S : m <= n

\* Mail of the caller's handle that the check has still to move
ToRoute(call) ==
  {n \in Routable(messages, call.pane, call.box) : n <= call.through}

\* routeDirectMessagePage
RoutePage(c, call) ==
  /\ messages' = Moved(FirstOf(ToRoute(call), PageLimit), call.box)
  /\ calls' = [calls EXCEPT ![c] = call]

Start(c, p, ack, waits, wanted) ==
  /\ calls[c].pc \in {"idle", "failed"}
  /\ BoxOf(p) # "none"
  /\ wanted => waits /\ Kinds = BOOLEAN
  /\ RoutePage(c, [pc |-> "routing", pane |-> p, box |-> BoxOf(p),
                   gen |-> IF BoxOf(p) = "run" THEN runGen ELSE workerGen,
                   through |-> Latest(Unread(messages, p)),
                   ack |-> ack, acked |-> FALSE, waits |-> waits, wanted |-> wanted])
  /\ UNCHANGED <<deliveries, runVars, workerVars, changes>>

\* yieldToEventLoop between two pages
Route(c) ==
  /\ calls[c].pc = "routing" /\ ToRoute(calls[c]) # {}
  /\ RoutePage(c, calls[c])
  /\ UNCHANGED <<deliveries, runVars, workerVars, changes>>

(* The check is over: of a delivery, of nothing, of an interruption or of  *)
(* an error only the last is told apart, for a Run.                        *)
Over(call, told, acked) ==
  IF told = "error" /\ call.box = "run" THEN [pc |-> "failed", acked |-> acked] ELSE Idle

(* What the caller is told, if its answer reaches it: a caller that has    *)
(* missed one does not name its delivery later.                            *)
Answered(c, told, acked) == calls' = [calls EXCEPT ![c] = Over(calls[c], told, acked)]

\* The caller's pane is the one bound to the Run, or the dispatch's
HoldsPane(call) ==
  IF call.box = "run" THEN call.pane = runPane ELSE active /\ call.pane = workerPane

\* Mutant: the caller is not looked up again after the routing
HoldsAlways(call) == TRUE

\* resolveRunScope and the generation, or the worker's pane, then requireMailboxConsumer
Holds(call) ==
  /\ HoldsPane(call)
  /\ call.gen = IF call.box = "run" THEN runGen ELSE workerGen

AckAllowed(call) ==
  \/ call.ack = 0
  \/ /\ deliveries[call.ack].box = call.box
     /\ deliveries[call.ack].gen = call.gen
     /\ deliveries[call.ack].status # "fenced"

Acks(call) == call.ack # 0 /\ deliveries[call.ack].status = "outstanding"

\* Mutant: all unread mail of the mailbox is struck off
AckedMailAll(call) ==
  IF Acks(call) THEN Struck(Unread(messages, call.box)) ELSE messages

\* acknowledgeMailboxDelivery
AckedMail(call) ==
  IF Acks(call) THEN Struck(deliveries[call.ack].mail) ELSE messages

AckedDeliveries(call) ==
  IF Acks(call) THEN [deliveries EXCEPT ![call.ack].status = "acknowledged"] ELSE deliveries

\* Mutant: new mail is handed out beside an outstanding delivery
ReplayableNever(ms, ds, box) == {}

Replayable(ms, ds, box) == Outstanding(ms, ds, box)

\* Mutant: an empty mailbox is not noticed
NothingNever(ms, call, filtered) == FALSE

\* Nothing to hand out: no mail, or none of the kind waited for
Nothing(ms, call, filtered) ==
  LET mail == Unread(ms, call.box)
  IN  mail = {} \/ (filtered /\ \A n \in mail : ~ms[n].wanted)

(* getOrCreateMailboxDelivery and the answer: the outstanding delivery     *)
(* again, or one made of the oldest unread mail.                           *)
HandOut(c, call, ms, ds) ==
  IF Replayable(ms, ds, call.box) # {}
  THEN \E d \in Replayable(ms, ds, call.box) :
         /\ deliveries' = ds
         /\ IF ds[d].gen = call.gen THEN Answered(c, "delivery", call.acked)
            ELSE Answered(c, "error", call.acked)
  ELSE /\ deliveries' = Append(ds, [box |-> call.box, gen |-> call.gen,
                                    mail |-> FirstOf(Unread(ms, call.box), PageLimit),
                                    status |-> "outstanding"])
       /\ Answered(c, "delivery", call.acked)

\* The unread mail of the settled dispatch is forwarded before the error is told
ForwardsMail(c) ==
  calls' = [calls EXCEPT ![c] =
    [pc |-> "forwarding", kinds |-> {}, through |-> Latest(Unread(messages, "dispatch"))]]

Waits(c, call) ==
  calls' = [calls EXCEPT ![c] =
    [pc |-> "waiting", pane |-> call.pane, box |-> call.box, gen |-> call.gen,
     acked |-> call.acked, wanted |-> call.wanted]]

\* An exclusive waiter of the Run is registered already
Occupied(call) ==
  call.box = "run" /\ \E c \in Calls : calls[c].pc = "waiting" /\ calls[c].box = "run"

\* Mutant: the caller is told of a failure whether it has acknowledged or not
TroubleAlways(call) == "error"

\* interruptedAcknowledgedCheck, or the error
Trouble(call) == IF call.box = "run" /\ call.acked THEN "interrupted" ELSE "error"

(* The routing is over: the caller is looked up again, its delivery        *)
(* acknowledged, and a delivery handed out or a waiter registered.  A      *)
(* worker that lost its dispatch by the end of it has its mail forwarded.  *)
Proceed(c) ==
  /\ calls[c].pc = "routing" /\ ToRoute(calls[c]) = {}
  /\ LET call == [calls[c] EXCEPT !.acked = @ \/ calls[c].ack # 0]
         ms == AckedMail(call)
         ds == AckedDeliveries(call)
     IN  IF call.box = "dispatch" /\ ~active
         THEN ForwardsMail(c) /\ UNCHANGED tables
         ELSE IF ~Holds(call) \/ ~AckAllowed(call)
         THEN Answered(c, "error", FALSE) /\ UNCHANGED tables
         ELSE /\ messages' = ms
              /\ IF \/ Replayable(ms, ds, call.box) # {}
                    \/ ~Nothing(ms, call, call.wanted)
                 THEN HandOut(c, call, ms, ds)
                 ELSE /\ deliveries' = ds
                      /\ IF ~call.waits THEN Answered(c, "empty", call.acked)
                         ELSE IF Occupied(call)
                         THEN Answered(c, Trouble(call), call.acked)
                         ELSE Waits(c, call)
  /\ UNCHANGED <<runVars, workerVars, changes>>

\* Mutant: a waiting check does not look at the consumer again
StillConsumerAlways(call) == TRUE

\* The generation after the wait; a worker's pane as well
StillConsumer(call) ==
  IF call.box = "run" THEN call.gen = runGen ELSE Holds(call)

Awake(c) ==
  /\ calls[c].pc \in {"notified", "ended"}
  /\ LET call == calls[c]
     IN  IF call.box = "dispatch" /\ ~active
         THEN ForwardsMail(c) /\ UNCHANGED deliveries
         ELSE IF ~StillConsumer(call)
         THEN Answered(c, Trouble(call), call.acked) /\ UNCHANGED deliveries
         ELSE IF \/ call.pc # "notified"
                 \/ /\ Replayable(messages, deliveries, call.box) = {}
                    /\ Nothing(messages, call, call.wanted)
         THEN Answered(c, "empty", call.acked) /\ UNCHANGED deliveries
         ELSE HandOut(c, call, messages, deliveries)
  /\ UNCHANGED <<messages, runVars, workerVars, changes>>

ToForward(call) == {n \in Unread(messages, "dispatch") : n <= call.through}

(* routeUnreadDispatchMailboxToRunMailbox, page by page; it goes on when   *)
(* the caller has gone, and tells the waiters of the Run at the end.       *)
Forward(c) ==
  /\ calls[c].pc = "forwarding"
  /\ LET call == calls[c]
         page == FirstOf(ToForward(call), PageLimit)
         kinds == call.kinds \cup {messages[n].wanted : n \in page}
     IN  /\ messages' = Moved(page, "run")
         /\ calls' = IF page = ToForward(call)
                     THEN [Woken("run", kinds) EXCEPT ![c] = Idle]
                     ELSE [calls EXCEPT ![c].kinds = kinds]
  /\ UNCHANGED <<deliveries, runVars, workerVars, changes>>

\* timeoutMs, or the caller's connection closes: noticed between two pages, or by the wait
End(c) ==
  /\ calls[c].pc = "waiting" \/ (calls[c].pc = "routing" /\ ToRoute(calls[c]) # {})
  /\ calls' = [calls EXCEPT ![c] =
                 IF @.pc = "waiting" THEN [@ EXCEPT !.pc = "ended"] ELSE Idle]
  /\ UNCHANGED <<tables, runVars, workerVars, changes>>

Restart ==
  /\ calls' = [c \in Calls |-> Idle]
  /\ UNCHANGED <<tables, runVars, workerVars, changes>>

-----------------------------------------------------------------------------
RuntimeStep(c) == Route(c) \/ Proceed(c) \/ Awake(c) \/ Forward(c)

Next ==
  \/ \E r \in Boxes \cup Panes, w \in Kinds :
       Send(r, w) \/ \E n \in DOMAIN messages : Reply(n, r, w)
  \/ \E w \in Kinds :
       Nudge(w) \/ \E S \in SUBSET Unread(messages, "run") : Report(S, w)
  \/ \E p \in Panes : Bind(p) \/ Attach(p)
  \/ Unbind \/ Settle \/ Restart
  \/ \E c \in Calls :
       \/ \E p \in Panes, ack \in DOMAIN deliveries \cup {0}, waits, wanted \in BOOLEAN :
            Start(c, p, ack, waits, wanted)
       \/ RuntimeStep(c) \/ End(c)

(* The event loop runs every continuation; nothing makes an agent check,   *)
(* and no timeout is counted on.                                           *)
Fairness == \A c \in Calls : WF_vars(RuntimeStep(c))

Spec == Init /\ [][Next]_vars /\ Fairness

-----------------------------------------------------------------------------
(* Properties *)

(* No message is acknowledged twice, whatever was fenced, replayed, lost   *)
(* on the way to the caller or forwarded in between.                       *)
AcknowledgedOnce ==
  \A d, e \in DOMAIN deliveries :
    /\ d # e
    /\ deliveries[d].status = "acknowledged" /\ deliveries[e].status = "acknowledged"
    => deliveries[d].mail \cap deliveries[e].mail = {}

(* An outstanding delivery is the present consumer's, so a replay never    *)
(* meets the fence: a check that outlived its consumer made none.          *)
OutstandingIsCurrent ==
  \A box \in Boxes : \A d \in Outstanding(messages, deliveries, box) :
    deliveries[d].gen = IF box = "run" THEN runGen ELSE workerGen

(* A check that waits for a Run's mail is the current consumer's and the   *)
(* only one, so a new consumer is never told that somebody waits already.  *)
RunWaiterIsCurrent ==
  \A c \in Calls : calls[c].pc = "waiting" /\ calls[c].box = "run" =>
    /\ calls[c].gen = runGen
    /\ \A b \in Calls \ {c} : ~(calls[b].pc = "waiting" /\ calls[b].box = "run")

(* A check of a Run that ends in an error has acknowledged nothing; when   *)
(* it has, it says so (check-run.ts:176-194).                              *)
ErrorMeansNothingAcknowledged ==
  \A c \in Calls :
    calls[c].pc = "failed" => ~calls[c].acked

(* The parts of the inductive invariant.                                   *)
Generation(box) == IF box = "run" THEN runGen ELSE workerGen

\* A mailbox that a consumer may still read
Open(box) == box = "run" \/ active

(* Mail once handed out stays in a mailbox.  An outstanding delivery is of *)
(* the present generation, and what is unread of it is where it was, until *)
(* a dispatch ends.  Acknowledged mail is read.                            *)
DeliverySound(ms, row) ==
  /\ \A n \in row.mail : n \in DOMAIN ms /\ ms[n].to \in Boxes
  /\ row.status = "acknowledged" => \A n \in row.mail : ms[n].read
  /\ row.status = "outstanding" =>
       /\ row.gen = Generation(row.box)
       /\ Open(row.box) => \A n \in row.mail : ms[n].read \/ ms[n].to = row.box

\* A row that is acknowledged or still may be; answered in full, it blocks no other
Live(row) == row.status = "acknowledged" \/ (row.status = "outstanding" /\ Open(row.box))

NoMailShared(ds) ==
  \A d, e \in DOMAIN ds : d # e /\ Live(ds[d]) /\ Live(ds[e]) => ds[d].mail \cap ds[e].mail = {}

OneOutstanding(ms, ds) ==
  \A box \in Boxes : \A d, e \in Outstanding(ms, ds, box) : d = e

TablesSound(ms, ds) ==
  /\ \A d \in DOMAIN ds : DeliverySound(ms, ds[d])
  /\ OneOutstanding(ms, ds) /\ NoMailShared(ds)

\* What a check names exists, and only a dispatch that ended is forwarded
CallInv ==
  \A c \in Calls :
    /\ calls[c].pc = "routing" => calls[c].ack \in DOMAIN deliveries \cup {0}
    /\ calls[c].pc = "forwarding" => ~active

(* At most one delivery of a mailbox is out, for its present consumer, and *)
(* no other holds its mail, whatever was answered meanwhile and whatever   *)
(* the checks in flight saw before their last await: the inductive         *)
(* invariant from which the four above follow.                             *)
MailInv ==
  /\ TypeOK /\ TablesSound(messages, deliveries) /\ CallInv
  /\ RunWaiterIsCurrent /\ ErrorMeansNothingAcknowledged

(* A waiting check of the current consumer does not sleep on mail it waits *)
(* for, unless that mail has been handed to another check of it.  It may   *)
(* when one terminal is both the Run's and the dispatch's: mail left under *)
(* its handle when the dispatch settles is moved by a later check, and if  *)
(* that one fails nobody tells the Run's waiter.                           *)
WaiterIsWoken ==
  [](active => runPane # workerPane) =>
  \A c \in Calls :
    LET sleeps == /\ calls[c].pc = "waiting" /\ Holds(calls[c])
                  /\ ~Nothing(messages, calls[c], calls[c].wanted)
                  /\ Outstanding(messages, deliveries, calls[c].box) = {}
    IN  sleeps ~> ~sleeps

Batch(box) ==
  Unread(messages, box) \cap
    UNION {deliveries[d].mail : d \in Outstanding(messages, deliveries, box)}

RunMail == INSTANCE MailQueue WITH
  mail <- Unread(messages, "run"), batch <- Batch("run"),
  holder <- runGen, open <- TRUE

DispatchMail == INSTANCE MailQueue WITH
  mail <- Unread(messages, "dispatch"), batch <- Batch("dispatch"),
  holder <- workerGen, open <- active

(* The mailbox of the Run is a queue of batches for its present consumer.  *)
RunQueue == RunMail!Spec

(* So is the dispatch's, until the dispatch ends and its mail moves on.    *)
DispatchQueue == DispatchMail!Spec
=============================================================================
