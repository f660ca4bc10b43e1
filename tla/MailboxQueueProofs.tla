------------------------- MODULE MailboxQueueProofs -------------------------
(***************************************************************************)
(* Proofs that the two mailboxes of Mailbox implement MailQueue: mail is   *)
(* handed out oldest first in batches, again until acknowledged as a whole,*)
(* and handed back to the next consumer.                                   *)
(*                                                                         *)
(* Every step is mapped for either mailbox.  MailInv gives the argument:   *)
(* the batch is what is unread of the one outstanding delivery, so an      *)
(* acknowledgement strikes off that batch and nothing else, and what is    *)
(* handed out next is the oldest of what is left.  Steps on the other      *)
(* mailbox, and mail routed from bare handles, leave the batch alone; an   *)
(* answer or a report takes from it what it strikes off (QueueStays).      *)
(***************************************************************************)
EXTENDS MailboxProofs

USE ConstantTypes

\* The queue of either mailbox: RunMail and DispatchMail
Queue(box) == INSTANCE MailQueue WITH
  mail <- Unread(messages, box), batch <- Batch(box),
  holder <- Generation(box), open <- Open(box)

QueueStep(box) ==
  \/ Queue(box)!Next
  \/ UNCHANGED <<Unread(messages, box), Batch(box), Generation(box), Open(box)>>

\* A step strikes off S and moves no mail of the mailbox; to one that is open
\* it may bring mail of the other
MailKept(box, S) ==
  \A n \in DOMAIN messages :
    /\ n \in DOMAIN messages'
    /\ messages[n].to \in Boxes =>
         \/ /\ messages'[n].to = messages[n].to
            /\ messages'[n].read <=> (messages[n].read \/ n \in S)
         \/ /\ Open(box) /\ messages[n].to # box
            /\ messages[n].read => messages'[n].read

BoxKept(box) ==
  /\ DOMAIN deliveries' = DOMAIN deliveries
  /\ \A d \in DOMAIN deliveries :
       deliveries[d].box = box \/ deliveries'[d].box = box => deliveries'[d] = deliveries[d]

ConsumerKept(box) == UNCHANGED <<Generation(box), Open(box)>>

\* OldestOf of MailQueue
OldestIn(S, b) == b \subseteq S /\ \A n \in b, m \in S : m < n => m \in b

BatchOf(ms, ds, box) ==
  Unread(ms, box) \cap UNION {ds[d].mail : d \in Outstanding(ms, ds, box)}

\* The batch of a mailbox is out again, or the next one is; no other changes
Handed(ms, ds, es, box) ==
  /\ \/ BatchOf(ms, es, box) = BatchOf(ms, ds, box)
     \/ /\ BatchOf(ms, ds, box) = {} /\ BatchOf(ms, es, box) # {}
        /\ OldestIn(Unread(ms, box), BatchOf(ms, es, box))
  /\ \A other \in Boxes \ {box} : BatchOf(ms, es, other) = BatchOf(ms, ds, other)

-----------------------------------------------------------------------------
(* The batch is the mail of the outstanding delivery *)

LEMMA BatchMember ==
  ASSUME NEW ms, NEW ds, NEW box
  PROVE  BatchOf(ms, ds, box) =
           {n \in Unread(ms, box) : \E d \in DOMAIN ds : /\ ds[d].box = box
                                                         /\ ds[d].status = "outstanding"
                                                         /\ n \in ds[d].mail}
<1>1. ASSUME NEW n \in Unread(ms, box), NEW d \in DOMAIN ds, ds[d].box = box,
             ds[d].status = "outstanding", n \in ds[d].mail
      PROVE  d \in Outstanding(ms, ds, box)
  BY <1>1 DEF Outstanding, Unread
<1> QED BY <1>1 DEF BatchOf, Outstanding

LEMMA QueueStays ==
  ASSUME MailInv, NEW box \in Boxes, NEW S, MailKept(box, S), BoxKept(box)
  PROVE  /\ Unread(messages, box) \ S \subseteq Unread(messages', box)
         /\ \A n \in S : n \in Unread(messages, box) => n \notin Unread(messages', box)
         /\ Batch(box)' = Batch(box) \ S
<1>1. ASSUME NEW n \in Unread(messages, box)
      PROVE  n \in Unread(messages', box) <=> n \notin S
  BY DEF Unread, MailKept
<1>2. ASSUME NEW d \in DOMAIN deliveries, deliveries[d].box = box,
             deliveries[d].status = "outstanding",
             NEW n \in deliveries[d].mail, n \in Unread(messages', box)
      PROVE  n \in Unread(messages, box)
  <2>1. /\ n \in DOMAIN messages /\ messages[n].to \in Boxes
        /\ Open(box) => messages[n].read \/ messages[n].to = box
    BY <1>2 DEF MailInv, TablesSound, DeliverySound
  <2>2. ~messages'[n].read /\ messages'[n].to = box
    BY <1>2 DEF Unread
  <2>3. messages[n].to = box /\ ~messages[n].read
    BY <2>1, <2>2 DEF MailKept
  <2> QED BY <2>1, <2>3 DEF Unread
<1>3. BatchOf(messages', deliveries', box) = BatchOf(messages, deliveries, box) \ S
  BY <1>1, <1>2, BatchMember DEF BoxKept
<1> QED BY <1>1, <1>3 DEF Batch, BatchOf

LEMMA QueueArrives ==
  ASSUME MailInv, NEW box \in Boxes, MailKept(box, {}), BoxKept(box), ConsumerKept(box)
  PROVE  QueueStep(box)
<1>1. Unread(messages, box) \ {} \subseteq Unread(messages', box) /\ Batch(box)' = Batch(box) \ {}
  BY QueueStays
<1>2. Unread(messages, box) \subseteq Unread(messages', box) /\ Batch(box)' = Batch(box)
  BY <1>1
<1> QED BY <1>2 DEF QueueStep, Queue!Next, Queue!Arrive, ConsumerKept

LEMMA QueueReplaced ==
  ASSUME MailInv, NEW box \in Boxes, MailKept(box, {}), deliveries' = Fenced(box),
         Generation(box)' > Generation(box), UNCHANGED Open(box)
  PROVE  QueueStep(box)
<1>1. \A n \in Unread(messages, box) : n \in Unread(messages', box)
  BY DEF Unread, MailKept
<1>2. BatchOf(messages', deliveries', box) = {}
  <2>1. ASSUME NEW d \in DOMAIN deliveries', deliveries'[d].box = box
        PROVE  deliveries'[d].status # "outstanding"
    <3>1. d \in DOMAIN deliveries /\ deliveries[d] \in Delivery
      BY DeliveryType DEF Fenced, MailInv, TypeOK
    <3> QED BY <2>1, <3>1 DEF Fenced, Delivery
  <2> QED BY <2>1, BatchMember
<1>3. Batch(box)' = {}
  BY <1>2 DEF Batch, BatchOf
<1> QED BY <1>1, <1>3 DEF QueueStep, Queue!Next, Queue!Replace

LEMMA QueueUntouched ==
  ASSUME UNCHANGED <<messages, deliveries, runGen, workerGen, active>>
  PROVE  \A box \in Boxes : QueueStep(box)
BY DEF QueueStep, Batch, Outstanding, Generation, Open

\* A consumer's fence is on its own mailbox
LEMMA OtherBoxKept ==
  ASSUME TypeOK, NEW box \in Boxes, NEW other \in Boxes, box # other,
         deliveries' = Fenced(box)
  PROVE  BoxKept(other)
<1>1. \A d \in DOMAIN deliveries : deliveries[d] \in Delivery
  BY DeliveryType DEF TypeOK
<1> QED BY <1>1 DEF BoxKept, Fenced, Delivery

LEMMA DirectMailKept ==
  ASSUME TypeOK, NEW S, NEW to \in Boxes, messages' = Moved(S, to),
         \A n \in S : n \in DOMAIN messages => messages[n].to \in Panes
  PROVE  \A box \in Boxes : MailKept(box, {})
<1>1. \A n \in DOMAIN messages : messages[n].to \in Boxes => n \notin S
  BY DEF Boxes
<1>2. messages \in Seq(Message) /\ messages' = MovedIn(messages, S, to)
  BY DEF TypeOK, Moved
<1> QED BY <1>1, <1>2, MovedMail DEF MailKept

-----------------------------------------------------------------------------
(* Sends, consumers and routing *)

LEMMA SendQueues ==
  ASSUME MailInv, NEW r \in Boxes \cup Panes, NEW w \in Kinds, Send(r, w)
  PROVE  \A box \in Boxes : QueueStep(box)
<1>1. PICK new : messages' = Append(messages, new)
  BY DEF Send
<1>2. \A n \in DOMAIN messages : n \in DOMAIN messages' /\ messages'[n] = messages[n]
  <2>1. Len(messages) \in Nat /\ DOMAIN messages = 1..Len(messages)
    BY LenProperties DEF MailInv, TypeOK
  <2> QED BY <1>1, <2>1
<1>3. \A box \in Boxes : MailKept(box, {}) /\ BoxKept(box) /\ ConsumerKept(box)
  BY <1>2 DEF MailKept, BoxKept, ConsumerKept, Send, runVars, workerVars, Generation, Open
<1> QED BY <1>3, QueueArrives

\* An answer strikes one message off, wherever it is, and arrives
LEMMA ReplyQueues ==
  ASSUME MailInv, NEW n \in DOMAIN messages, NEW r \in Boxes \cup Panes, NEW w \in Kinds,
         Reply(n, r, w)
  PROVE  \A box \in Boxes : QueueStep(box)
<1> DEFINE new == [to |-> r, wanted |-> w, read |-> FALSE]
<1> DEFINE sent == Append(Struck({n}), new)
<1> DEFINE to == IF r \in Panes THEN BoxOf(r) ELSE r
<1> DEFINE moved == IF r \in Panes /\ to # "none" THEN Routable(sent, r, to) ELSE {}
<1>1. /\ Len(messages) < MaxMail /\ messages' = MovedIn(sent, moved, to)
      /\ UNCHANGED <<deliveries, runVars, workerVars>>
  BY DEF Reply
<1>2. new \in Message
  BY DEF Message
<1>3. moved # {} => to \in Boxes /\ r \in Panes /\ \A m \in moved : sent[m].to = r
  BY DEF BoxOf, Boxes, Routable, Unread
<1>4. AfterStriking(sent, {n}, new)
  <2>1. TypeOK
    BY DEF MailInv
  <2> HIDE DEF new
  <2> QED BY <1>1, <1>2, <2>1, StruckAndSent
<1> HIDE DEF new, sent, to, moved
<1>5. \A box \in Boxes : MailKept(box, {n})
  <2>1. \A m \in DOMAIN messages :
          m \in DOMAIN sent /\ (messages[m].to \in Boxes => m \notin moved)
    BY <1>3, <1>4 DEF Boxes, AfterStriking
  <2>2. sent \in Seq(Message)
    BY <1>4 DEF AfterStriking
  <2>3. /\ DOMAIN messages' = DOMAIN sent
        /\ \A m \in DOMAIN sent : m \notin moved =>
             messages'[m].to = sent[m].to /\ (messages'[m].read <=> sent[m].read)
    BY <1>1, <1>3, <2>2, MovedMail
  <2> QED BY <1>4, <2>1, <2>3 DEF MailKept, AfterStriking
<1>6. ASSUME NEW box \in Boxes PROVE QueueStep(box)
  <2>1. BoxKept(box) /\ ConsumerKept(box)
    BY <1>1 DEF BoxKept, ConsumerKept, Generation, Open, runVars, workerVars
  <2>2. CASE n \in Unread(messages, box)
    <3>1. /\ Unread(messages, box) \ {n} \subseteq Unread(messages', box)
          /\ n \notin Unread(messages', box)
          /\ Batch(box)' = Batch(box) \ {n}
      BY <1>5, <2>1, <2>2, QueueStays
    <3>2. Queue(box)!Answer
      BY <2>1, <2>2, <3>1 DEF Queue!Answer, ConsumerKept
    <3> QED BY <3>2 DEF QueueStep, Queue!Next
  <2>3. CASE n \notin Unread(messages, box)
    <3>1. /\ Unread(messages, box) \ {n} \subseteq Unread(messages', box)
          /\ Batch(box)' = Batch(box) \ {n}
      BY <1>5, <2>1, QueueStays
    <3>2. Unread(messages, box) \subseteq Unread(messages', box) /\ Batch(box)' = Batch(box)
      BY <2>3, <3>1 DEF Batch
    <3>3. Queue(box)!Arrive
      BY <2>1, <3>2 DEF Queue!Arrive, ConsumerKept
    <3> QED BY <3>3 DEF QueueStep, Queue!Next
  <2> QED BY <2>2, <2>3
<1> QED BY <1>6

\* A report supersedes heartbeats of the Run's mailbox and closes the dispatch's
LEMMA ReportQueues ==
  ASSUME MailInv, NEW S \in SUBSET Unread(messages, "run"), NEW w \in Kinds, Report(S, w)
  PROVE  \A box \in Boxes : QueueStep(box)
<1> DEFINE new == [to |-> "run", wanted |-> w, read |-> FALSE]
<1> DEFINE k == Len(messages) + 1
<1>1. /\ Len(messages) < MaxMail /\ messages' = Append(Struck(S), new)
      /\ active /\ ~active' /\ UNCHANGED <<deliveries, runGen, workerGen>>
  BY DEF Report, runVars
<1>2. new \in Message /\ new.to = "run" /\ ~new.read
  BY DEF Message, Boxes
<1>3. AfterStriking(messages', S, new)
  <2>1. TypeOK
    BY DEF MailInv
  <2> HIDE DEF new
  <2>2. AfterStriking(Append(Struck(S), new), S, new)
    BY <1>1, <1>2, <2>1, StruckAndSent
  <2> QED BY <1>1, <2>2
<1> HIDE DEF new
<1>4. MailKept("run", S) /\ MailKept("dispatch", S)
  BY <1>3 DEF MailKept, AfterStriking
<1>5. BoxKept("run") /\ BoxKept("dispatch")
  BY <1>1 DEF BoxKept
<1>6. QueueStep("run")
  <2>1. /\ Unread(messages, "run") \ S \subseteq Unread(messages', "run")
        /\ \A n \in S : n \in Unread(messages, "run") => n \notin Unread(messages', "run")
        /\ Batch("run")' = Batch("run") \ S
    BY <1>4, <1>5, QueueStays DEF Boxes
  <2>2. Batch("run")' = Batch("run") \cap Unread(messages', "run")
    BY <2>1 DEF Batch
  <2>3. k \in Unread(messages', "run") /\ \A m \in Unread(messages, "run") : m < k
    BY <1>2, <1>3 DEF Unread, AfterStriking
  <2>4. UNCHANGED <<Generation("run"), Open("run")>>
    BY <1>1 DEF Generation, Open
  <2>5. Queue("run")!Supersede
    BY <2>2, <2>3, <2>4 DEF Queue!Supersede
  <2> QED BY <2>5 DEF QueueStep, Queue!Next
<1>7. QueueStep("dispatch")
  <2>1. Batch("dispatch")' = Batch("dispatch") \ S
    BY <1>4, <1>5, QueueStays DEF Boxes
  <2>2. \A n \in S : n \notin Unread(messages, "dispatch")
    BY DEF Unread
  <2>3. Batch("dispatch")' = Batch("dispatch")
    BY <2>1, <2>2 DEF Batch
  <2>4. Unread(messages', "dispatch") = Unread(messages, "dispatch")
    <3>1. ASSUME NEW n \in DOMAIN messages'
          PROVE  n \in Unread(messages', "dispatch") => n \in DOMAIN messages
      BY <1>2, <1>3 DEF Unread, AfterStriking
    <3>2. ASSUME NEW n \in DOMAIN messages
          PROVE  n \in Unread(messages', "dispatch") <=> n \in Unread(messages, "dispatch")
      BY <1>3, <2>2 DEF Unread, AfterStriking
    <3> QED BY <3>1, <3>2 DEF Unread
  <2>5. Queue("dispatch")!Close
    BY <1>1, <2>3, <2>4 DEF Queue!Close, Generation, Open
  <2> QED BY <2>5 DEF QueueStep, Queue!Next
<1> QED BY <1>6, <1>7 DEF Boxes

LEMMA RunReboundQueues ==
  ASSUME MailInv, \A box \in Boxes : MailKept(box, {}), deliveries' = Fenced("run"),
         runGen' = runGen + 1, UNCHANGED workerVars
  PROVE  \A box \in Boxes : QueueStep(box)
<1>1. QueueStep("run")
  <2>1. Generation("run")' > Generation("run") /\ UNCHANGED Open("run")
    BY DEF Generation, Open, MailInv, TypeOK
  <2> QED BY <2>1, QueueReplaced DEF Boxes
<1>2. QueueStep("dispatch")
  <2>1. BoxKept("dispatch")
    BY OtherBoxKept DEF Boxes, MailInv
  <2>2. ConsumerKept("dispatch")
    BY DEF ConsumerKept, Generation, Open, workerVars
  <2> QED BY <2>1, <2>2, QueueArrives DEF Boxes
<1> QED BY <1>1, <1>2 DEF Boxes

LEMMA BindQueues ==
  ASSUME MailInv, NEW p \in Panes, Bind(p)
  PROVE  \A box \in Boxes : QueueStep(box)
<1>1. \A box \in Boxes : MailKept(box, {})
  <2>1. messages' = Moved(Direct({p, runPane} \cap Panes), "run")
    BY DEF Bind
  <2>2. \A n \in Direct({p, runPane} \cap Panes) : messages[n].to \in Panes
    BY DEF Direct, Unread
  <2> QED BY <2>1, <2>2, DirectMailKept DEF Boxes, MailInv
<1>2. CASE p = runPane
  <2>1. \A box \in Boxes : BoxKept(box) /\ ConsumerKept(box)
    BY <1>2 DEF Bind, BoxKept, ConsumerKept, Generation, Open, workerVars
  <2> QED BY <1>1, <2>1, QueueArrives
<1>3. CASE p # runPane
  BY <1>1, <1>3, RunReboundQueues DEF Bind
<1> QED BY <1>2, <1>3

LEMMA UnbindQueues ==
  ASSUME MailInv, Unbind
  PROVE  \A box \in Boxes : QueueStep(box)
<1>1. \A n \in Direct({runPane}) : messages[n].to \in Panes
  BY DEF Unbind, Direct, Unread, MailInv, TypeOK
<1>2. \A box \in Boxes : MailKept(box, {})
  BY <1>1, DirectMailKept DEF Unbind, Boxes, MailInv
<1> QED BY <1>2, RunReboundQueues DEF Unbind

LEMMA AttachQueues ==
  ASSUME MailInv, NEW p \in Panes, Attach(p)
  PROVE  \A box \in Boxes : QueueStep(box)
<1>1. \A box \in Boxes : MailKept(box, {})
  BY DEF Attach, MailKept
<1>2. QueueStep("dispatch")
  <2>1. Generation("dispatch")' > Generation("dispatch") /\ UNCHANGED Open("dispatch")
    BY DEF Attach, Generation, Open, MailInv, TypeOK
  <2> QED BY <1>1, <2>1, QueueReplaced DEF Attach, Boxes
<1>3. QueueStep("run")
  <2>1. BoxKept("run")
    BY OtherBoxKept DEF Attach, Boxes, MailInv
  <2>2. ConsumerKept("run")
    BY DEF Attach, ConsumerKept, Generation, Open, runVars
  <2> QED BY <1>1, <2>1, <2>2, QueueArrives DEF Boxes
<1> QED BY <1>2, <1>3 DEF Boxes

LEMMA SettleQueues ==
  ASSUME MailInv, Settle
  PROVE  \A box \in Boxes : QueueStep(box)
<1>1. UNCHANGED <<messages, deliveries, runGen, workerGen>> /\ active /\ ~active'
  BY DEF Settle, tables, runVars
<1>2. QueueStep("run")
  BY <1>1 DEF QueueStep, Batch, Outstanding, Generation, Open
<1>3. QueueStep("dispatch")
  <2>1. Queue("dispatch")!Close
    BY <1>1 DEF Queue!Close, Batch, Outstanding, Generation, Open
  <2> QED BY <2>1 DEF QueueStep, Queue!Next
<1> QED BY <1>2, <1>3 DEF Boxes

LEMMA RoutePageQueues ==
  ASSUME MailInv, NEW c \in Calls, NEW call, call.box \in Boxes, call.pane \in Panes,
         RoutePage(c, call), UNCHANGED <<deliveries, runVars, workerVars>>
  PROVE  \A box \in Boxes : QueueStep(box)
<1>1. \A n \in FirstOf(ToRoute(call), PageLimit) : messages[n].to \in Panes
  BY DEF FirstOf, ToRoute, Routable, Unread
<1>2. \A box \in Boxes : MailKept(box, {})
  BY <1>1, DirectMailKept DEF RoutePage, MailInv
<1>3. \A box \in Boxes : BoxKept(box) /\ ConsumerKept(box)
  BY DEF BoxKept, ConsumerKept, Generation, Open, runVars, workerVars
<1> QED BY <1>2, <1>3, QueueArrives

LEMMA StartQueues ==
  ASSUME MailInv, NEW c \in Calls, NEW p \in Panes, NEW ack, NEW waits, NEW wanted,
         Start(c, p, ack, waits, wanted)
  PROVE  \A box \in Boxes : QueueStep(box)
<1> DEFINE call == [pc |-> "routing", pane |-> p, box |-> BoxOf(p),
                    gen |-> IF BoxOf(p) = "run" THEN runGen ELSE workerGen,
                    through |-> Latest(Unread(messages, p)),
                    ack |-> ack, acked |-> FALSE, waits |-> waits, wanted |-> wanted]
<1>1. RoutePage(c, call) /\ UNCHANGED <<deliveries, runVars, workerVars>>
  BY DEF Start
<1>2. call.box \in Boxes /\ call.pane \in Panes
  BY DEF Start, BoxOf, Boxes
<1> HIDE DEF call
<1> QED BY <1>1, <1>2, RoutePageQueues

LEMMA RouteQueues ==
  ASSUME MailInv, NEW c \in Calls, Route(c)
  PROVE  \A box \in Boxes : QueueStep(box)
<1>1. calls[c].box \in Boxes /\ calls[c].pane \in Panes
  <2>1. calls[c] \in Routing
    BY CallOf DEF Route, MailInv
  <2> QED BY <2>1 DEF Routing
<1> QED BY <1>1, RoutePageQueues DEF Route

\* What leaves the mailbox of an ended dispatch arrives in the Run's
LEMMA ForwardQueues ==
  ASSUME MailInv, NEW c \in Calls, Forward(c)
  PROVE  \A box \in Boxes : QueueStep(box)
<1> DEFINE page == FirstOf(ToForward(calls[c]), PageLimit)
<1>1. /\ calls[c].pc = "forwarding" /\ messages' = Moved(page, "run")
      /\ UNCHANGED <<deliveries, runVars, workerVars>>
  BY DEF Forward
<1>2. ~active
  BY <1>1 DEF MailInv, CallInv
<1>3. \A n \in page : n \in DOMAIN messages /\ messages[n].to = "dispatch"
  BY DEF FirstOf, ToForward, Unread
<1> HIDE DEF page
<1>4. /\ DOMAIN messages' = DOMAIN messages
      /\ \A n \in DOMAIN messages :
           /\ messages'[n].to = IF n \in page THEN "run" ELSE messages[n].to
           /\ messages'[n].read <=> messages[n].read
  <2>1. messages \in Seq(Message) /\ messages' = MovedIn(messages, page, "run")
    BY <1>1 DEF MailInv, TypeOK, Moved
  <2> QED BY <2>1, MovedMail DEF Boxes
<1>5. QueueStep("run")
  <2>1. MailKept("run", {})
    BY <1>3, <1>4 DEF MailKept, Open
  <2>2. BoxKept("run") /\ ConsumerKept("run")
    BY <1>1 DEF BoxKept, ConsumerKept, Generation, Open, runVars
  <2> QED BY <2>1, <2>2, QueueArrives DEF Boxes
<1>6. QueueStep("dispatch")
  <2>1. Unread(messages', "dispatch") = Unread(messages, "dispatch") \ page
    BY <1>3, <1>4 DEF Unread
  <2>2. BatchOf(messages', deliveries', "dispatch")
          = BatchOf(messages, deliveries, "dispatch") \cap Unread(messages', "dispatch")
    BY <1>1, <2>1, BatchMember
  <2>3. Queue("dispatch")!Forward
    BY <1>1, <1>2, <2>1, <2>2
       DEF Queue!Forward, Batch, BatchOf, Generation, Open, workerVars
  <2> QED BY <2>3 DEF QueueStep, Queue!Next
<1> QED BY <1>5, <1>6 DEF Boxes

-----------------------------------------------------------------------------
(* A check: the batch is acknowledged as a whole and the next one made *)

\* With nothing outstanding there is no batch
LEMMA NoBatch ==
  ASSUME NEW ms, NEW ds, NEW box, Replayable(ms, ds, box) = {}
  PROVE  BatchOf(ms, ds, box) = {}
BY DEF Replayable, BatchOf

\* What is handed out is the batch again, or the oldest mail when there is none
LEMMA HandedQueues ==
  ASSUME MailInv, NEW c \in Calls, NEW call,
         call.box \in Boxes, call.gen = Generation(call.box), Open(call.box),
         NEW ms \in Seq(Message), Len(ms) <= MaxMail,
         NEW ds \in Seq(Delivery), TablesSound(ms, ds),
         Replayable(ms, ds, call.box) = {} => Unread(ms, call.box) # {},
         HandOut(c, call, ms, ds)
  PROVE  Handed(ms, ds, deliveries', call.box)
<1>1. CASE Replayable(ms, ds, call.box) # {}
  BY <1>1 DEF HandOut, Handed
<1>2. CASE Replayable(ms, ds, call.box) = {}
  <2> DEFINE oldest == FirstOf(Unread(ms, call.box), PageLimit)
  <2> DEFINE row == [box |-> call.box, gen |-> Generation(call.box), mail |-> oldest,
                     status |-> "outstanding"]
  <2>1. deliveries' = Append(ds, row)
    BY <1>2 DEF HandOut
  <2>2. row.box = call.box /\ row.status = "outstanding" /\ row.mail = oldest
    OBVIOUS
  <2>3. /\ oldest \subseteq Unread(ms, call.box) /\ oldest # {}
        /\ \A n \in oldest, m \in Unread(ms, call.box) : m < n => m \in oldest
    <3>1. Unread(ms, call.box) \in SUBSET (1..MaxMail)
      BY MailType
    <3> QED BY <1>2, <3>1, FirstOfSome
  <2> DEFINE k == Len(ds) + 1
  <2>4. /\ DOMAIN deliveries' = DOMAIN ds \cup {k} /\ k \notin DOMAIN ds
        /\ deliveries'[k] = row /\ \A d \in DOMAIN ds : deliveries'[d] = ds[d]
    <3>1. TypeOK
      BY DEF MailInv
    <3> HIDE DEF row
    <3> QED BY <1>2, <2>1, <3>1, NewDelivery DEF row
  <2> HIDE DEF oldest, row, k
  <2>5. BatchOf(ms, ds, call.box) = {}
    BY <1>2, NoBatch
  <2>6. BatchOf(ms, deliveries', call.box) = oldest
    <3>1. ASSUME NEW d \in DOMAIN ds, ds[d].box = call.box, ds[d].status = "outstanding",
                 NEW n \in ds[d].mail
          PROVE  n \notin Unread(ms, call.box)
      BY <1>2, <3>1, AllRead DEF Unread
    <3>2. ASSUME NEW n \in Unread(ms, call.box)
          PROVE  (\E d \in DOMAIN deliveries' :
                    /\ deliveries'[d].box = call.box
                    /\ deliveries'[d].status = "outstanding"
                    /\ n \in deliveries'[d].mail) <=> n \in oldest
      BY <2>2, <2>4, <3>1, <3>2
    <3> QED BY <2>3, <3>2, BatchMember
  <2>7. ASSUME NEW box \in Boxes \ {call.box}
        PROVE  BatchOf(ms, deliveries', box) = BatchOf(ms, ds, box)
    <3>1. deliveries'[k].box # box
      BY <2>2, <2>4
    <3>2. ASSUME NEW n
          PROVE  (\E d \in DOMAIN deliveries' : /\ deliveries'[d].box = box
                                               /\ deliveries'[d].status = "outstanding"
                                               /\ n \in deliveries'[d].mail)
                 <=> (\E d \in DOMAIN ds : /\ ds[d].box = box
                                            /\ ds[d].status = "outstanding"
                                            /\ n \in ds[d].mail)
      BY <2>4, <3>1
    <3> QED BY <3>2, BatchMember
  <2> QED BY <2>3, <2>5, <2>6, <2>7 DEF Handed, OldestIn
<1> QED BY <1>1, <1>2

\* Nothing of a mailbox is touched
Untouched(ms, ds, box) ==
  /\ Unread(ms, box) = Unread(messages, box)
  /\ BatchOf(ms, ds, box) = BatchOf(messages, deliveries, box)

\* An acknowledgement strikes off the batch of its mailbox, unless all of it
\* was read already, and leaves no other
LEMMA AcknowledgedQueues ==
  ASSUME MailInv, NEW call, call.box \in Boxes, Open(call.box), AckAllowed(call),
         call.ack \in DOMAIN deliveries \cup {0}, Acks(call),
         NEW ms, ms = AckedMail(call), NEW ds, ds = AckedDeliveries(call)
  PROVE  /\ \/ /\ BatchOf(messages, deliveries, call.box) # {}
               /\ Unread(ms, call.box)
                    = Unread(messages, call.box) \ BatchOf(messages, deliveries, call.box)
               /\ BatchOf(ms, ds, call.box) = {}
            \/ Untouched(ms, ds, call.box)
         /\ \A box \in Boxes \ {call.box} : Untouched(ms, ds, box)
<1> PICK a : a = call.ack
  OBVIOUS
<1>1. /\ a \in DOMAIN deliveries /\ deliveries[a].box = call.box
      /\ deliveries[a].status = "outstanding"
  BY DEF AckAllowed, Acks
<1>2. \A n \in deliveries[a].mail :
        n \in DOMAIN messages /\ (messages[n].read \/ messages[n].to = call.box)
  BY <1>1 DEF MailInv, TablesSound, DeliverySound
<1>3. /\ DOMAIN ds = DOMAIN deliveries
      /\ \A d \in DOMAIN deliveries :
           /\ ds[d].box = deliveries[d].box /\ ds[d].mail = deliveries[d].mail
           /\ ds[d].status = IF d = a THEN "acknowledged" ELSE deliveries[d].status
  <2>1. \A d \in DOMAIN deliveries : deliveries[d] \in Delivery
    BY DeliveryType DEF MailInv, TypeOK
  <2>2. ds = [deliveries EXCEPT ![a].status = "acknowledged"]
    BY DEF AckedDeliveries
  <2> QED BY <1>1, <2>1, <2>2 DEF Delivery
<1>4. /\ DOMAIN ms = DOMAIN messages
      /\ \A n \in DOMAIN messages :
           /\ ms[n].to = messages[n].to
           /\ ms[n].read <=> (messages[n].read \/ n \in deliveries[a].mail)
  <2>1. ms = Struck(deliveries[a].mail) /\ TypeOK
    BY DEF AckedMail, MailInv
  <2> QED BY <2>1, StruckMail
<1>5. ASSUME NEW box PROVE Unread(ms, box) = Unread(messages, box) \ deliveries[a].mail
  BY <1>4 DEF Unread
<1>6. ASSUME NEW box \in Boxes \ {call.box} PROVE Untouched(ms, ds, box)
  <2>1. Unread(ms, box) = Unread(messages, box)
    <3>1. \A n \in deliveries[a].mail : n \notin Unread(messages, box)
      BY <1>2 DEF Unread
    <3> QED BY <1>5, <3>1
  <2>2. BatchOf(ms, ds, box) = BatchOf(messages, deliveries, box)
    <3> DEFINE Out(n) == \E d \in DOMAIN deliveries :
                           /\ deliveries[d].box = box /\ deliveries[d].status = "outstanding"
                           /\ n \in deliveries[d].mail
    <3>1. BatchOf(messages, deliveries, box) = {n \in Unread(messages, box) : Out(n)}
      BY BatchMember
    <3>2. BatchOf(ms, ds, box) = {n \in Unread(messages, box) : Out(n)}
      BY <1>1, <1>3, <2>1, BatchMember
    <3> QED BY <3>1, <3>2
  <2> QED BY <2>1, <2>2 DEF Untouched
<1>7. CASE a \in Outstanding(messages, deliveries, call.box)
  <2>1. ASSUME NEW d \in DOMAIN deliveries, d # a, deliveries[d].box = call.box,
               deliveries[d].status = "outstanding", NEW n \in deliveries[d].mail
        PROVE  n \notin Unread(messages, call.box)
    <3>1. d \notin Outstanding(messages, deliveries, call.box)
      BY <1>7, <2>1 DEF MailInv, TablesSound, OneOutstanding
    <3> QED BY <2>1, <3>1 DEF Outstanding, Unread
  <2>2. BatchOf(messages, deliveries, call.box)
          = Unread(messages, call.box) \cap deliveries[a].mail
    BY <1>1, <2>1, BatchMember
  <2>3. BatchOf(messages, deliveries, call.box) # {}
    <3>1. PICK n \in deliveries[a].mail : ~messages[n].read
      BY <1>7 DEF Outstanding
    <3>2. n \in Unread(messages, call.box)
      BY <1>2, <3>1 DEF Unread
    <3> QED BY <2>2, <3>2
  <2>4. Unread(ms, call.box)
          = Unread(messages, call.box) \ BatchOf(messages, deliveries, call.box)
    BY <1>5, <2>2
  <2>5. BatchOf(ms, ds, call.box) = {}
    BY <1>3, <1>5, <2>1, BatchMember
  <2> QED BY <1>6, <2>3, <2>4, <2>5
<1>8. CASE a \notin Outstanding(messages, deliveries, call.box)
  <2>1. \A n \in deliveries[a].mail : n \notin Unread(messages, call.box)
    BY <1>1, <1>8 DEF Outstanding, Unread
  <2>2. Unread(ms, call.box) = Unread(messages, call.box)
    BY <1>5, <2>1
  <2>3. BatchOf(ms, ds, call.box) = BatchOf(messages, deliveries, call.box)
    <3>1. ASSUME NEW n \in Unread(messages, call.box)
          PROVE  (\E d \in DOMAIN ds : /\ ds[d].box = call.box /\ ds[d].status = "outstanding"
                                       /\ n \in ds[d].mail)
                 <=> (\E d \in DOMAIN deliveries :
                        /\ deliveries[d].box = call.box /\ deliveries[d].status = "outstanding"
                        /\ n \in deliveries[d].mail)
      BY <1>3, <2>1
    <3> QED BY <2>2, <3>1, BatchMember
  <2> QED BY <1>6, <2>2, <2>3 DEF Untouched
<1> QED BY <1>7, <1>8

LEMMA AwakeQueues ==
  ASSUME MailInv, NEW c \in Calls, Awake(c)
  PROVE  \A box \in Boxes : QueueStep(box)
<1> PICK call : call = calls[c]
  OBVIOUS
<1>1. UNCHANGED <<messages, runGen, workerGen, active>>
  BY DEF Awake, runVars, workerVars
<1>2. call.box \in Boxes
  <2>1. calls[c] \in Waiting
    BY CallOf DEF Awake, MailInv
  <2> QED BY <2>1 DEF Waiting
<1>3. CASE UNCHANGED deliveries
  BY <1>1, <1>3, QueueUntouched
<1>4. CASE ~UNCHANGED deliveries
  <2>1. /\ HandOut(c, call, messages, deliveries)
        /\ ~(call.box = "dispatch" /\ ~active) /\ StillConsumer(call)
        /\ Replayable(messages, deliveries, call.box) = {}
             => ~Nothing(messages, call, call.wanted)
    BY <1>4 DEF Awake
  <2>2. Open(call.box) /\ call.gen = Generation(call.box)
    BY <1>2, <2>1 DEF Open, StillConsumer, Holds, Generation, Boxes
  <2>3. Replayable(messages, deliveries, call.box) = {} => Unread(messages, call.box) # {}
    BY <2>1 DEF Nothing
  <2>4. Handed(messages, deliveries, deliveries', call.box)
    <3>1. /\ messages \in Seq(Message) /\ Len(messages) <= MaxMail
          /\ deliveries \in Seq(Delivery) /\ TablesSound(messages, deliveries)
      BY DEF MailInv, TypeOK
    <3> QED BY <1>2, <2>1, <2>2, <2>3, <3>1, HandedQueues
  <2>5. \A box \in Boxes : Batch(box) = BatchOf(messages, deliveries, box)
                           /\ Batch(box)' = BatchOf(messages, deliveries', box)
    BY <1>1 DEF Batch, BatchOf
  <2>6. \A box \in Boxes : UNCHANGED <<Unread(messages, box), Generation(box), Open(box)>>
    BY <1>1 DEF Generation, Open
  <2>7. ASSUME NEW box \in Boxes, Batch(box)' = Batch(box) PROVE QueueStep(box)
    BY <2>6, <2>7 DEF QueueStep
  <2>8. ASSUME Batch(call.box)' # Batch(call.box) PROVE QueueStep(call.box)
    <3>1. Queue(call.box)!HandOut
      BY <1>2, <2>2, <2>4, <2>5, <2>6, <2>8
         DEF Queue!HandOut, Queue!OldestOf, OldestIn, Handed
    <3> QED BY <3>1 DEF QueueStep, Queue!Next
  <2> QED BY <2>4, <2>5, <2>7, <2>8 DEF Handed
<1> QED BY <1>3, <1>4

LEMMA ProceedQueues ==
  ASSUME MailInv, NEW c \in Calls, Proceed(c)
  PROVE  \A box \in Boxes : QueueStep(box)
<1> PICK call : call = [calls[c] EXCEPT !.acked = @ \/ calls[c].ack # 0]
  OBVIOUS
<1> PICK ms : ms = AckedMail(call)
  OBVIOUS
<1> PICK ds : ds = AckedDeliveries(call)
  OBVIOUS
<1>1. UNCHANGED <<runGen, workerGen, active>>
  BY DEF Proceed, runVars, workerVars
<1>2. call.box \in Boxes /\ call.ack \in DOMAIN deliveries \cup {0}
  <2>1. calls[c] \in Routing /\ calls[c].ack \in DOMAIN deliveries \cup {0}
    BY CallOf DEF Proceed, MailInv, CallInv
  <2> QED BY <2>1 DEF Routing
<1>3. CASE UNCHANGED tables
  BY <1>1, <1>3, QueueUntouched DEF tables
<1>4. CASE ~UNCHANGED tables
  <2>1. /\ ~(call.box = "dispatch" /\ ~active) /\ Holds(call) /\ AckAllowed(call)
        /\ messages' = ms
        /\ \/ /\ HandOut(c, call, ms, ds)
              /\ Replayable(ms, ds, call.box) = {} => ~Nothing(ms, call, call.wanted)
           \/ deliveries' = ds
    BY <1>4 DEF Proceed
  <2>2. Open(call.box) /\ call.gen = Generation(call.box)
    BY <1>2, <2>1 DEF Open, Holds, Generation, Boxes
  <2>3. /\ ms \in Seq(Message) /\ Len(ms) <= MaxMail
        /\ ds \in Seq(Delivery) /\ TablesSound(ms, ds)
    <3>1. TypeOK /\ TablesSound(messages, deliveries) /\ Len(messages) <= MaxMail
      BY DEF MailInv, TypeOK
    <3> QED BY <1>2, <2>1, <2>2, <3>1, AckKeeps
  <2>4. Handed(ms, ds, deliveries', call.box)
    <3>1. CASE deliveries' = ds
      BY <3>1 DEF Handed
    <3>2. CASE /\ HandOut(c, call, ms, ds)
               /\ Replayable(ms, ds, call.box) = {} => ~Nothing(ms, call, call.wanted)
      <4>1. Replayable(ms, ds, call.box) = {} => Unread(ms, call.box) # {}
        BY <3>2 DEF Nothing
      <4> QED BY <1>2, <2>2, <2>3, <3>2, <4>1, HandedQueues
    <3> QED BY <2>1, <3>1, <3>2
  <2>5. \A box \in Boxes : /\ Batch(box) = BatchOf(messages, deliveries, box)
                           /\ Batch(box)' = BatchOf(ms, deliveries', box)
                           /\ Unread(messages, box)' = Unread(ms, box)
    BY <2>1 DEF Batch, BatchOf
  <2>6. \A box \in Boxes : UNCHANGED <<Generation(box), Open(box)>>
    BY <1>1 DEF Generation, Open
  <2>7. \/ /\ BatchOf(messages, deliveries, call.box) # {}
           /\ Unread(ms, call.box)
                = Unread(messages, call.box) \ BatchOf(messages, deliveries, call.box)
           /\ BatchOf(ms, ds, call.box) = {}
           /\ \A box \in Boxes \ {call.box} : Untouched(ms, ds, box)
        \/ \A box \in Boxes : Untouched(ms, ds, box)
    <3>1. CASE Acks(call)
      <4>1. /\ \/ /\ BatchOf(messages, deliveries, call.box) # {}
                  /\ Unread(ms, call.box)
                       = Unread(messages, call.box) \ BatchOf(messages, deliveries, call.box)
                  /\ BatchOf(ms, ds, call.box) = {}
               \/ Untouched(ms, ds, call.box)
            /\ \A box \in Boxes \ {call.box} : Untouched(ms, ds, box)
        BY <1>2, <2>1, <2>2, <3>1, AcknowledgedQueues
      <4> QED BY <4>1
    <3>2. CASE ~Acks(call)
      BY <3>2 DEF AckedMail, AckedDeliveries, Untouched
    <3> QED BY <3>1, <3>2
  <2>8. ASSUME NEW box \in Boxes, Untouched(ms, ds, box),
               BatchOf(ms, deliveries', box) = BatchOf(ms, ds, box)
        PROVE  QueueStep(box)
    BY <2>5, <2>6, <2>8 DEF QueueStep, Untouched
  <2>9. CASE /\ BatchOf(messages, deliveries, call.box) # {}
             /\ Unread(ms, call.box)
                  = Unread(messages, call.box) \ BatchOf(messages, deliveries, call.box)
             /\ BatchOf(ms, ds, call.box) = {}
             /\ \A box \in Boxes \ {call.box} : Untouched(ms, ds, box)
    <3>1. OldestIn(Unread(ms, call.box), BatchOf(ms, deliveries', call.box))
      BY <2>4, <2>9 DEF Handed, OldestIn
    <3>2. Queue(call.box)!Acknowledge
      BY <1>2, <2>2, <2>5, <2>6, <2>9, <3>1
         DEF Queue!Acknowledge, Queue!OldestOf, OldestIn
    <3> QED BY <2>4, <2>8, <2>9, <3>2 DEF QueueStep, Queue!Next, Handed
  <2>10. CASE \A box \in Boxes : Untouched(ms, ds, box)
    <3>1. ASSUME BatchOf(ms, deliveries', call.box) # BatchOf(ms, ds, call.box)
          PROVE  QueueStep(call.box)
      <4>1. Queue(call.box)!HandOut
        BY <1>2, <2>2, <2>4, <2>5, <2>6, <2>10, <3>1
           DEF Queue!HandOut, Queue!OldestOf, OldestIn, Handed, Untouched
      <4> QED BY <4>1 DEF QueueStep, Queue!Next
    <3> QED BY <1>2, <2>4, <2>8, <2>10, <3>1 DEF Handed
  <2> QED BY <2>7, <2>9, <2>10
<1> QED BY <1>3, <1>4

-----------------------------------------------------------------------------
(* The theorems *)

LEMMA NextQueues ==
  ASSUME MailInv, [Next]_vars
  PROVE  \A box \in Boxes : QueueStep(box)
<1>1. CASE \E r \in Boxes \cup Panes, w \in Kinds :
             Send(r, w) \/ \E n \in DOMAIN messages : Reply(n, r, w)
  BY <1>1, SendQueues, ReplyQueues
<1>2. CASE \E w \in Kinds, S \in SUBSET Unread(messages, "run") : Report(S, w)
  BY <1>2, ReportQueues
<1>3. CASE \E p \in Panes : Bind(p) \/ Attach(p)
  BY <1>3, BindQueues, AttachQueues
<1>4. CASE Unbind \/ Settle
  BY <1>4, UnbindQueues, SettleQueues
<1>5. CASE \/ Restart \/ UNCHANGED vars
           \/ \E c \in Calls : End(c)
           \/ \E w \in Kinds : Nudge(w)
  <2>1. UNCHANGED <<messages, deliveries, runGen, workerGen, active>>
    BY <1>5 DEF Restart, End, Nudge, vars, tables, runVars, workerVars
  <2> QED BY <2>1, QueueUntouched
<1>6. CASE \E c \in Calls :
             \E p \in Panes, ack \in DOMAIN deliveries \cup {0}, waits, wanted \in BOOLEAN :
               Start(c, p, ack, waits, wanted)
  BY <1>6, StartQueues
<1>7. CASE \E c \in Calls : RuntimeStep(c)
  BY <1>7, RouteQueues, ProceedQueues, AwakeQueues, ForwardQueues DEF RuntimeStep
<1> QED BY <1>1, <1>2, <1>3, <1>4, <1>5, <1>6, <1>7 DEF Next

LEMMA InitQueues == Init => \A box \in Boxes : Queue(box)!Init
BY DEF Init, Queue!Init, Unread, Batch, Generation, Open

(* The mailbox of a Run is a queue of batches for its present consumer:    *)
(* the oldest mail first, the same batch until it is acknowledged as a     *)
(* whole, nothing lost when another pane binds (check-run.ts).             *)
THEOREM RunMailboxIsQueue == Spec => RunQueue
<1>1. Queue("run")!Init => RunMail!Init
  BY DEF Queue!Init, RunMail!Init, Generation, Open
<1>2. QueueStep("run") => [RunMail!Next]_(RunMail!vars)
  BY DEF QueueStep, Generation, Open, RunMail!vars,
         Queue!Next, Queue!Arrive, Queue!Answer, Queue!Supersede, Queue!HandOut,
         Queue!Acknowledge, Queue!Replace, Queue!Close, Queue!Forward, Queue!OldestOf,
         RunMail!Next, RunMail!Arrive, RunMail!Answer, RunMail!Supersede, RunMail!HandOut,
         RunMail!Acknowledge, RunMail!Replace, RunMail!Close, RunMail!Forward, RunMail!OldestOf
<1>3. Init => RunMail!Init
  BY <1>1, InitQueues DEF Boxes
<1>4. MailInv /\ [Next]_vars => [RunMail!Next]_(RunMail!vars)
  BY <1>2, NextQueues DEF Boxes
<1> QED BY <1>3, <1>4, MailInvariance, PTL DEF Spec, RunQueue, RunMail!Spec

(* The mailbox of a dispatch is such a queue for the process attached to   *)
(* it, until the dispatch ends and its mail moves on (check-worker.ts).    *)
THEOREM DispatchMailboxIsQueue == Spec => DispatchQueue
<1>1. Queue("dispatch")!Init => DispatchMail!Init
  BY DEF Queue!Init, DispatchMail!Init, Generation, Open
<1>2. ASSUME QueueStep("dispatch"), active \in BOOLEAN, active' \in BOOLEAN
      PROVE  [DispatchMail!Next]_(DispatchMail!vars)
  <2>1. Open("dispatch") = active /\ Open("dispatch")' = active'
        /\ Generation("dispatch") = workerGen /\ Generation("dispatch")' = workerGen'
    BY <1>2 DEF Open, Generation
  <2> QED BY <1>2, <2>1
          DEF QueueStep, DispatchMail!vars,
              Queue!Next, Queue!Arrive, Queue!Answer, Queue!Supersede, Queue!HandOut,
              Queue!Acknowledge, Queue!Replace, Queue!Close, Queue!Forward, Queue!OldestOf,
              DispatchMail!Next, DispatchMail!Arrive, DispatchMail!Answer,
              DispatchMail!Supersede, DispatchMail!HandOut,
              DispatchMail!Acknowledge, DispatchMail!Replace, DispatchMail!Close,
              DispatchMail!Forward, DispatchMail!OldestOf
<1>3. Init => DispatchMail!Init
  BY <1>1, InitQueues DEF Boxes
<1>4. MailInv /\ MailInv' /\ [Next]_vars => [DispatchMail!Next]_(DispatchMail!vars)
  BY <1>2, NextQueues DEF Boxes, MailInv, TypeOK
<1> QED BY <1>3, <1>4, MailInvariance, PTL DEF Spec, DispatchQueue, DispatchMail!Spec
=============================================================================
