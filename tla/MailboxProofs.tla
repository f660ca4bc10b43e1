---------------------------- MODULE MailboxProofs ----------------------------
(***************************************************************************)
(* Proofs about Mailbox: for any number of terminals, checks in flight,    *)
(* messages, rebindings and restarts, no message is acknowledged twice,    *)
(* what is handed out is the present consumer's, a Run has at most one     *)
(* waiter, the present consumer's, and an error never hides an             *)
(* acknowledgement.                                                        *)
(*                                                                         *)
(* The argument: MailInv says that a mailbox has at most one outstanding   *)
(* delivery with unread mail, of the present generation, and that no two   *)
(* live deliveries share mail.  An acknowledgement therefore strikes off   *)
(* mail nobody else holds, and a delivery is made only when all that was   *)
(* handed out before has been read.  Every other step leaves the           *)
(* deliveries alone or fences them, moves mail no live delivery counts on, *)
(* and at most strikes mail off (TablesStay).                              *)
(***************************************************************************)
EXTENDS Mailbox, FiniteSetTheorems, SequenceTheorems, NumberLemmas, TLAPS

LEMMA ConstantTypes ==
  /\ MaxMail \in Nat /\ MaxChanges \in Nat
  /\ PageLimit \in Nat \ {0} /\ Kinds \subseteq BOOLEAN
  /\ NoPane \notin Panes /\ "run" \notin Panes /\ "dispatch" \notin Panes
BY PaneAssumption, KindAssumption, LimitAssumption, MailboxBounds

USE ConstantTypes

CallRecords == Routing \cup Waiting \cup Forwarding \cup Failed \cup {Idle}

-----------------------------------------------------------------------------
(* Facts about the operators *)

LEMMA CallTypes ==
  /\ \A x \in Routing : x.pc = "routing"
  /\ \A x \in Waiting : x.pc \in {"waiting", "notified", "ended"}
  /\ \A x \in Forwarding : x.pc = "forwarding"
  /\ \A x \in Failed : x.pc = "failed"
  /\ Idle.pc = "idle"
BY DEF Routing, Waiting, Forwarding, Failed, Idle

LEMMA CallOf ==
  ASSUME TypeOK, NEW c \in Calls
  PROVE  /\ calls[c].pc = "routing" => calls[c] \in Routing
         /\ calls[c].pc \in {"waiting", "notified", "ended"} => calls[c] \in Waiting
         /\ calls[c].pc = "forwarding" => calls[c] \in Forwarding
         /\ calls[c].pc = "failed" => calls[c] \in Failed
         /\ calls[c].pc \in {"idle", "routing", "waiting", "notified", "ended",
                             "forwarding", "failed"}
<1>1. calls[c] \in CallRecords
  BY DEF TypeOK, CallRecords
<1> QED BY <1>1, CallTypes DEF CallRecords

\* The oldest of some messages are some, and the oldest
LEMMA FirstOfSome ==
  ASSUME NEW L \in Nat, NEW S \in SUBSET (1..L)
  PROVE  /\ FirstOf(S, PageLimit) \subseteq S
         /\ S # {} => FirstOf(S, PageLimit) # {}
         /\ \A n \in FirstOf(S, PageLimit), m \in S :
              m < n => m \in FirstOf(S, PageLimit)
<1> DEFINE Below(n) == {m \in S : m < n}
<1>1. IsFiniteSet(S) /\ \A x \in S : x \in Nat
  <2>1. IsFiniteSet(1..L)
    BY FS_Interval
  <2>2. IsFiniteSet(S)
    BY <2>1, FS_Subset
  <2>3. \A x \in S : x \in Nat
    OBVIOUS
  <2> QED BY <2>2, <2>3
<1>2. ASSUME NEW n \in S PROVE IsFiniteSet(Below(n)) /\ Cardinality(Below(n)) \in Nat
  <2>1. Below(n) \in SUBSET S
    OBVIOUS
  <2> QED BY <1>1, <2>1, FS_Subset, FS_CardinalityType
<1>3. ASSUME S # {} PROVE FirstOf(S, PageLimit) # {}
  <2>1. PICK s \in S : \A t \in S : s <= t
    BY <1>1, <1>3, LeastExists
  <2>2. ASSUME NEW t \in S, t < s PROVE FALSE
    BY <1>1, <2>1, <2>2
  <2>3. Cardinality(Below(s)) = 0
    <3>1. Below(s) = {}
      BY <2>2
    <3> QED BY <3>1, FS_EmptySet
  <2>4. s \in FirstOf(S, PageLimit)
    BY <2>3 DEF FirstOf
  <2> QED BY <2>4
<1>4. ASSUME NEW n \in FirstOf(S, PageLimit), NEW m \in S, m < n
      PROVE  m \in FirstOf(S, PageLimit)
  <2>1. n \in S /\ Cardinality(Below(n)) < PageLimit
    BY DEF FirstOf
  <2>2. Below(m) \in SUBSET Below(n)
    <3>1. ASSUME NEW t \in S, t < m PROVE t < n
      <4>1. t \in Nat /\ m \in Nat /\ n \in Nat
        BY <1>1, <2>1
      <4> QED BY <1>4, <3>1, <4>1
    <3> QED BY <3>1
  <2>3. Cardinality(Below(m)) <= Cardinality(Below(n))
    BY <1>2, <2>1, <2>2, FS_Subset
  <2>4. Cardinality(Below(m)) < PageLimit
    BY <1>2, <2>1, <2>3
  <2> QED BY <2>4 DEF FirstOf
<1> QED BY <1>3, <1>4 DEF FirstOf

\* The last of some messages is one of them
LEMMA LatestOfSome ==
  ASSUME NEW L \in Nat, NEW S \in SUBSET (1..L)
  PROVE  Latest(S) \in 0..L
<1>1. CASE S = {}
  BY <1>1 DEF Latest
<1>2. CASE S # {}
  <2>1. \E n \in S : \A m \in S : m <= n
    <3>1. S \subseteq Nat /\ \A s \in S : s <= L
      OBVIOUS
    <3> QED BY <1>2, <3>1, GreatestExists
  <2>2. Latest(S) \in S
    BY <1>2, <2>1, Zenon DEF Latest
  <2>3. \A s \in S : s \in 0..L
    OBVIOUS
  <2> QED BY <2>2, <2>3
<1> QED BY <1>1, <1>2

LEMMA MailType ==
  ASSUME NEW ms \in Seq(Message), Len(ms) <= MaxMail, NEW box
  PROVE  /\ Len(ms) \in Nat /\ DOMAIN ms = 1..Len(ms) /\ ms \in [1..Len(ms) -> Message]
         /\ DOMAIN ms \subseteq 1..MaxMail
         /\ Unread(ms, box) \in SUBSET (1..MaxMail)
<1>1. Len(ms) \in Nat /\ DOMAIN ms = 1..Len(ms) /\ ms \in [1..Len(ms) -> Message]
  BY LenProperties
<1>2. 1..Len(ms) \subseteq 1..MaxMail
  BY <1>1
<1> QED BY <1>1, <1>2 DEF Unread

LEMMA FunctionIsSeq ==
  ASSUME NEW S, NEW n \in Nat, NEW f \in [1..n -> S]
  PROVE  f \in Seq(S) /\ Len(f) = n
<1>1. f \in Seq(S)
  BY SeqDef
<1>2. 1..Len(f) = 1..n /\ Len(f) \in Nat
  BY <1>1, LenProperties
<1> QED BY <1>2

\* Mail moved is the same mail in another mailbox
LEMMA MovedMail ==
  ASSUME NEW ms \in Seq(Message), NEW S, NEW to, S # {} => to \in Boxes
  PROVE  /\ MovedIn(ms, S, to) \in Seq(Message) /\ Len(MovedIn(ms, S, to)) = Len(ms)
         /\ DOMAIN MovedIn(ms, S, to) = DOMAIN ms
         /\ \A n \in DOMAIN ms :
              /\ MovedIn(ms, S, to)[n].to = IF n \in S THEN to ELSE ms[n].to
              /\ MovedIn(ms, S, to)[n].read = ms[n].read
              /\ MovedIn(ms, S, to)[n].wanted = ms[n].wanted
<1>1. Len(ms) \in Nat /\ DOMAIN ms = 1..Len(ms) /\ ms \in [1..Len(ms) -> Message]
  BY LenProperties
<1>2. ASSUME NEW n \in DOMAIN ms
      PROVE  /\ MovedIn(ms, S, to)[n] \in Message
             /\ MovedIn(ms, S, to)[n].to = IF n \in S THEN to ELSE ms[n].to
             /\ MovedIn(ms, S, to)[n].read = ms[n].read
             /\ MovedIn(ms, S, to)[n].wanted = ms[n].wanted
  BY <1>1 DEF MovedIn, Message
<1>3. MovedIn(ms, S, to) \in [1..Len(ms) -> Message]
  BY <1>1, <1>2 DEF MovedIn
<1>4. MovedIn(ms, S, to) \in Seq(Message) /\ Len(MovedIn(ms, S, to)) = Len(ms)
  BY <1>1, <1>3, FunctionIsSeq
<1> QED BY <1>1, <1>2, <1>4 DEF MovedIn

\* Mail struck off stays where it is
LEMMA StruckMail ==
  ASSUME TypeOK, NEW S
  PROVE  /\ Struck(S) \in Seq(Message) /\ Len(Struck(S)) = Len(messages)
         /\ DOMAIN Struck(S) = DOMAIN messages
         /\ \A n \in DOMAIN messages :
              /\ Struck(S)[n].to = messages[n].to
              /\ Struck(S)[n].read <=> (messages[n].read \/ n \in S)
              /\ Struck(S)[n].wanted = messages[n].wanted
<1>1. /\ Len(messages) \in Nat /\ DOMAIN messages = 1..Len(messages)
      /\ messages \in [1..Len(messages) -> Message]
  BY MailType DEF TypeOK
<1>2. ASSUME NEW n \in DOMAIN messages
      PROVE  /\ Struck(S)[n] \in Message
             /\ Struck(S)[n].to = messages[n].to
             /\ Struck(S)[n].read <=> (messages[n].read \/ n \in S)
             /\ Struck(S)[n].wanted = messages[n].wanted
  <2>1. messages[n] \in Message
    BY <1>1
  <2> QED BY <2>1 DEF Struck, Message
<1>3. Struck(S) \in [1..Len(messages) -> Message]
  BY <1>1, <1>2 DEF Struck
<1>4. Struck(S) \in Seq(Message) /\ Len(Struck(S)) = Len(messages)
  BY <1>1, <1>3, FunctionIsSeq
<1> QED BY <1>1, <1>2, <1>4 DEF Struck

\* The mail with some of it struck off and new mail put
AfterStriking(sent, S, new) ==
  /\ sent \in Seq(Message) /\ Len(sent) = Len(messages) + 1 /\ Len(sent) <= MaxMail
  /\ Len(messages) \in Nat /\ DOMAIN messages = 1..Len(messages)
  /\ DOMAIN messages \subseteq DOMAIN sent
  /\ DOMAIN sent = 1..(Len(messages) + 1)
  /\ sent[Len(messages) + 1] = new
  /\ \A n \in DOMAIN messages :
       /\ sent[n].to = messages[n].to
       /\ sent[n].read <=> (messages[n].read \/ n \in S)
       /\ sent[n].wanted = messages[n].wanted

LEMMA StruckAndSent ==
  ASSUME TypeOK, NEW S, NEW new \in Message, Len(messages) < MaxMail
  PROVE  AfterStriking(Append(Struck(S), new), S, new)
<1> DEFINE ms == Struck(S)
<1>1. ms \in Seq(Message) /\ Len(ms) = Len(messages)
  BY StruckMail
<1>2. Len(messages) \in Nat /\ DOMAIN messages = 1..Len(messages)
  BY MailType DEF TypeOK
<1>3. \A n \in DOMAIN messages :
        /\ ms[n].to = messages[n].to
        /\ ms[n].read <=> (messages[n].read \/ n \in S)
        /\ ms[n].wanted = messages[n].wanted
  BY StruckMail
<1> HIDE DEF ms
<1>4. /\ Append(ms, new) \in Seq(Message) /\ Len(Append(ms, new)) = Len(ms) + 1
      /\ \A n \in 1..Len(ms) : Append(ms, new)[n] = ms[n]
      /\ Append(ms, new)[Len(ms) + 1] = new
  BY <1>1, AppendProperties
<1>5. DOMAIN Append(ms, new) = 1..(Len(messages) + 1)
  BY <1>1, <1>4, LenProperties
<1>6. DOMAIN messages \subseteq DOMAIN Append(ms, new) /\ Len(Append(ms, new)) <= MaxMail
  BY <1>1, <1>2, <1>4, <1>5
<1>7. AfterStriking(Append(ms, new), S, new)
  BY <1>1, <1>2, <1>3, <1>4, <1>5, <1>6 DEF AfterStriking
<1> QED BY <1>7 DEF ms

-----------------------------------------------------------------------------
(* The tables *)

\* No live delivery loses its mail: nothing becomes unread again, and only
\* bare handles' mail moves, and the mail of a dispatch that ended
MailStays ==
  /\ messages' \in Seq(Message) /\ Len(messages') <= MaxMail
  /\ DOMAIN messages \subseteq DOMAIN messages'
  /\ \A n \in DOMAIN messages : messages[n].to \in Boxes =>
       /\ messages[n].read => messages'[n].read
       /\ \/ messages'[n].to = messages[n].to
          \/ ~active /\ messages[n].to = "dispatch" /\ messages'[n].to = "run"

\* A new consumer fences the deliveries of the old one
DeliveriesStay ==
  /\ DOMAIN deliveries' = DOMAIN deliveries
  /\ \A d \in DOMAIN deliveries :
       \/ /\ deliveries'[d] = deliveries[d]
          /\ deliveries[d].status = "outstanding" =>
               IF deliveries[d].box = "run" THEN UNCHANGED runGen ELSE UNCHANGED workerGen
       \/ deliveries'[d] = [deliveries[d] EXCEPT !.status = "fenced"]

LEMMA DeliveryType ==
  ASSUME NEW ds \in Seq(Delivery)
  PROVE  /\ Len(ds) \in Nat /\ DOMAIN ds = 1..Len(ds)
         /\ \A d \in DOMAIN ds :
              /\ ds[d] \in Delivery /\ ds[d].box \in Boxes /\ ds[d].gen \in Nat
              /\ ds[d].status \in {"outstanding", "acknowledged", "fenced"}
              /\ ds[d].mail # {} /\ ds[d].mail \subseteq 1..MaxMail
<1>1. Len(ds) \in Nat /\ DOMAIN ds = 1..Len(ds) /\ ds \in [1..Len(ds) -> Delivery]
  BY LenProperties
<1>2. ASSUME NEW d \in DOMAIN ds PROVE ds[d] \in Delivery
  BY <1>1
<1>3. \A row \in Delivery :
        /\ row.box \in Boxes /\ row.gen \in Nat
        /\ row.status \in {"outstanding", "acknowledged", "fenced"}
        /\ row.mail \in (SUBSET (1..MaxMail)) \ {{}}
  BY DEF Delivery
<1> QED BY <1>1, <1>2, <1>3

LEMMA TablesStay ==
  ASSUME TypeOK, TablesSound(messages, deliveries), MailStays, DeliveriesStay,
         active' => active
  PROVE  TablesSound(messages, deliveries)'
<1>1. ASSUME NEW d \in DOMAIN deliveries'
      PROVE  /\ d \in DOMAIN deliveries /\ deliveries[d] \in Delivery
             /\ deliveries'[d].box = deliveries[d].box
             /\ deliveries'[d].mail = deliveries[d].mail
             /\ deliveries'[d].gen = deliveries[d].gen
             /\ deliveries'[d].status = deliveries[d].status \/ deliveries'[d].status = "fenced"
             /\ deliveries'[d].status = "outstanding" =>
                  IF deliveries[d].box = "run" THEN UNCHANGED runGen ELSE UNCHANGED workerGen
  <2>1. d \in DOMAIN deliveries /\ deliveries[d] \in Delivery
    BY DeliveryType DEF DeliveriesStay, TypeOK
  <2> QED BY <2>1 DEF DeliveriesStay, Delivery
<1>2. ASSUME NEW d \in DOMAIN deliveries', NEW n \in deliveries'[d].mail
      PROVE  /\ n \in DOMAIN messages /\ messages[n].to \in Boxes
             /\ n \in DOMAIN messages' /\ messages'[n].to \in Boxes
             /\ messages[n].read => messages'[n].read
  <2>1. DeliverySound(messages, deliveries[d]) /\ n \in deliveries[d].mail
    BY <1>1, <1>2 DEF TablesSound
  <2>2. n \in DOMAIN messages /\ messages[n].to \in Boxes
    BY <2>1 DEF DeliverySound
  <2> QED BY <2>2 DEF MailStays, Boxes
<1>3. ASSUME NEW d \in DOMAIN deliveries'
      PROVE  /\ \A n \in deliveries'[d].mail :
                  n \in DOMAIN messages' /\ messages'[n].to \in Boxes
             /\ deliveries'[d].status = "acknowledged" =>
                  \A n \in deliveries'[d].mail : messages'[n].read
             /\ deliveries'[d].status = "outstanding" =>
                  /\ deliveries'[d].gen =
                       IF deliveries'[d].box = "run" THEN runGen' ELSE workerGen'
                  /\ deliveries'[d].box = "run" \/ active' =>
                       \A n \in deliveries'[d].mail :
                         messages'[n].read \/ messages'[n].to = deliveries'[d].box
  <2>1. DeliverySound(messages, deliveries[d])
    BY <1>1 DEF TablesSound
  <2>2. ASSUME deliveries'[d].status = "acknowledged", NEW n \in deliveries'[d].mail
        PROVE  messages'[n].read
    <3>1. deliveries[d].status = "acknowledged" /\ n \in deliveries[d].mail
      BY <1>1, <2>2
    <3> QED BY <1>2, <2>1, <3>1 DEF DeliverySound
  <2>3. ASSUME deliveries'[d].status = "outstanding"
        PROVE  /\ deliveries[d].status = "outstanding"
               /\ deliveries'[d].gen = IF deliveries'[d].box = "run" THEN runGen' ELSE workerGen'
    <3>1. deliveries[d].status = "outstanding"
      BY <1>1, <2>3
    <3> QED BY <1>1, <2>1, <2>3, <3>1 DEF DeliverySound, Generation
  <2>4. ASSUME deliveries'[d].status = "outstanding",
               deliveries'[d].box = "run" \/ active',
               NEW n \in deliveries'[d].mail
        PROVE  messages'[n].read \/ messages'[n].to = deliveries'[d].box
    <3>1. messages[n].read \/ messages[n].to = deliveries[d].box
      BY <1>1, <2>1, <2>3, <2>4 DEF DeliverySound, Open
    <3>2. CASE messages[n].read
      BY <1>2, <3>2
    <3>3. CASE messages[n].to = deliveries[d].box
      <4>1. \/ messages'[n].to = messages[n].to
            \/ ~active /\ messages[n].to = "dispatch"
        BY <1>2 DEF MailStays
      <4> QED BY <1>1, <2>4, <3>3, <4>1
    <3> QED BY <3>1, <3>2, <3>3
  <2> QED BY <1>2, <2>2, <2>3, <2>4
<1>4. OneOutstanding(messages', deliveries')
  <2>1. ASSUME NEW box \in Boxes, NEW d \in Outstanding(messages', deliveries', box)
        PROVE  d \in Outstanding(messages, deliveries, box)
    <3>1. /\ d \in DOMAIN deliveries' /\ deliveries'[d].box = box
          /\ deliveries'[d].status = "outstanding"
      BY DEF Outstanding
    <3>2. PICK n \in deliveries'[d].mail : ~messages'[n].read
      BY DEF Outstanding
    <3>3. ~messages[n].read /\ n \in deliveries[d].mail
      BY <1>1, <1>2, <3>1, <3>2
    <3> QED BY <1>1, <3>1, <3>3 DEF Outstanding
  <2> QED BY <2>1 DEF TablesSound, OneOutstanding
<1>5. NoMailShared(deliveries)'
  <2>1. ASSUME NEW d \in DOMAIN deliveries', Live(deliveries[d])'
        PROVE  Live(deliveries[d])
    BY <1>1, <2>1 DEF Live, Open
  <2> QED BY <1>1, <2>1 DEF TablesSound, NoMailShared
<1>6. \A d \in DOMAIN deliveries' : DeliverySound(messages, deliveries[d])'
  BY <1>3 DEF DeliverySound, Generation, Open
<1> QED BY <1>4, <1>5, <1>6 DEF TablesSound

\* An acknowledgement strikes off mail that no other delivery counts on
LEMMA AckKeeps ==
  ASSUME TypeOK, TablesSound(messages, deliveries),
         NEW call, call.box \in Boxes, Open(call.box), AckAllowed(call),
         call.ack \in DOMAIN deliveries \cup {0}
  PROVE  /\ AckedMail(call) \in Seq(Message) /\ Len(AckedMail(call)) = Len(messages)
         /\ AckedDeliveries(call) \in Seq(Delivery)
         /\ DOMAIN AckedDeliveries(call) = DOMAIN deliveries
         /\ TablesSound(AckedMail(call), AckedDeliveries(call))
<1> DEFINE ms == AckedMail(call)
<1> DEFINE ds == AckedDeliveries(call)
<1> DEFINE a == call.ack
<1>1. /\ messages \in [1..Len(messages) -> Message] /\ DOMAIN messages = 1..Len(messages)
      /\ Len(messages) \in Nat
  BY MailType DEF TypeOK
<1>2. /\ ms \in Seq(Message) /\ Len(ms) = Len(messages) /\ DOMAIN ms = DOMAIN messages
      /\ \A n \in DOMAIN messages :
           /\ ms[n].to = messages[n].to
           /\ ms[n].read <=> (messages[n].read \/ (Acks(call) /\ n \in deliveries[a].mail))
  <2>1. CASE Acks(call)
    <3>1. ms = Struck(deliveries[a].mail)
      BY <2>1 DEF AckedMail
    <3> HIDE DEF ms, a
    <3> QED BY <2>1, <3>1, StruckMail
  <2>2. CASE ~Acks(call)
    <3>1. ms = messages
      BY <2>2 DEF AckedMail
    <3>2. \A n \in DOMAIN messages : messages[n].read \in BOOLEAN
      BY <1>1 DEF Message
    <3> HIDE DEF ms, a
    <3> QED BY <2>2, <3>1, <3>2 DEF TypeOK
  <2> QED BY <2>1, <2>2
<1>3. CASE ~Acks(call)
  <2>1. ds = deliveries
    BY <1>3 DEF AckedDeliveries
  <2>2. ms = messages
    BY <1>3 DEF AckedMail
  <2> QED BY <1>2, <2>1, <2>2 DEF TypeOK
<1>4. CASE Acks(call)
  <2>1. /\ a \in DOMAIN deliveries /\ deliveries[a].status = "outstanding"
        /\ deliveries[a].box = call.box /\ deliveries[a] \in Delivery
    BY <1>4, DeliveryType DEF Acks, AckAllowed, TypeOK
  <2>2. Live(deliveries[a])
    BY <2>1 DEF Live
  <2>3. /\ ds = [deliveries EXCEPT ![a].status = "acknowledged"]
        /\ DOMAIN ds = DOMAIN deliveries
    BY <1>4 DEF AckedDeliveries
  <2>4. ds \in Seq(Delivery)
    <3>1. [deliveries[a] EXCEPT !.status = "acknowledged"] \in Delivery
      BY <2>1 DEF Delivery
    <3>2. ds = [deliveries EXCEPT ![a] = [deliveries[a] EXCEPT !.status = "acknowledged"]]
      BY <2>3
    <3>3. a \in 1..Len(deliveries)
      BY <2>1, DeliveryType DEF TypeOK
    <3> HIDE DEF ds, a
    <3> QED BY <3>1, <3>2, <3>3, ExceptSeq DEF TypeOK
  <2>5. ASSUME NEW d \in DOMAIN deliveries
        PROVE  /\ ds[d].box = deliveries[d].box /\ ds[d].mail = deliveries[d].mail
               /\ ds[d].gen = deliveries[d].gen
               /\ ds[d].status = IF d = a THEN "acknowledged" ELSE deliveries[d].status
    <3>1. deliveries[d] \in Delivery
      BY DeliveryType DEF TypeOK
    <3> QED BY <2>3, <3>1 DEF Delivery
  <2>6. ASSUME NEW n \in DOMAIN messages
        PROVE  /\ ms[n].to = messages[n].to
               /\ ms[n].read <=> (messages[n].read \/ n \in deliveries[a].mail)
    BY <1>2, <1>4
  <2> HIDE DEF ms, ds, a
  <2>7. ASSUME NEW d \in DOMAIN deliveries
        PROVE  DeliverySound(ms, ds[d])
    <3>1. DeliverySound(messages, deliveries[d])
      BY DEF TablesSound
    <3>2. \A n \in ds[d].mail : n \in DOMAIN ms /\ ms[n].to \in Boxes
      BY <1>2, <2>5, <2>6, <3>1 DEF DeliverySound
    <3>3. ASSUME ds[d].status = "acknowledged", NEW n \in ds[d].mail PROVE ms[n].read
      <4>1. n \in DOMAIN messages /\ n \in deliveries[d].mail
        BY <2>5, <3>1, <3>3 DEF DeliverySound
      <4>2. d # a => messages[n].read
        BY <2>5, <3>1, <3>3, <4>1 DEF DeliverySound
      <4> QED BY <2>6, <4>1, <4>2
    <3>4. ASSUME ds[d].status = "outstanding"
          PROVE  /\ ds[d].gen = Generation(ds[d].box)
                 /\ Open(ds[d].box) => \A n \in ds[d].mail : ms[n].read \/ ms[n].to = ds[d].box
      <4>1. deliveries[d].status = "outstanding"
        BY <2>5, <3>4
      <4>2. ASSUME Open(deliveries[d].box), NEW n \in deliveries[d].mail
            PROVE  ms[n].read \/ ms[n].to = deliveries[d].box
        <5>1. n \in DOMAIN messages /\ (messages[n].read \/ messages[n].to = deliveries[d].box)
          BY <3>1, <4>1, <4>2 DEF DeliverySound
        <5> QED BY <2>6, <5>1
      <4> QED BY <2>5, <3>1, <4>1, <4>2 DEF DeliverySound
    <3> QED BY <3>2, <3>3, <3>4 DEF DeliverySound
  <2>8. OneOutstanding(ms, ds)
    <3>1. ASSUME NEW box \in Boxes, NEW d \in Outstanding(ms, ds, box)
          PROVE  d \in Outstanding(messages, deliveries, box)
      <4>1. /\ d \in DOMAIN deliveries /\ deliveries[d].box = box
            /\ deliveries[d].status = "outstanding"
        BY <2>3, <2>5 DEF Outstanding
      <4>2. PICK n \in ds[d].mail : ~ms[n].read
        BY DEF Outstanding
      <4>3. n \in deliveries[d].mail /\ n \in DOMAIN messages
        BY <2>5, <4>1, <4>2 DEF TablesSound, DeliverySound
      <4>4. ~messages[n].read
        BY <2>6, <4>2, <4>3
      <4> QED BY <4>1, <4>3, <4>4 DEF Outstanding
    <3> QED BY <3>1 DEF TablesSound, OneOutstanding
  <2>9. NoMailShared(ds)
    <3>1. ASSUME NEW d \in DOMAIN deliveries, Live(ds[d]) PROVE Live(deliveries[d])
      BY <2>2, <2>5, <3>1 DEF Live
    <3> QED BY <2>3, <2>5, <3>1 DEF TablesSound, NoMailShared
  <2> QED BY <1>2, <2>3, <2>4, <2>7, <2>8, <2>9 DEF TablesSound, ms, ds
<1> QED BY <1>3, <1>4

\* What is sound stays so when the consumers do not change
LEMMA TablesSame ==
  ASSUME NEW ms, NEW ds, TablesSound(ms, ds), messages' = ms, deliveries' = ds,
         UNCHANGED <<runGen, workerGen, active>>
  PROVE  TablesSound(messages, deliveries)'
<1>1. ASSUME NEW d \in DOMAIN deliveries'
      PROVE  DeliverySound(messages, deliveries[d])'
  <2>1. DeliverySound(ms, ds[d])
    BY <1>1 DEF TablesSound
  <2> QED BY <2>1 DEF DeliverySound, Generation, Open
<1> QED BY <1>1 DEF TablesSound, OneOutstanding, Outstanding, NoMailShared, Live, Open

\* With no delivery to replay, all that the mailbox has out has been read
LEMMA AllRead ==
  ASSUME NEW ms, NEW ds, NEW box, Replayable(ms, ds, box) = {},
         NEW d \in DOMAIN ds, ds[d].box = box, ds[d].status = "outstanding"
  PROVE  \A n \in ds[d].mail : ms[n].read
BY DEF Replayable, Outstanding

\* A delivery is made of mail that no other delivery counts on
LEMMA NewDelivery ==
  ASSUME TypeOK, NEW ms \in Seq(Message), Len(ms) <= MaxMail,
         NEW ds \in Seq(Delivery), TablesSound(ms, ds),
         NEW box \in Boxes, Open(box), Replayable(ms, ds, box) = {}, Unread(ms, box) # {},
         NEW row, row = [box |-> box, gen |-> Generation(box),
                         mail |-> FirstOf(Unread(ms, box), PageLimit),
                         status |-> "outstanding"]
  PROVE  /\ Append(ds, row) \in Seq(Delivery)
         /\ DOMAIN Append(ds, row) = DOMAIN ds \cup {Len(ds) + 1}
         /\ Len(ds) + 1 \notin DOMAIN ds
         /\ \A d \in DOMAIN ds : Append(ds, row)[d] = ds[d]
         /\ Append(ds, row)[Len(ds) + 1] = row
         /\ TablesSound(ms, Append(ds, row))
<1> DEFINE es == Append(ds, row)
<1> DEFINE k == Len(ds) + 1
<1>1. Unread(ms, box) \in SUBSET (1..MaxMail) /\ DOMAIN ms \subseteq 1..MaxMail
  BY MailType
<1>2. /\ FirstOf(Unread(ms, box), PageLimit) \subseteq Unread(ms, box)
      /\ FirstOf(Unread(ms, box), PageLimit) # {}
  BY <1>1, FirstOfSome
<1>3. row \in Delivery
  <2>1. Generation(box) \in Nat
    BY DEF Generation, TypeOK
  <2> QED BY <1>1, <1>2, <2>1 DEF Delivery
<1>4. /\ es \in Seq(Delivery) /\ Len(es) = k
      /\ \A d \in 1..Len(ds) : es[d] = ds[d]
      /\ es[k] = row
  BY <1>3, AppendProperties
<1>5. /\ DOMAIN ds = 1..Len(ds) /\ DOMAIN es = DOMAIN ds \cup {k} /\ k \notin DOMAIN ds
      /\ \A d \in DOMAIN ds : es[d] = ds[d]
  <2>1. Len(ds) \in Nat /\ DOMAIN ds = 1..Len(ds) /\ DOMAIN es = 1..k
    BY <1>4, DeliveryType
  <2> QED BY <1>4, <2>1
<1> HIDE DEF es, k
<1>6. /\ row.box = box /\ row.gen = Generation(box) /\ row.status = "outstanding"
      /\ row.mail \subseteq Unread(ms, box)
  BY <1>2
<1>7. ASSUME NEW d \in DOMAIN es PROVE DeliverySound(ms, es[d])
  <2>1. CASE d = k
    <3>1. \A n \in row.mail : n \in DOMAIN ms /\ ms[n].to \in Boxes
      BY <1>6 DEF Unread
    <3>2. \A n \in row.mail : ms[n].to = row.box
      BY <1>6 DEF Unread
    <3>3. DeliverySound(ms, row)
      BY <1>6, <3>1, <3>2 DEF DeliverySound
    <3> QED BY <1>4, <2>1, <3>3
  <2>2. CASE d \in DOMAIN ds
    BY <1>5, <2>2 DEF TablesSound
  <2> QED BY <1>5, <2>1, <2>2
<1>8. OneOutstanding(ms, es)
  <2>1. ASSUME NEW d \in DOMAIN ds, NEW b \in Boxes, d \in Outstanding(ms, es, b)
        PROVE  b # box /\ d \in Outstanding(ms, ds, b)
    <3>1. d \in Outstanding(ms, ds, b)
      BY <1>5, <2>1 DEF Outstanding
    <3> QED BY <3>1 DEF Replayable
  <2>2. ASSUME NEW b \in Boxes, k \in Outstanding(ms, es, b) PROVE b = box
    BY <1>4, <1>6, <2>2 DEF Outstanding
  <2>3. \A b \in Boxes : Outstanding(ms, es, b) \subseteq DOMAIN es
    BY DEF Outstanding
  <2>4. ASSUME NEW b \in Boxes, NEW d \in Outstanding(ms, es, b), NEW e \in Outstanding(ms, es, b)
        PROVE  d = e
    <3>1. d \in DOMAIN ds \cup {k} /\ e \in DOMAIN ds \cup {k}
      BY <1>5, <2>3
    <3>2. CASE b = box
      BY <2>1, <3>1, <3>2
    <3>3. CASE b # box
      <4>1. d \in DOMAIN ds /\ e \in DOMAIN ds
        BY <2>2, <3>1, <3>3
      <4>2. d \in Outstanding(ms, ds, b) /\ e \in Outstanding(ms, ds, b)
        BY <2>1, <4>1
      <4> QED BY <4>2 DEF TablesSound, OneOutstanding
    <3> QED BY <3>2, <3>3
  <2> QED BY <2>4 DEF OneOutstanding
<1>9. NoMailShared(es)
  <2>1. ASSUME NEW d \in DOMAIN ds, Live(ds[d]), NEW n \in ds[d].mail, n \in row.mail
        PROVE  FALSE
    <3>1. n \in DOMAIN ms /\ ms[n].to = box /\ ~ms[n].read
      BY <1>6, <2>1 DEF Unread
    <3>2. DeliverySound(ms, ds[d])
      BY DEF TablesSound
    <3>3. ds[d].status = "outstanding" /\ Open(ds[d].box)
      BY <2>1, <3>1, <3>2 DEF Live, DeliverySound
    <3>4. ds[d].box = box
      BY <2>1, <3>1, <3>2, <3>3 DEF DeliverySound
    <3> QED BY <2>1, <3>1, <3>3, <3>4, AllRead
  <2>2. ASSUME NEW d \in DOMAIN ds, Live(ds[d]) PROVE ds[d].mail \cap row.mail = {}
    BY <2>1, <2>2
  <2> QED BY <1>4, <1>5, <2>2 DEF TablesSound, NoMailShared
<1> QED BY <1>4, <1>5, <1>7, <1>8, <1>9 DEF TablesSound, es, k

-----------------------------------------------------------------------------
(* The checks in flight *)

LEMMA WokenCalls ==
  ASSUME TypeOK, NEW box, NEW kinds
  PROVE  /\ Woken(box, kinds) \in [Calls -> CallRecords]
         /\ \A c \in Calls : \/ Woken(box, kinds)[c] = calls[c]
                             \/ Woken(box, kinds)[c].pc = "notified"
<1> SUFFICES ASSUME NEW c \in Calls
             PROVE  /\ Woken(box, kinds)[c] \in CallRecords
                    /\ Woken(box, kinds)[c] = calls[c] \/ Woken(box, kinds)[c].pc = "notified"
  BY DEF Woken
<1>1. calls[c] \in CallRecords
  BY DEF TypeOK, CallRecords
<1>2. ASSUME calls[c].pc = "waiting"
      PROVE  /\ [calls[c] EXCEPT !.pc = "notified"] \in CallRecords
             /\ [calls[c] EXCEPT !.pc = "notified"].pc = "notified"
  <2>1. calls[c] \in Waiting
    BY <1>2, CallOf
  <2> QED BY <2>1 DEF Waiting, CallRecords
<1> QED BY <1>1, <1>2 DEF Woken

LEMMA CancelledCalls ==
  ASSUME TypeOK
  PROVE  /\ Cancelled \in [Calls -> CallRecords]
         /\ \A c \in Calls : /\ Cancelled[c] = calls[c] \/ Cancelled[c].pc = "ended"
                             /\ ~(Cancelled[c].pc = "waiting" /\ Cancelled[c].box = "run")
<1> SUFFICES ASSUME NEW c \in Calls
             PROVE  /\ Cancelled[c] \in CallRecords
                    /\ Cancelled[c] = calls[c] \/ Cancelled[c].pc = "ended"
                    /\ ~(Cancelled[c].pc = "waiting" /\ Cancelled[c].box = "run")
  BY DEF Cancelled
<1>1. calls[c] \in CallRecords
  BY DEF TypeOK, CallRecords
<1>2. ASSUME calls[c].pc = "waiting"
      PROVE  /\ [calls[c] EXCEPT !.pc = "ended"] \in CallRecords
             /\ [calls[c] EXCEPT !.pc = "ended"].pc = "ended"
  <2>1. calls[c] \in Waiting
    BY <1>2, CallOf
  <2> QED BY <2>1 DEF Waiting, CallRecords
<1> QED BY <1>1, <1>2 DEF Cancelled

CallFacts == CallInv /\ RunWaiterIsCurrent /\ ErrorMeansNothingAcknowledged

\* A check that stays, is woken or is told to end claims nothing new
LEMMA CallsStay ==
  ASSUME TypeOK, CallFacts,
         \A c \in Calls : \/ calls'[c] = calls[c]
                          \/ calls'[c].pc \in {"idle", "notified", "ended"},
         DOMAIN deliveries \subseteq DOMAIN deliveries', active' => active,
         \/ UNCHANGED runGen
         \/ \A c \in Calls : ~(calls'[c].pc = "waiting" /\ calls'[c].box = "run")
  PROVE  CallFacts'
<1>1. \A c \in Calls :
        calls'[c].pc \in {"routing", "forwarding", "failed", "waiting"} => calls'[c] = calls[c]
  OBVIOUS
<1>2. CallInv'
  BY <1>1 DEF CallFacts, CallInv
<1>3. RunWaiterIsCurrent'
  BY <1>1 DEF CallFacts, RunWaiterIsCurrent
<1>4. ErrorMeansNothingAcknowledged'
  BY <1>1 DEF CallFacts, ErrorMeansNothingAcknowledged
<1> QED BY <1>2, <1>3, <1>4 DEF CallFacts

\* One check goes on
LEMMA CallTurns ==
  ASSUME TypeOK, CallFacts, NEW c \in Calls, NEW next \in CallRecords,
         calls' = [calls EXCEPT ![c] = next],
         DOMAIN deliveries \subseteq DOMAIN deliveries', UNCHANGED <<active, runGen>>,
         next.pc = "routing" => next.ack \in DOMAIN deliveries \cup {0},
         next.pc = "forwarding" => ~active,
         next.pc = "failed" => ~next.acked,
         next.pc = "waiting" /\ next.box = "run" =>
           /\ next.gen = runGen
           /\ \A b \in Calls : ~(calls[b].pc = "waiting" /\ calls[b].box = "run")
  PROVE  calls' \in [Calls -> CallRecords] /\ CallFacts'
<1>1. calls' \in [Calls -> CallRecords]
  BY DEF TypeOK, CallRecords
<1>2. calls'[c] = next /\ \A b \in Calls \ {c} : calls'[b] = calls[b]
  BY DEF TypeOK
<1>3. CallInv'
  BY <1>2 DEF CallFacts, CallInv
<1>4. RunWaiterIsCurrent'
  BY <1>2 DEF CallFacts, RunWaiterIsCurrent
<1>5. ErrorMeansNothingAcknowledged'
  BY <1>2 DEF CallFacts, ErrorMeansNothingAcknowledged
<1> QED BY <1>1, <1>3, <1>4, <1>5 DEF CallFacts

\* An error is told only by a check that has acknowledged nothing
LEMMA AnsweredCalls ==
  ASSUME TypeOK, CallFacts, NEW c \in Calls, NEW told, NEW acked \in BOOLEAN,
         Answered(c, told, acked),
         told = "error" /\ calls[c].box = "run" => ~acked,
         DOMAIN deliveries \subseteq DOMAIN deliveries', UNCHANGED <<active, runGen>>
  PROVE  calls' \in [Calls -> CallRecords] /\ CallFacts'
<1> DEFINE next == Over(calls[c], told, acked)
<1>1. calls' = [calls EXCEPT ![c] = next]
  BY DEF Answered
<1>2. /\ next \in CallRecords /\ next.pc \in {"failed", "idle"}
      /\ next.pc = "failed" => ~next.acked
  BY DEF Over, CallRecords, Failed, Idle
<1> HIDE DEF next
<1> QED BY <1>1, <1>2, CallTurns

\* What is handed out is out alone and the caller's: the fence is never met
LEMMA HandOutKeeps ==
  ASSUME TypeOK, CallFacts, NEW c \in Calls, NEW call,
         call.box \in Boxes, call.acked \in BOOLEAN,
         call.gen = Generation(call.box), Open(call.box),
         NEW ms \in Seq(Message), Len(ms) <= MaxMail,
         NEW ds \in Seq(Delivery), DOMAIN ds = DOMAIN deliveries, TablesSound(ms, ds),
         Replayable(ms, ds, call.box) = {} => Unread(ms, call.box) # {},
         messages' = ms, HandOut(c, call, ms, ds), UNCHANGED <<active, runGen, workerGen>>
  PROVE  /\ deliveries' \in Seq(Delivery) /\ TablesSound(messages, deliveries)'
         /\ calls' \in [Calls -> CallRecords] /\ CallFacts'
<1>1. CASE Replayable(ms, ds, call.box) # {}
  <2>1. PICK d \in Replayable(ms, ds, call.box) :
          /\ deliveries' = ds
          /\ IF ds[d].gen = call.gen THEN Answered(c, "delivery", call.acked)
             ELSE Answered(c, "error", call.acked)
    BY <1>1 DEF HandOut
  <2>2. d \in DOMAIN ds /\ ds[d].box = call.box /\ ds[d].status = "outstanding"
    BY DEF Replayable, Outstanding
  <2>3. ds[d].gen = call.gen
    BY <2>2 DEF TablesSound, DeliverySound
  <2>4. Answered(c, "delivery", call.acked)
    BY <2>1, <2>3
  <2>5. TablesSound(messages, deliveries)'
    BY <2>1, TablesSame
  <2>6. DOMAIN deliveries \subseteq DOMAIN deliveries'
    BY <2>1
  <2> QED BY <2>1, <2>4, <2>5, <2>6, AnsweredCalls
<1>2. CASE Replayable(ms, ds, call.box) = {}
  <2> DEFINE row == [box |-> call.box, gen |-> Generation(call.box),
                     mail |-> FirstOf(Unread(ms, call.box), PageLimit),
                     status |-> "outstanding"]
  <2>1. deliveries' = Append(ds, row) /\ Answered(c, "delivery", call.acked)
    BY <1>2 DEF HandOut
  <2> HIDE DEF row
  <2>2. /\ Append(ds, row) \in Seq(Delivery)
        /\ DOMAIN Append(ds, row) = DOMAIN ds \cup {Len(ds) + 1}
        /\ TablesSound(ms, Append(ds, row))
    BY <1>2, NewDelivery DEF row
  <2>3. TablesSound(messages, deliveries)'
    BY <2>1, <2>2, TablesSame
  <2>4. DOMAIN deliveries \subseteq DOMAIN deliveries'
    BY <2>1, <2>2
  <2>5. calls' \in [Calls -> CallRecords] /\ CallFacts'
    BY <2>1, <2>4, AnsweredCalls
  <2> QED BY <2>1, <2>2, <2>3, <2>5
<1> QED BY <1>1, <1>2

LEMMA FencedDeliveries ==
  ASSUME TypeOK, NEW box \in Boxes, deliveries' = Fenced(box),
         box = "run" => UNCHANGED workerGen, box = "dispatch" => UNCHANGED runGen
  PROVE  DeliveriesStay /\ deliveries' \in Seq(Delivery)
<1>1. /\ Len(deliveries) \in Nat /\ DOMAIN deliveries = 1..Len(deliveries)
      /\ \A d \in DOMAIN deliveries : deliveries[d] \in Delivery /\ deliveries[d].box \in Boxes
  BY DeliveryType DEF TypeOK
<1>2. \A row \in Delivery : [row EXCEPT !.status = "fenced"] \in Delivery
  BY DEF Delivery
<1>3. deliveries' \in [1..Len(deliveries) -> Delivery]
  BY <1>1, <1>2 DEF Fenced
<1>4. deliveries' \in Seq(Delivery)
  BY <1>1, <1>3, FunctionIsSeq
<1>5. DeliveriesStay
  BY <1>1 DEF DeliveriesStay, Fenced, Boxes
<1> QED BY <1>4, <1>5

\* Mail of bare handles is in no delivery
LEMMA DirectMailMoves ==
  ASSUME TypeOK, NEW S, NEW to \in Boxes, messages' = Moved(S, to),
         \A n \in S : n \in DOMAIN messages => messages[n].to \in Panes
  PROVE  MailStays
<1>1. \A n \in DOMAIN messages : messages[n].to \in Boxes => n \notin S
  BY DEF Boxes
<1>2. messages \in Seq(Message) /\ messages' = MovedIn(messages, S, to)
  BY DEF TypeOK, Moved
<1> QED BY <1>1, <1>2, MovedMail DEF MailStays, TypeOK

-----------------------------------------------------------------------------
(* The steps.  Each keeps the tables sound and the checks in order.        *)

LEMMA SendKeeps ==
  ASSUME MailInv, NEW r \in Boxes \cup Panes, NEW w \in Kinds, Send(r, w)
  PROVE  MailInv'
<1> DEFINE to == IF r \in Panes THEN ResolvedTo(r) ELSE r
<1> DEFINE new == [to |-> to, wanted |-> w, read |-> FALSE]
<1>1. /\ Len(messages) < MaxMail /\ messages' = Append(messages, new)
      /\ calls' = Woken(to, {w})
      /\ UNCHANGED <<deliveries, runVars, workerVars, changes>>
  BY DEF Send
<1>2. new \in Message
  BY DEF ResolvedTo, Message, Boxes
<1> HIDE DEF to, new
<1>3. /\ messages' \in Seq(Message) /\ Len(messages') = Len(messages) + 1
      /\ \A n \in 1..Len(messages) : messages'[n] = messages[n]
  BY <1>1, <1>2, AppendProperties DEF MailInv, TypeOK
<1>4. Len(messages') <= MaxMail /\ DOMAIN messages \subseteq DOMAIN messages'
      /\ DOMAIN messages = 1..Len(messages)
  <2>1. Len(messages) \in Nat /\ DOMAIN messages = 1..Len(messages)
        /\ DOMAIN messages' = 1..Len(messages')
    BY <1>3, LenProperties DEF MailInv, TypeOK
  <2> QED BY <1>1, <1>3, <2>1
<1>5. MailStays
  BY <1>3, <1>4 DEF MailStays
<1>6. DeliveriesStay
  BY <1>1 DEF DeliveriesStay, runVars, workerVars
<1>7. TablesSound(messages, deliveries)'
  BY <1>1, <1>5, <1>6, TablesStay DEF MailInv, workerVars
<1>8. calls' \in [Calls -> CallRecords] /\ CallFacts'
  BY <1>1, WokenCalls, CallsStay DEF MailInv, CallFacts, runVars, workerVars
<1> QED BY <1>1, <1>3, <1>4, <1>7, <1>8
        DEF MailInv, TypeOK, CallFacts, CallRecords, runVars, workerVars

\* A message is struck off and its answer put; mail of a terminal's handle moves
LEMMA ReplyKeeps ==
  ASSUME MailInv, NEW n \in DOMAIN messages, NEW r \in Boxes \cup Panes, NEW w \in Kinds,
         Reply(n, r, w)
  PROVE  MailInv'
<1> DEFINE new == [to |-> r, wanted |-> w, read |-> FALSE]
<1> DEFINE sent == Append(Struck({n}), new)
<1> DEFINE box == IF r \in Panes THEN BoxOf(r) ELSE r
<1> DEFINE moved == IF r \in Panes /\ box # "none" THEN Routable(sent, r, box) ELSE {}
<1> DEFINE kinds == {w} \cup {sent[m].wanted : m \in moved}
<1>1. /\ Len(messages) < MaxMail /\ messages' = MovedIn(sent, moved, box)
      /\ calls' = Woken(box, kinds)
      /\ UNCHANGED <<deliveries, runVars, workerVars, changes>>
  BY DEF Reply
<1>2. new \in Message
  BY DEF Message
<1>3. moved # {} => box \in Boxes
  BY DEF BoxOf, Boxes
<1>4. moved # {} => r \in Panes /\ \A m \in moved : sent[m].to = r
  BY DEF Routable, Unread
<1>5. /\ sent \in Seq(Message) /\ Len(sent) <= MaxMail
      /\ DOMAIN messages \subseteq DOMAIN sent
      /\ \A m \in DOMAIN messages :
           /\ sent[m].to = messages[m].to
           /\ messages[m].read => sent[m].read
  <2>1. TypeOK
    BY DEF MailInv
  <2> HIDE DEF new
  <2>2. AfterStriking(sent, {n}, new)
    BY <1>1, <1>2, <2>1, StruckAndSent
  <2> HIDE DEF sent
  <2> QED BY <2>2 DEF AfterStriking
<1> HIDE DEF new, sent, box, moved, kinds
<1>6. MailStays
  <2>1. \A m \in DOMAIN messages : messages[m].to \in Boxes => m \notin moved
    BY <1>4, <1>5 DEF Boxes
  <2> QED BY <1>1, <1>3, <1>5, <2>1, MovedMail DEF MailStays
<1>7. DeliveriesStay
  BY <1>1 DEF DeliveriesStay, runVars, workerVars
<1>8. TablesSound(messages, deliveries)'
  BY <1>1, <1>6, <1>7, TablesStay DEF MailInv, workerVars
<1>9. calls' \in [Calls -> CallRecords] /\ CallFacts'
  BY <1>1, WokenCalls, CallsStay DEF MailInv, CallFacts, runVars, workerVars
<1> QED BY <1>1, <1>6, <1>8, <1>9
        DEF MailInv, TypeOK, MailStays, CallFacts, CallRecords, runVars, workerVars

LEMMA NudgeKeeps ==
  ASSUME MailInv, NEW w \in Kinds, Nudge(w)
  PROVE  MailInv'
<1>1. calls' = Woken("dispatch", {w}) /\ UNCHANGED <<tables, runVars, workerVars, changes>>
  BY DEF Nudge
<1>2. TablesSound(messages, deliveries)'
  BY <1>1, TablesSame DEF MailInv, tables, runVars, workerVars
<1>3. calls' \in [Calls -> CallRecords] /\ CallFacts'
  BY <1>1, WokenCalls, CallsStay DEF MailInv, CallFacts, tables, runVars, workerVars
<1> QED BY <1>1, <1>2, <1>3
        DEF MailInv, TypeOK, CallFacts, CallRecords, tables, runVars, workerVars

\* The dispatch ends, and heartbeats of the Run's mailbox are struck off
LEMMA ReportKeeps ==
  ASSUME MailInv, NEW S \in SUBSET Unread(messages, "run"), NEW w \in Kinds, Report(S, w)
  PROVE  MailInv'
<1> DEFINE new == [to |-> "run", wanted |-> w, read |-> FALSE]
<1>1. /\ active /\ active' = FALSE /\ Len(messages) < MaxMail
      /\ messages' = Append(Struck(S), new)
      /\ calls' = Woken("run", {w})
      /\ UNCHANGED <<deliveries, runVars, workerPane, workerGen, changes>>
  BY DEF Report
<1>2. new \in Message
  BY DEF Message, Boxes
<1> HIDE DEF new
<1>3. MailStays
  <2>1. TypeOK
    BY DEF MailInv
  <2>2. /\ messages' \in Seq(Message) /\ Len(messages') <= MaxMail
        /\ DOMAIN messages \subseteq DOMAIN messages'
        /\ \A m \in DOMAIN messages :
             messages'[m].to = messages[m].to /\ (messages[m].read => messages'[m].read)
    <3> DEFINE sent == Append(Struck(S), new)
    <3>1. messages' = sent /\ AfterStriking(sent, S, new)
      BY <1>1, <1>2, <2>1, StruckAndSent
    <3> HIDE DEF sent
    <3> QED BY <3>1 DEF AfterStriking
  <2> QED BY <2>2 DEF MailStays
<1>4. DeliveriesStay
  BY <1>1 DEF DeliveriesStay, runVars
<1>5. TablesSound(messages, deliveries)'
  BY <1>1, <1>3, <1>4, TablesStay DEF MailInv
<1>6. calls' \in [Calls -> CallRecords] /\ CallFacts'
  BY <1>1, WokenCalls, CallsStay DEF MailInv, CallFacts, runVars
<1> QED BY <1>1, <1>3, <1>5, <1>6
        DEF MailInv, TypeOK, MailStays, CallFacts, CallRecords, runVars

LEMMA BindKeeps ==
  ASSUME MailInv, NEW p \in Panes, Bind(p)
  PROVE  MailInv'
<1> DEFINE S == Direct({p, runPane} \cap Panes)
<1>1. /\ messages' = Moved(S, "run") /\ remembered' = remembered \cup {p}
      /\ calls' = Cancelled /\ UNCHANGED <<workerVars>>
  BY DEF Bind
<1>2. /\ runPane' \in Panes \cup {NoPane} /\ runGen' \in Nat /\ changes' \in 0..MaxChanges
      /\ \/ deliveries' = deliveries /\ runGen' = runGen
         \/ deliveries' = Fenced("run")
  BY DEF Bind, MailInv, TypeOK
<1>3. \A n \in S : messages[n].to \in Panes
  BY DEF Direct, Unread
<1>4. MailStays /\ messages' \in Seq(Message) /\ Len(messages') <= MaxMail
  BY <1>1, <1>3, DirectMailMoves DEF MailInv, MailStays, Boxes
<1>5. DeliveriesStay /\ deliveries' \in Seq(Delivery)
  <2>1. CASE deliveries' = deliveries /\ runGen' = runGen
    BY <1>1, <2>1 DEF DeliveriesStay, MailInv, TypeOK, workerVars
  <2>2. CASE deliveries' = Fenced("run")
    BY <1>1, <2>2, FencedDeliveries DEF MailInv, Boxes, workerVars
  <2> QED BY <1>2, <2>1, <2>2
<1>6. TablesSound(messages, deliveries)'
  BY <1>1, <1>4, <1>5, TablesStay DEF MailInv, workerVars
<1>7. calls' \in [Calls -> CallRecords] /\ CallFacts'
  BY <1>1, <1>5, CancelledCalls, CallsStay DEF MailInv, CallFacts, DeliveriesStay, workerVars
<1> QED BY <1>1, <1>2, <1>4, <1>5, <1>6, <1>7
        DEF MailInv, TypeOK, CallFacts, CallRecords, DeliveriesStay, workerVars

LEMMA UnbindKeeps ==
  ASSUME MailInv, Unbind
  PROVE  MailInv'
<1>1. /\ messages' = Moved(Direct({runPane}), "run") /\ runPane' = NoPane
      /\ runGen' = runGen + 1 /\ deliveries' = Fenced("run") /\ calls' = Cancelled
      /\ changes < MaxChanges /\ changes' = changes + 1 /\ runPane # NoPane
      /\ UNCHANGED <<remembered, workerVars>>
  BY DEF Unbind
<1>2. \A n \in Direct({runPane}) : messages[n].to \in Panes
  BY <1>1 DEF Direct, Unread, MailInv, TypeOK
<1>3. MailStays /\ messages' \in Seq(Message) /\ Len(messages') <= MaxMail
  BY <1>1, <1>2, DirectMailMoves DEF MailInv, MailStays, Boxes
<1>4. DeliveriesStay /\ deliveries' \in Seq(Delivery)
  BY <1>1, FencedDeliveries DEF MailInv, Boxes, workerVars
<1>5. TablesSound(messages, deliveries)'
  BY <1>1, <1>3, <1>4, TablesStay DEF MailInv, workerVars
<1>6. calls' \in [Calls -> CallRecords] /\ CallFacts'
  BY <1>1, <1>4, CancelledCalls, CallsStay DEF MailInv, CallFacts, DeliveriesStay, workerVars
<1> QED BY <1>1, <1>3, <1>4, <1>5, <1>6
        DEF MailInv, TypeOK, CallFacts, CallRecords, DeliveriesStay, workerVars

LEMMA AttachKeeps ==
  ASSUME MailInv, NEW p \in Panes, Attach(p)
  PROVE  MailInv'
<1>1. /\ workerPane' = p /\ workerGen' = workerGen + 1 /\ deliveries' = Fenced("dispatch")
      /\ changes < MaxChanges /\ changes' = changes + 1
      /\ UNCHANGED <<messages, runVars, active, calls>>
  BY DEF Attach
<1>2. MailStays
  BY <1>1 DEF MailStays, MailInv, TypeOK
<1>3. DeliveriesStay /\ deliveries' \in Seq(Delivery)
  BY <1>1, FencedDeliveries DEF MailInv, Boxes, runVars
<1>4. TablesSound(messages, deliveries)'
  BY <1>1, <1>2, <1>3, TablesStay DEF MailInv
<1>5. CallFacts'
  BY <1>1, <1>3, CallsStay DEF MailInv, CallFacts, DeliveriesStay, runVars
<1> QED BY <1>1, <1>3, <1>4, <1>5
        DEF MailInv, TypeOK, CallFacts, DeliveriesStay, runVars

LEMMA SettleKeeps ==
  ASSUME MailInv, Settle
  PROVE  MailInv'
<1>1. /\ active' = FALSE /\ calls' \in {calls, Woken("dispatch", {FALSE})}
      /\ UNCHANGED <<tables, runVars, workerPane, workerGen, changes>>
  BY DEF Settle
<1>2. MailStays /\ DeliveriesStay
  BY <1>1 DEF MailStays, DeliveriesStay, MailInv, TypeOK, tables, runVars
<1>3. TablesSound(messages, deliveries)'
  BY <1>1, <1>2, TablesStay DEF MailInv
<1>4. calls' \in [Calls -> CallRecords]
      /\ \A c \in Calls : calls'[c] = calls[c] \/ calls'[c].pc = "notified"
  BY <1>1, WokenCalls DEF MailInv, TypeOK, CallRecords
<1>5. CallFacts'
  BY <1>1, <1>4, CallsStay DEF MailInv, CallFacts, tables, runVars
<1> QED BY <1>1, <1>3, <1>4, <1>5
        DEF MailInv, TypeOK, CallFacts, CallRecords, tables, runVars

LEMMA RestartKeeps ==
  ASSUME MailInv, Restart
  PROVE  MailInv'
<1>1. /\ calls' = [c \in Calls |-> Idle]
      /\ UNCHANGED <<tables, runVars, workerVars, changes>>
  BY DEF Restart
<1>2. TablesSound(messages, deliveries)'
  BY <1>1, TablesSame DEF MailInv, tables, runVars, workerVars
<1>3. \A c \in Calls : calls'[c].pc = "idle"
  BY <1>1 DEF Idle
<1>4. CallFacts'
  BY <1>1, <1>3, CallsStay DEF MailInv, CallFacts, tables, runVars, workerVars
<1> QED BY <1>1, <1>2, <1>4
        DEF MailInv, TypeOK, CallFacts, tables, runVars, workerVars

LEMMA EndKeeps ==
  ASSUME MailInv, NEW c \in Calls, End(c)
  PROVE  MailInv'
<1> DEFINE next == IF calls[c].pc = "waiting" THEN [calls[c] EXCEPT !.pc = "ended"] ELSE Idle
<1>1. /\ calls' = [calls EXCEPT ![c] = next]
      /\ UNCHANGED <<tables, runVars, workerVars, changes>>
  BY DEF End
<1>2. TablesSound(messages, deliveries)'
  BY <1>1, TablesSame DEF MailInv, tables, runVars, workerVars
<1>3. next \in CallRecords /\ next.pc \in {"ended", "idle"}
  <2>1. CASE calls[c].pc = "waiting"
    <3>1. calls[c] \in Waiting
      BY <2>1, CallOf DEF MailInv
    <3> QED BY <2>1, <3>1 DEF Waiting, CallRecords
  <2>2. CASE calls[c].pc # "waiting"
    BY <2>2 DEF Idle, CallRecords
  <2> QED BY <2>1, <2>2
<1> HIDE DEF next
<1>4. calls' \in [Calls -> CallRecords] /\ CallFacts'
  BY <1>1, <1>3, CallTurns DEF MailInv, CallFacts, tables, runVars, workerVars
<1> QED BY <1>1, <1>2, <1>4
        DEF MailInv, TypeOK, CallFacts, CallRecords, tables, runVars, workerVars

\* A page of routing moves mail of the caller's handle, which is in no delivery
LEMMA RoutePageKeeps ==
  ASSUME MailInv, NEW c \in Calls, NEW call \in Routing,
         call.ack \in DOMAIN deliveries \cup {0}, RoutePage(c, call),
         UNCHANGED <<deliveries, runVars, workerVars, changes>>
  PROVE  MailInv'
<1> DEFINE S == FirstOf(ToRoute(call), PageLimit)
<1>1. /\ messages' = Moved(S, call.box)
      /\ calls' = [calls EXCEPT ![c] = call]
  BY DEF RoutePage
<1>2. call \in CallRecords /\ call.pc = "routing" /\ call.box \in Boxes /\ call.pane \in Panes
  BY DEF Routing, CallRecords
<1>3. \A n \in S : messages[n].to \in Panes
  BY <1>2 DEF FirstOf, ToRoute, Routable, Unread
<1> HIDE DEF S
<1>4. MailStays /\ messages' \in Seq(Message) /\ Len(messages') <= MaxMail
  BY <1>1, <1>2, <1>3, DirectMailMoves DEF MailInv, MailStays
<1>5. DeliveriesStay
  BY DEF DeliveriesStay, runVars, workerVars
<1>6. TablesSound(messages, deliveries)'
  BY <1>4, <1>5, TablesStay DEF MailInv, workerVars
<1>7. calls' \in [Calls -> CallRecords] /\ CallFacts'
  BY <1>1, <1>2, CallTurns DEF MailInv, CallFacts, runVars, workerVars
<1> QED BY <1>4, <1>6, <1>7
        DEF MailInv, TypeOK, CallFacts, CallRecords, runVars, workerVars

LEMMA StartKeeps ==
  ASSUME MailInv, NEW c \in Calls, NEW p \in Panes, NEW ack \in DOMAIN deliveries \cup {0},
         NEW waits \in BOOLEAN, NEW wanted \in BOOLEAN, Start(c, p, ack, waits, wanted)
  PROVE  MailInv'
<1> DEFINE call == [pc |-> "routing", pane |-> p, box |-> BoxOf(p),
                    gen |-> IF BoxOf(p) = "run" THEN runGen ELSE workerGen,
                    through |-> Latest(Unread(messages, p)),
                    ack |-> ack, acked |-> FALSE, waits |-> waits, wanted |-> wanted]
<1>1. /\ BoxOf(p) # "none" /\ RoutePage(c, call)
      /\ UNCHANGED <<deliveries, runVars, workerVars, changes>>
  BY DEF Start
<1>2. ack \in DOMAIN deliveries \cup {0} /\ ack \in Nat
  <2>1. Len(deliveries) \in Nat /\ DOMAIN deliveries = 1..Len(deliveries)
    BY DeliveryType DEF MailInv, TypeOK
  <2> QED BY <2>1
<1>3. Latest(Unread(messages, p)) \in 0..MaxMail
  <2>1. Unread(messages, p) \in SUBSET (1..MaxMail)
    BY MailType DEF MailInv, TypeOK
  <2> QED BY <2>1, LatestOfSome
<1>4. call \in Routing /\ call.ack = ack
  <2>1. BoxOf(p) \in Boxes
    BY <1>1 DEF BoxOf, Boxes
  <2> QED BY <1>2, <1>3, <2>1 DEF Routing, MailInv, TypeOK
<1> HIDE DEF call
<1> QED BY <1>1, <1>2, <1>4, RoutePageKeeps

LEMMA RouteKeeps ==
  ASSUME MailInv, NEW c \in Calls, Route(c)
  PROVE  MailInv'
<1>1. calls[c] \in Routing /\ calls[c].ack \in DOMAIN deliveries \cup {0}
  BY CallOf DEF Route, MailInv, CallInv
<1> QED BY <1>1, RoutePageKeeps DEF Route

\* The mail that is forwarded is that of a dispatch that ended
LEMMA ForwardKeeps ==
  ASSUME MailInv, NEW c \in Calls, Forward(c)
  PROVE  MailInv'
<1> DEFINE page == FirstOf(ToForward(calls[c]), PageLimit)
<1> DEFINE kinds == calls[c].kinds \cup {messages[n].wanted : n \in page}
<1>1. /\ calls[c].pc = "forwarding" /\ messages' = Moved(page, "run")
      /\ calls' = IF page = ToForward(calls[c])
                  THEN [Woken("run", kinds) EXCEPT ![c] = Idle]
                  ELSE [calls EXCEPT ![c].kinds = kinds]
      /\ UNCHANGED <<deliveries, runVars, workerVars, changes>>
  BY DEF Forward
<1>2. ~active /\ calls[c] \in Forwarding
  BY <1>1, CallOf DEF MailInv, CallInv
<1>3. \A n \in page : n \in DOMAIN messages /\ messages[n].to = "dispatch"
  BY DEF FirstOf, ToForward, Unread
<1>4. kinds \in SUBSET BOOLEAN
  <2>1. \A n \in DOMAIN messages : messages[n].wanted \in BOOLEAN
    <3>1. messages \in [1..Len(messages) -> Message] /\ DOMAIN messages = 1..Len(messages)
      BY MailType DEF MailInv, TypeOK
    <3> QED BY <3>1 DEF Message
  <2> HIDE DEF page
  <2> QED BY <1>2, <1>3, <2>1 DEF Forwarding
<1> HIDE DEF page, kinds
<1>5. MailStays /\ messages' \in Seq(Message) /\ Len(messages') <= MaxMail
  <2>1. "run" \in Boxes
    BY DEF Boxes
  <2>2. messages \in Seq(Message) /\ messages' = MovedIn(messages, page, "run")
    BY <1>1 DEF MailInv, TypeOK, Moved
  <2> QED BY <1>2, <1>3, <2>1, <2>2, MovedMail DEF MailStays, MailInv, TypeOK
<1>6. DeliveriesStay
  BY <1>1 DEF DeliveriesStay, runVars, workerVars
<1>7. TablesSound(messages, deliveries)'
  BY <1>1, <1>5, <1>6, TablesStay DEF MailInv, workerVars
<1>8. calls' \in [Calls -> CallRecords] /\ CallFacts'
  <2>1. CASE page = ToForward(calls[c])
    <3>1. calls' = [Woken("run", kinds) EXCEPT ![c] = Idle]
      BY <1>1, <2>1
    <3>2. /\ Woken("run", kinds) \in [Calls -> CallRecords]
          /\ \A b \in Calls : \/ Woken("run", kinds)[b] = calls[b]
                              \/ Woken("run", kinds)[b].pc = "notified"
      BY WokenCalls DEF MailInv
    <3>3. Idle \in CallRecords /\ Idle.pc = "idle"
      BY DEF CallRecords, Idle
    <3> HIDE DEF CallRecords
    <3>4. calls' \in [Calls -> CallRecords]
      BY <3>1, <3>2, <3>3
    <3>5. \A b \in Calls : calls'[b] = calls[b] \/ calls'[b].pc \in {"idle", "notified"}
      BY <3>1, <3>2, <3>3
    <3> QED BY <1>1, <3>4, <3>5, CallsStay DEF MailInv, CallFacts, runVars, workerVars
  <2>2. CASE page # ToForward(calls[c])
    <3> DEFINE next == [calls[c] EXCEPT !.kinds = kinds]
    <3>1. calls' = [calls EXCEPT ![c] = next]
      BY <1>1, <2>2
    <3>2. next \in CallRecords /\ next.pc = "forwarding"
      BY <1>2, <1>4 DEF Forwarding, CallRecords
    <3> HIDE DEF next
    <3> QED BY <1>1, <1>2, <3>1, <3>2, CallTurns DEF MailInv, CallFacts, runVars, workerVars
  <2> QED BY <2>1, <2>2
<1> QED BY <1>1, <1>5, <1>7, <1>8
        DEF MailInv, TypeOK, CallFacts, CallRecords, runVars, workerVars

LEMMA ForwardsMailKeeps ==
  ASSUME MailInv, NEW c \in Calls, ForwardsMail(c), ~active,
         UNCHANGED <<tables, runVars, workerVars, changes>>
  PROVE  MailInv'
<1> DEFINE next == [pc |-> "forwarding", kinds |-> {},
                    through |-> Latest(Unread(messages, "dispatch"))]
<1>1. calls' = [calls EXCEPT ![c] = next]
  BY DEF ForwardsMail
<1>2. next \in CallRecords /\ next.pc = "forwarding"
  <2>1. Unread(messages, "dispatch") \in SUBSET (1..MaxMail)
    BY MailType DEF MailInv, TypeOK
  <2>2. Latest(Unread(messages, "dispatch")) \in 0..MaxMail
    BY <2>1, LatestOfSome
  <2> QED BY <2>2 DEF Forwarding, CallRecords
<1> HIDE DEF next
<1>3. TablesSound(messages, deliveries)'
  BY TablesSame DEF MailInv, tables, runVars, workerVars
<1>4. calls' \in [Calls -> CallRecords] /\ CallFacts'
  BY <1>1, <1>2, CallTurns DEF MailInv, CallFacts, tables, runVars, workerVars
<1> QED BY <1>3, <1>4
        DEF MailInv, TypeOK, CallFacts, CallRecords, tables, runVars, workerVars

LEMMA AnsweredKeeps ==
  ASSUME MailInv, NEW c \in Calls, NEW told, NEW acked \in BOOLEAN,
         Answered(c, told, acked), told = "error" /\ calls[c].box = "run" => ~acked,
         UNCHANGED <<tables, runVars, workerVars, changes>>
  PROVE  MailInv'
<1>1. TablesSound(messages, deliveries)'
  BY TablesSame DEF MailInv, tables, runVars, workerVars
<1>2. calls' \in [Calls -> CallRecords] /\ CallFacts'
  BY AnsweredCalls DEF MailInv, CallFacts, tables, runVars, workerVars
<1> QED BY <1>1, <1>2
        DEF MailInv, TypeOK, CallFacts, CallRecords, tables, runVars, workerVars

LEMMA AwakeKeeps ==
  ASSUME MailInv, NEW c \in Calls, Awake(c)
  PROVE  MailInv'
<1> DEFINE call == calls[c]
<1>1. /\ call.pc \in {"notified", "ended"}
      /\ UNCHANGED <<messages, runVars, workerVars, changes>>
  BY DEF Awake
<1>2. call.box \in Boxes /\ call.acked \in BOOLEAN
  <2>1. calls[c] \in Waiting
    BY <1>1, CallOf DEF MailInv
  <2> QED BY <2>1 DEF Waiting
<1>3. CASE call.box = "dispatch" /\ ~active
  BY <1>1, <1>3, ForwardsMailKeeps DEF Awake, tables
<1>4. CASE /\ ~(call.box = "dispatch" /\ ~active)
           /\ ~StillConsumer(call)
  <2>1. Answered(c, Trouble(call), call.acked) /\ UNCHANGED tables
    BY <1>1, <1>4 DEF Awake, tables
  <2> QED BY <1>1, <1>2, <2>1, AnsweredKeeps DEF Trouble
<1>5. CASE /\ ~(call.box = "dispatch" /\ ~active)
           /\ StillConsumer(call)
           /\ \/ call.pc # "notified"
              \/ /\ Replayable(messages, deliveries, call.box) = {}
                 /\ Nothing(messages, call, call.wanted)
  <2>1. Answered(c, "empty", call.acked) /\ UNCHANGED tables
    BY <1>1, <1>5 DEF Awake, tables
  <2> QED BY <1>1, <1>2, <2>1, AnsweredKeeps
<1>6. CASE /\ ~(call.box = "dispatch" /\ ~active)
           /\ StillConsumer(call)
           /\ ~ \/ call.pc # "notified"
                \/ /\ Replayable(messages, deliveries, call.box) = {}
                   /\ Nothing(messages, call, call.wanted)
  <2>1. HandOut(c, call, messages, deliveries)
    BY <1>6 DEF Awake
  <2>2. /\ Open(call.box) /\ call.gen = Generation(call.box)
        /\ Replayable(messages, deliveries, call.box) = {} => Unread(messages, call.box) # {}
    BY <1>2, <1>6 DEF Open, StillConsumer, Holds, Generation, Nothing, Boxes
  <2>3. /\ deliveries' \in Seq(Delivery) /\ TablesSound(messages, deliveries)'
        /\ calls' \in [Calls -> CallRecords] /\ CallFacts'
    <3> HIDE DEF call
    <3> QED BY <1>1, <1>2, <2>1, <2>2, HandOutKeeps
            DEF MailInv, TypeOK, CallFacts, runVars, workerVars
  <2> QED BY <1>1, <2>3
          DEF MailInv, TypeOK, CallFacts, CallRecords, runVars, workerVars
<1> QED BY <1>3, <1>4, <1>5, <1>6

LEMMA ProceedKeeps ==
  ASSUME MailInv, NEW c \in Calls, Proceed(c)
  PROVE  MailInv'
<1> DEFINE call == [calls[c] EXCEPT !.acked = @ \/ calls[c].ack # 0]
<1> DEFINE ms == AckedMail(call)
<1> DEFINE ds == AckedDeliveries(call)
<1>1. /\ calls[c].pc = "routing"
      /\ UNCHANGED <<runVars, workerVars, changes>>
      /\ IF call.box = "dispatch" /\ ~active
         THEN ForwardsMail(c) /\ UNCHANGED tables
         ELSE IF ~Holds(call) \/ ~AckAllowed(call)
         THEN Answered(c, "error", FALSE) /\ UNCHANGED tables
         ELSE /\ messages' = ms
              /\ IF \/ Replayable(ms, ds, call.box) # {}
                    \/ ~Nothing(ms, call, call.wanted)
                 THEN HandOut(c, call, ms, ds)
                 ELSE /\ deliveries' = ds
                      /\ IF ~call.waits THEN Answered(c, "empty", call.acked)
                         ELSE IF Occupied(call)
                         THEN Answered(c, Trouble(call), call.acked)
                         ELSE Waits(c, call)
  BY DEF Proceed
<1>2. /\ call.box \in Boxes /\ call.acked \in BOOLEAN /\ call.pane \in Panes
      /\ call.gen \in Nat /\ call.wanted \in BOOLEAN
      /\ call.ack \in DOMAIN deliveries \cup {0} /\ calls[c].box = call.box
  <2>1. calls[c] \in Routing /\ calls[c].ack \in DOMAIN deliveries \cup {0}
    BY <1>1, CallOf DEF MailInv, CallInv
  <2> QED BY <2>1 DEF Routing
<1> HIDE DEF call, ms, ds
<1>3. CASE call.box = "dispatch" /\ ~active
  BY <1>1, <1>3, ForwardsMailKeeps
<1>4. CASE /\ ~(call.box = "dispatch" /\ ~active)
           /\ ~Holds(call) \/ ~AckAllowed(call)
  BY <1>1, <1>4, AnsweredKeeps
<1>5. CASE /\ ~(call.box = "dispatch" /\ ~active)
           /\ Holds(call) /\ AckAllowed(call)
  <2>1. Open(call.box) /\ call.gen = Generation(call.box)
    BY <1>2, <1>5 DEF Open, Holds, Generation, Boxes
  <2>2. /\ ms \in Seq(Message) /\ Len(ms) <= MaxMail
        /\ ds \in Seq(Delivery) /\ DOMAIN ds = DOMAIN deliveries
        /\ TablesSound(ms, ds)
    <3>1. TypeOK /\ TablesSound(messages, deliveries) /\ Len(messages) <= MaxMail
      BY DEF MailInv, TypeOK
    <3> QED BY <1>2, <1>5, <2>1, <3>1, AckKeeps DEF ms, ds
  <2>3. messages' = ms
    BY <1>1, <1>5
  <2>4. SUFFICES /\ deliveries' \in Seq(Delivery) /\ TablesSound(messages, deliveries)'
                 /\ calls' \in [Calls -> CallRecords] /\ CallFacts'
    BY <1>1, <2>2, <2>3
       DEF MailInv, TypeOK, CallFacts, CallRecords, runVars, workerVars
  <2>5. CASE Replayable(ms, ds, call.box) # {} \/ ~Nothing(ms, call, call.wanted)
    <3>1. HandOut(c, call, ms, ds)
      BY <1>1, <1>5, <2>5
    <3>2. Replayable(ms, ds, call.box) = {} => Unread(ms, call.box) # {}
      BY <2>5 DEF Nothing
    <3> QED BY <1>1, <1>2, <2>1, <2>2, <2>3, <3>1, <3>2, HandOutKeeps
            DEF MailInv, CallFacts, runVars, workerVars
  <2>6. CASE ~(Replayable(ms, ds, call.box) # {} \/ ~Nothing(ms, call, call.wanted))
    <3>1. /\ deliveries' = ds
          /\ IF ~call.waits THEN Answered(c, "empty", call.acked)
             ELSE IF Occupied(call)
             THEN Answered(c, Trouble(call), call.acked)
             ELSE Waits(c, call)
      BY <1>1, <1>5, <2>6
    <3>2. TablesSound(messages, deliveries)'
      BY <1>1, <2>2, <2>3, <3>1, TablesSame DEF runVars, workerVars
    <3>3. CASE ~call.waits \/ Occupied(call)
      <4>1. PICK told \in {"empty", Trouble(call)} : Answered(c, told, call.acked)
        BY <3>1, <3>3
      <4>2. told = "error" /\ calls[c].box = "run" => ~call.acked
        BY <1>2, <4>1 DEF Trouble
      <4>3. /\ calls' \in [Calls -> CallRecords] /\ CallFacts'
        BY <1>1, <1>2, <2>2, <3>1, <4>1, <4>2, AnsweredCalls
           DEF MailInv, CallFacts, runVars, workerVars
      <4> QED BY <2>2, <3>1, <3>2, <4>3
    <3>4. CASE call.waits /\ ~Occupied(call)
      <4> DEFINE next == [pc |-> "waiting", pane |-> call.pane, box |-> call.box,
                          gen |-> call.gen, acked |-> call.acked, wanted |-> call.wanted]
      <4>1. calls' = [calls EXCEPT ![c] = next]
        BY <3>1, <3>4 DEF Waits
      <4>2. next \in CallRecords /\ next.pc = "waiting" /\ next.box = call.box
            /\ next.gen = call.gen
        BY <1>2 DEF Waiting, CallRecords
      <4> HIDE DEF next
      <4>3. next.box = "run" =>
              /\ next.gen = runGen
              /\ \A b \in Calls : ~(calls[b].pc = "waiting" /\ calls[b].box = "run")
        BY <2>1, <3>4, <4>2 DEF Occupied, Generation
      <4>4. calls' \in [Calls -> CallRecords] /\ CallFacts'
        BY <1>1, <2>2, <3>1, <4>1, <4>2, <4>3, CallTurns
           DEF MailInv, CallFacts, runVars, workerVars
      <4> QED BY <2>2, <3>1, <3>2, <4>1, <4>4 DEF MailInv, TypeOK
    <3> QED BY <3>3, <3>4
  <2> QED BY <2>5, <2>6
<1> QED BY <1>3, <1>4, <1>5

-----------------------------------------------------------------------------
(* The theorems *)

LEMMA InitSound == Init => MailInv
<1> SUFFICES ASSUME Init PROVE MailInv
  OBVIOUS
<1>1. messages = << >> /\ deliveries = << >> /\ calls = [c \in Calls |-> Idle]
  BY DEF Init
<1>2. \A S : << >> \in Seq(S) /\ Len(<< >>) = 0 /\ DOMAIN << >> = {}
  OBVIOUS
<1>3. TypeOK
  BY <1>1, <1>2 DEF Init, TypeOK
<1>4. TablesSound(messages, deliveries)
  BY <1>1, <1>2 DEF TablesSound, OneOutstanding, Outstanding, NoMailShared
<1>5. CallFacts
  BY <1>1 DEF CallFacts, CallInv, RunWaiterIsCurrent, ErrorMeansNothingAcknowledged, Idle
<1> QED BY <1>3, <1>4, <1>5 DEF MailInv, CallFacts

LEMMA StutterKeeps == MailInv /\ UNCHANGED vars => MailInv'
<1> SUFFICES ASSUME MailInv, UNCHANGED vars PROVE MailInv'
  OBVIOUS
<1>1. UNCHANGED <<messages, deliveries, runPane, runGen, remembered, active, workerPane,
                  workerGen, calls, changes>>
  BY DEF vars, tables, runVars, workerVars
<1>2. TablesSound(messages, deliveries)'
  BY <1>1, TablesSame DEF MailInv
<1>3. CallFacts'
  BY <1>1, CallsStay DEF MailInv, CallFacts
<1> QED BY <1>1, <1>2, <1>3 DEF MailInv, TypeOK, CallFacts

LEMMA StepKeeps == MailInv /\ [Next]_vars => MailInv'
<1> SUFFICES ASSUME MailInv, [Next]_vars PROVE MailInv'
  OBVIOUS
<1>1. CASE \E r \in Boxes \cup Panes, w \in Kinds :
             Send(r, w) \/ \E n \in DOMAIN messages : Reply(n, r, w)
  BY <1>1, SendKeeps, ReplyKeeps
<1>7. CASE \E w \in Kinds :
             Nudge(w) \/ \E S \in SUBSET Unread(messages, "run") : Report(S, w)
  BY <1>7, NudgeKeeps, ReportKeeps
<1>2. CASE \E p \in Panes : Bind(p) \/ Attach(p)
  BY <1>2, BindKeeps, AttachKeeps
<1>3. CASE Unbind \/ Settle \/ Restart
  BY <1>3, UnbindKeeps, SettleKeeps, RestartKeeps
<1>4. CASE \E c \in Calls :
             \E p \in Panes, ack \in DOMAIN deliveries \cup {0}, waits, wanted \in BOOLEAN :
               Start(c, p, ack, waits, wanted)
  BY <1>4, StartKeeps
<1>5. CASE \E c \in Calls : RuntimeStep(c) \/ End(c)
  BY <1>5, RouteKeeps, ProceedKeeps, AwakeKeeps, ForwardKeeps, EndKeeps DEF RuntimeStep
<1>6. CASE UNCHANGED vars
  BY <1>6, StutterKeeps
<1> QED BY <1>1, <1>2, <1>3, <1>4, <1>5, <1>6, <1>7 DEF Next

(* At most one delivery of a mailbox is out, whole and for its present     *)
(* consumer, and what the checks in flight hold stays true, in any order   *)
(* of sends, rebindings, attachments, checks and restarts.                 *)
THEOREM MailInvariance == Spec => []MailInv
BY InitSound, StepKeeps, PTL DEF Spec

(* The tables and the checks in flight keep their shape, and no delivery   *)
(* is made of nothing (getOrCreateMailboxDelivery).                        *)
THEOREM MailTypes == Spec => []TypeOK
<1>1. MailInv => TypeOK
  BY DEF MailInv
<1> QED BY <1>1, MailInvariance, PTL

(* No message is acknowledged twice: acknowledgeMailboxDelivery strikes    *)
(* off mail that no other acknowledged delivery holds.                     *)
THEOREM NothingAcknowledgedTwice == Spec => []AcknowledgedOnce
<1>1. MailInv => AcknowledgedOnce
  BY DEF MailInv, TablesSound, NoMailShared, Live, AcknowledgedOnce
<1> QED BY <1>1, MailInvariance, PTL

(* What a mailbox has outstanding is its present consumer's: a new         *)
(* consumer has fenced the rest, and a check that outlived its consumer    *)
(* made nothing (requireMailboxConsumer).                                  *)
THEOREM OutstandingBelongsToConsumer == Spec => []OutstandingIsCurrent
<1>1. MailInv => OutstandingIsCurrent
  <2> SUFFICES ASSUME MailInv, NEW box \in Boxes, NEW d \in Outstanding(messages, deliveries, box)
               PROVE  deliveries[d].gen = IF box = "run" THEN runGen ELSE workerGen
    BY DEF OutstandingIsCurrent
  <2>1. /\ d \in DOMAIN deliveries /\ deliveries[d].box = box
        /\ deliveries[d].status = "outstanding"
    BY DEF Outstanding
  <2> QED BY <2>1 DEF MailInv, TablesSound, DeliverySound, Generation
<1> QED BY <1>1, MailInvariance, PTL

(* A Run has at most one waiting check, its present consumer's: every      *)
(* rebinding tells the waiters of the old one (cancelMessageWaiters).      *)
THEOREM WaiterBelongsToConsumer == Spec => []RunWaiterIsCurrent
<1>1. MailInv => RunWaiterIsCurrent
  BY DEF MailInv
<1> QED BY <1>1, MailInvariance, PTL

(* A check of a Run that ends in an error has acknowledged nothing         *)
(* (interruptedAcknowledgedCheck).                                         *)
THEOREM ErrorHidesNoAcknowledgement == Spec => []ErrorMeansNothingAcknowledged
<1>1. MailInv => ErrorMeansNothingAcknowledged
  BY DEF MailInv
<1> QED BY <1>1, MailInvariance, PTL
=============================================================================
