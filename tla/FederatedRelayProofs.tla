------------------------ MODULE FederatedRelayProofs ------------------------
(***************************************************************************)
(* Proofs about FederatedRelay: for every page size, quota, number of      *)
(* messages, faults, restarts and runtimes, and for hosts of any version,  *)
(* nothing is struck off before the other side has it, the home's          *)
(* watermark is never ahead of the host, and only the home settles an      *)
(* attachment.                                                             *)
(*                                                                         *)
(* The argument: RelayInv follows each acknowledgement from the page it    *)
(* was built from, over the wire, into the host's receipt and back, and    *)
(* says at each place that it claims no more than the tables hold.  Each   *)
(* action has a lemma; the steps of the home other than an import leave    *)
(* the host and the imported mail alone and share the lemma HomeMoves.     *)
(*                                                                         *)
(* While no report takes the place of a heartbeat, the relay is an ordered *)
(* channel: ChannelInv says that the mail at home is the first part of the *)
(* queue and that a page still names the items it was read from.  A report *)
(* or message queued puts (SendPuts), an import delivers or repeats        *)
(* (ImportDelivers), and every other step rests (ChannelRests).            *)
(***************************************************************************)
EXTENDS FederatedRelay, FiniteSetTheorems, SequenceTheorems, NumberLemmas,
        TLAPS

LEMMA ConstantTypes ==
  /\ MaxSent \in Nat /\ MaxDown \in Nat /\ MaxFaults \in Nat /\ MaxRestarts \in Nat
  /\ MaxEpoch \in Nat /\ MaxEpoch > 0
  /\ PageSize \in Nat \ {0} /\ MaxPages \in Nat \ {0} /\ Quota \in Nat \ {0}
  /\ Supports \subseteq BOOLEAN /\ Kinds \subseteq AllKinds /\ Protocols \subseteq Nat
BY ProtocolAssumption, SupportAssumption, PagesAssumption, KindsAssumption,
   BoundsAssumption

USE ConstantTypes

Busy == {"importing", "waiting", "answered"}

-----------------------------------------------------------------------------
(* Facts about the operators *)

LEMMA MaxOfTwo ==
  ASSUME NEW a \in Int, NEW b \in Int
  PROVE  /\ MaxOf(a, b) \in {a, b} /\ a <= MaxOf(a, b) /\ b <= MaxOf(a, b)
BY DEF MaxOf

\* Only a sync at work on a page has a page
LEMMA BusyType ==
  ASSUME TypeOK, sync.pc \in Busy
  PROVE  sync \in BusySync
<1>1. sync # Idle
  BY DEF Idle, Busy
<1>2. sync \notin NextSync
  BY DEF NextSync, Busy
<1> QED BY <1>1, <1>2 DEF TypeOK

LEMMA CountTypes ==
  ASSUME RelayInv
  PROVE  /\ imported \in 0..MaxSent /\ homeAcked \in 0..MaxSent
         /\ downImported \in 0..MaxDown
         /\ checkpoint \in [epoch : 0..MaxEpoch, through : 0..MaxSent]
         /\ faults \in 0..MaxFaults /\ restarts \in 0..MaxRestarts
<1>1. TypeOK
  BY DEF RelayInv
<1> QED BY <1>1 DEF TypeOK

LEMMA IdleType == Idle.pc = "idle" /\ \A s \in NextSync : s.pc = "next"
BY DEF Idle, NextSync

LEMMA RequestTypes ==
  /\ \A q \in AckRequest : q.to = "ack" /\ q.id \in 0..MaxSent
                           /\ q.through \in 0..MaxSent /\ q.settlements \subseteq Settlement
  /\ \A q \in DownRequest : q.to = "import" /\ q.through \in 1..MaxDown
  /\ NoRequest.to = "none"
BY DEF AckRequest, DownRequest, NoRequest

LEMMA FunctionIsSeq ==
  ASSUME NEW S, NEW n \in Nat, NEW f \in [1..n -> S]
  PROVE  f \in Seq(S) /\ Len(f) = n
<1>1. f \in Seq(S)
  BY SeqDef
<1>2. 1..Len(f) = 1..n /\ Len(f) \in Nat
  BY <1>1, LenProperties
<1> QED BY <1>2

\* The queue is a function from 1..Len(queue), its items are records
LEMMA QueueType ==
  ASSUME TypeOK
  PROVE  /\ Len(queue) \in Nat /\ DOMAIN queue = 1..Len(queue)
         /\ queue \in [1..Len(queue) -> Item]
         /\ AckedItems \subseteq 1..Len(queue)
BY LenProperties DEF TypeOK, AckedItems

\* The unmarked items follow the marked ones
LEMMA UnackedRest ==
  ASSUME RelayInv
  PROVE  \E n \in 0..imported :
           /\ AckedItems = 1..n /\ n <= Len(queue)
           /\ Unacked = (n + 1)..Len(queue)
           /\ Unacked # {} => Least(Unacked) = n + 1
<1>1. PICK n \in 0..imported : AckedItems = 1..n
  BY DEF RelayInv, PrefixInv
<1>2. imported \in 0..MaxSent /\ imported <= Len(queue) /\ Len(queue) \in Nat
  BY QueueType DEF RelayInv, QueueInv, TypeOK
<1>3. Unacked = (n + 1)..Len(queue)
  <2>1. \A s \in 1..Len(queue) : queue[s].acked \in BOOLEAN
    BY QueueType DEF RelayInv, Item
  <2>2. \A s \in 1..Len(queue) : s \in Unacked <=> s \notin AckedItems
    BY QueueType, <2>1 DEF RelayInv, Unacked, AckedItems
  <2>3. Unacked \subseteq 1..Len(queue)
    BY QueueType DEF RelayInv, Unacked
  <2>4. ASSUME NEW s PROVE s \in Unacked <=> s \in (n + 1)..Len(queue)
    <3>1. n \in Nat /\ Len(queue) \in Nat
      BY <1>2
    <3>2. CASE s \in 1..Len(queue)
      <4>1. s \in Unacked <=> s \notin 1..n
        BY <1>1, <2>2, <3>2
      <4> QED BY <3>1, <3>2, <4>1
    <3>3. CASE s \notin 1..Len(queue)
      <4>1. (n + 1)..Len(queue) \subseteq 1..Len(queue)
        BY <3>1
      <4> QED BY <2>3, <3>3, <4>1
    <3> QED BY <3>2, <3>3
  <2> QED BY <2>4
<1>4. ASSUME Unacked # {} PROVE Least(Unacked) = n + 1
  <2>1. n + 1 \in Unacked /\ \A t \in Unacked : n + 1 <= t
    BY <1>2, <1>3, <1>4
  <2>2. Unacked \subseteq Int
    BY <1>2, <1>3
  <2>3. \A s \in Unacked : (\A t \in Unacked : s <= t) => s = n + 1
    BY <2>1, <2>2
  <2>4. Least(Unacked) \in Unacked /\ \A t \in Unacked : Least(Unacked) <= t
    BY <2>1, Zenon DEF Least
  <2> QED BY <2>3, <2>4
<1> QED BY <1>1, <1>2, <1>3, <1>4

-----------------------------------------------------------------------------
(* The home: its steps other than an import *)

LEMMA HomeMoves ==
  ASSUME RelayInv,
         UNCHANGED <<hostVars, rowVars, protocol>>,
         downSent' \in 0..MaxDown,
         homeAcked' \in 0..MaxSent, Marked(homeAcked'), homeEpoch' \in 0..MaxEpoch,
         downAcked' \in 0..MaxDown, downAcked' <= downImported,
         sync' \in {Idle} \cup NextSync \cup BusySync, SyncInv',
         cached' \in [epoch : 0..MaxEpoch, supported : BOOLEAN],
         checkpoint' \in [epoch : 0..MaxEpoch, through : 0..MaxSent],
         wire' \subseteq AckRequest \cup DownRequest, WireInv',
         faults' \in 0..MaxFaults, restarts' \in 0..MaxRestarts
  PROVE  RelayInv'
<1>1. TypeOK'
  BY DEF RelayInv, TypeOK, hostVars, rowVars
<1>2. QueueInv' /\ PrefixInv' /\ ReceiptsInv'
  BY DEF RelayInv, QueueInv, PrefixInv, ReceiptsInv, AckedItems, Marked, hostVars, rowVars
<1>3. WatermarkIsAcked' /\ HomeDecides' /\ DownAckedMeansImported'
  BY DEF RelayInv, WatermarkIsAcked, HomeDecides, DownAckedMeansImported, Settles, Settled,
         AckedItems, Marked, hostVars, rowVars
<1> QED BY <1>1, <1>2, <1>3 DEF RelayInv

\* A sync that ends or turns to the next page holds nothing
LEMMA SyncRests ==
  ASSUME RelayInv,
         UNCHANGED <<hostVars, rowVars, dispatchRow, downVars>>,
         sync' \in {Idle} \cup NextSync,
         cached' \in [epoch : 0..MaxEpoch, supported : BOOLEAN],
         checkpoint' \in [epoch : 0..MaxEpoch, through : 0..MaxSent],
         wire' \subseteq wire,
         faults' \in 0..MaxFaults, restarts' \in 0..MaxRestarts
  PROVE  RelayInv'
<1>1. SyncInv'
  BY IdleType DEF SyncInv
<1>2. WireInv' /\ wire' \subseteq AckRequest \cup DownRequest
  BY DEF RelayInv, TypeOK, WireInv, Agrees, rowVars
<1>3. Marked(homeAcked') /\ downAcked' <= downImported
  BY DEF RelayInv, WatermarkIsAcked, Marked, DownAckedMeansImported, dispatchRow, downVars
<1> QED BY <1>1, <1>2, <1>3, HomeMoves DEF RelayInv, TypeOK, dispatchRow, downVars

LEMMA CheckpointTypes ==
  ASSUME TypeOK
  PROVE  /\ NoCheckpoint \in [epoch : 0..MaxEpoch, through : 0..MaxSent]
         /\ NoCapability \in [epoch : 0..MaxEpoch, supported : BOOLEAN]
BY DEF NoCheckpoint, NoCapability

LEMMA FinishedRests ==
  ASSUME RelayInv, NEW e, Finished(e, checkpoint)
  PROVE  /\ sync' \in {Idle} \cup NextSync
         /\ checkpoint' \in [epoch : 0..MaxEpoch, through : 0..MaxSent]
BY CheckpointTypes DEF Finished, RelayInv, TypeOK

LEMMA SyncEnds ==
  ASSUME RelayInv, ImportFails \/ Refused \/ GiveUp \/ TimeOut \/ HomeRestart
  PROVE  RelayInv'
<1>1. CASE ImportFails
  BY <1>1, FinishedRests, SyncRests DEF ImportFails, RelayInv, TypeOK, bounds
<1>2. CASE Refused
  BY <1>2, FinishedRests, SyncRests DEF Refused, RelayInv, TypeOK, bounds
<1>3. CASE GiveUp
  <2>1. faults' \in 0..MaxFaults /\ restarts' \in 0..MaxRestarts
    BY <1>3, CountTypes DEF GiveUp
  <2> QED BY <1>3, <2>1, FinishedRests, SyncRests DEF GiveUp, RelayInv, TypeOK
<1>4. CASE TimeOut
  BY <1>4, FinishedRests, SyncRests DEF TimeOut, RelayInv, TypeOK, bounds
<1>5. CASE HomeRestart
  <2>1. faults' \in 0..MaxFaults /\ restarts' \in 0..MaxRestarts
    BY <1>5, CountTypes DEF HomeRestart
  <2>2. TypeOK
    BY DEF RelayInv
  <2> QED BY <1>5, <2>1, <2>2, CheckpointTypes, SyncRests DEF HomeRestart
<1> QED BY <1>1, <1>2, <1>3, <1>4, <1>5

\* A page names items of the queue in their order, as they are
LEMMA PageOf ==
  ASSUME TypeOK, NEW first \in 1..(Len(queue) + 1)
  PROVE  /\ Page(From(first)) \in Seq(PageItem)
         /\ \A n \in DOMAIN Page(From(first)) :
              LET i == Page(From(first))[n]
              IN  /\ i.seq = first + n - 1 /\ i.seq \in 1..Len(queue)
                  /\ Mail(i) = Mail(queue[i.seq])
<1> DEFINE k == Len(queue) - first + 1
<1> DEFINE page == Page(From(first))
<1>1. Len(queue) \in Nat /\ Len(queue) <= MaxSent /\ k \in Nat /\ MaxOf(0, k) = k
  BY QueueType DEF MaxOf, TypeOK
<1>2. ASSUME NEW n \in 1..k
      PROVE  /\ From(first)[n] \in PageItem
             /\ From(first)[n].seq = first + n - 1 /\ first + n - 1 \in 1..Len(queue)
             /\ Mail(From(first)[n]) = Mail(queue[first + n - 1])
  <2>1. first + n - 1 \in 1..Len(queue)
    BY <1>1
  <2>2. queue[first + n - 1] \in Item
    BY <2>1, QueueType
  <2>3. From(first)[n] = [seq |-> first + n - 1, msg |-> queue[first + n - 1].msg,
                          kind |-> queue[first + n - 1].kind]
    BY <1>1 DEF From
  <2> QED BY <1>1, <2>1, <2>2, <2>3 DEF PageItem, Item, Mail
<1>3. From(first) \in [1..k -> PageItem]
  BY <1>1, <1>2 DEF From
<1>4. From(first) \in Seq(PageItem) /\ Len(From(first)) = k
  BY <1>1, <1>3, FunctionIsSeq
<1>5. /\ page \in Seq(PageItem) /\ Len(page) <= k
      /\ \A n \in 1..Len(page) : page[n] = From(first)[n]
  <2>1. CASE k <= PageSize
    BY <1>1, <1>4, <2>1 DEF Page
  <2>2. CASE k > PageSize
    <3>1. page = SubSeq(From(first), 1, PageSize)
      BY <1>1, <1>4, <2>2 DEF Page
    <3>2. \A n \in 1..PageSize : n \in 1..k /\ From(first)[n] \in PageItem
      BY <1>1, <1>2, <2>2
    <3>3. /\ page \in Seq(PageItem) /\ Len(page) = PageSize
          /\ \A n \in 1..PageSize : page[n] = From(first)[n]
      BY <3>1, <3>2, SubSeqProperties
    <3> QED BY <2>2, <3>3
  <2> QED BY <1>1, <2>1, <2>2
<1> HIDE DEF page, k
<1>6. \A n \in DOMAIN page : n \in 1..k /\ page[n] = From(first)[n]
  BY <1>1, <1>5, LenProperties
<1>7. ASSUME NEW n \in DOMAIN page
      PROVE  /\ page[n].seq = first + n - 1 /\ page[n].seq \in 1..Len(queue)
             /\ Mail(page[n]) = Mail(queue[page[n].seq])
  BY <1>2, <1>6
<1> QED BY <1>5, <1>7 DEF page

LEMMA PullKeeps ==
  ASSUME RelayInv, Pull
  PROVE  RelayInv'
<1> DEFINE cap == cached'
<1> DEFINE first == IF ~Replays(cap) THEN imported + 1
                    ELSE IF Unacked = {} THEN Len(queue) + 1 ELSE Least(Unacked)
<1> DEFINE page == Page(From(first))
<1>1. /\ cap \in [epoch : 0..MaxEpoch, supported : BOOLEAN]
      /\ sync' = [pc |-> "importing", page |-> page, epoch |-> epoch,
                  settling |-> cap.supported /\ cap.epoch = epoch,
                  cursor |-> IF Replays(cap) /\ page # << >>
                             THEN page[1].seq - 1 ELSE imported,
                  full |-> Len(page) = PageSize,
                  settlements |-> {}, barrier |-> 0,
                  request |-> NoRequest, answer |-> "none",
                  pages |-> IF sync.pc = "idle" THEN MaxPages ELSE sync.pages]
      /\ UNCHANGED <<hostVars, rowVars, dispatchRow, downVars, checkpoint, wire, bounds>>
  BY DEF Pull, RelayInv, TypeOK, NoCapability
<1>2. /\ Len(queue) \in Nat /\ Len(queue) <= MaxSent /\ imported \in 0..MaxSent
      /\ imported <= Len(queue) /\ epoch \in 1..MaxEpoch
  BY QueueType DEF RelayInv, QueueInv, TypeOK
<1>3. first \in 1..(Len(queue) + 1) /\ (Replays(cap) /\ first <= Len(queue) => first <= imported + 1)
  BY <1>2, UnackedRest DEF RelayInv
<1>4. /\ page \in Seq(PageItem)
      /\ \A n \in DOMAIN page : page[n].seq = first + n - 1 /\ page[n].seq <= Len(queue)
  <2> HIDE DEF first
  <2> QED BY <1>3, PageOf DEF RelayInv
<1> HIDE DEF page, first, cap
<1>5. (IF Replays(cap) /\ page # << >> THEN page[1].seq - 1 ELSE imported) \in 0..imported
  <2>1. CASE Replays(cap) /\ page # << >>
    <3>1. 1 \in DOMAIN page
      BY <1>4, <2>1, LenProperties, EmptySeq
    <3>2. page[1].seq = first /\ first <= Len(queue)
      BY <1>2, <1>3, <1>4, <3>1
    <3> QED BY <1>2, <1>3, <2>1, <3>2
  <2> QED BY <1>2, <2>1
<1>6. sync' \in BusySync
  <2>1. (IF sync.pc = "idle" THEN MaxPages ELSE sync.pages) \in 1..MaxPages
    <3>1. CASE sync.pc = "idle"
      BY <3>1
    <3>2. CASE sync.pc = "next"
      <4>1. sync # Idle /\ sync \notin BusySync
        BY <3>2 DEF Idle, BusySync
      <4> QED BY <3>2, <4>1 DEF RelayInv, TypeOK, NextSync
    <3> QED BY <3>1, <3>2 DEF Pull
  <2> QED BY <1>1, <1>2, <1>4, <1>5, <2>1 DEF BusySync
<1>7. SyncInv'
  <2> QED BY <1>1, <1>2, <1>4, <1>5 DEF SyncInv, Agrees, NoRequest, hostVars, rowVars
<1>8. WireInv' /\ Marked(homeAcked') /\ downAcked' <= downImported
  BY <1>1 DEF RelayInv, WireInv, Agrees, WatermarkIsAcked, Marked,
              DownAckedMeansImported, rowVars, dispatchRow, downVars
<1>9. /\ UNCHANGED <<hostVars, rowVars, protocol, homeAcked, homeEpoch, downSent, downAcked>>
      /\ UNCHANGED <<checkpoint, wire, faults, restarts>>
      /\ cached' \in [epoch : 0..MaxEpoch, supported : BOOLEAN]
  BY <1>1 DEF dispatchRow, downVars, bounds, cap
<1> QED BY <1>6, <1>7, <1>8, <1>9, HomeMoves DEF RelayInv, TypeOK

LEMMA ContinuedRests ==
  ASSUME RelayInv, sync.pc \in Busy, NEW acked,
         NEW check \in [epoch : 0..MaxEpoch, through : 0..MaxSent],
         Continued(acked, check)
  PROVE  /\ sync' \in {Idle} \cup NextSync
         /\ checkpoint' \in [epoch : 0..MaxEpoch, through : 0..MaxSent]
<1>1. sync.pages \in 1..MaxPages
  BY BusyType DEF RelayInv, BusySync
<1>2. CASE sync.full /\ sync.pages > 1 /\ sync.barrier = 0
  BY <1>1, <1>2 DEF Continued, NextSync
<1>3. CASE ~(sync.full /\ sync.pages > 1 /\ sync.barrier = 0)
  BY <1>3, CheckpointTypes DEF Continued, Finished, RelayInv
<1> QED BY <1>2, <1>3

\* A request that claims no more than the tables hold
LEMMA RequestedKeeps ==
  ASSUME RelayInv, sync.pc \in Busy, NEW q \in AckRequest \cup DownRequest,
         q.to = "ack" => q.through <= imported /\ Agrees(q.settlements),
         Requested(q), UNCHANGED <<hostVars, rowVars>>
  PROVE  /\ sync' \in BusySync /\ SyncInv'
         /\ wire' \subseteq AckRequest \cup DownRequest /\ WireInv'
<1>1. sync \in BusySync
  BY BusyType DEF RelayInv
<1>2. sync' \in BusySync /\ sync'.answer = "none"
  BY <1>1 DEF Requested, BusySync
<1>3. SyncInv'
  BY <1>1, <1>2 DEF Requested, RelayInv, SyncInv, Agrees, BusySync, Busy, hostVars, rowVars
<1>4. wire' \subseteq AckRequest \cup DownRequest /\ WireInv'
  BY DEF Requested, RelayInv, TypeOK, WireInv, Agrees, rowVars
<1> QED BY <1>2, <1>3, <1>4

LEMMA ProceedKeeps ==
  ASSUME RelayInv, sync.pc \in Busy, NEW acked \in 0..MaxSent, Marked(acked),
         NEW check \in [epoch : 0..MaxEpoch, through : 0..MaxSent],
         Proceed(acked, check), UNCHANGED <<hostVars, rowVars, downVars, bounds>>
  PROVE  RelayInv'
<1>1. /\ UNCHANGED <<hostVars, rowVars, protocol, downSent, downAcked, faults, restarts>>
      /\ homeAcked' = acked /\ homeEpoch' \in 0..MaxEpoch
      /\ cached' \in [epoch : 0..MaxEpoch, supported : BOOLEAN]
      /\ downAcked <= downImported
  <2>1. sync.epoch \in 0..MaxEpoch
    BY BusyType DEF RelayInv, BusySync
  <2> QED BY <2>1, CheckpointTypes
         DEF Proceed, RelayInv, TypeOK, DownAckedMeansImported, downVars, bounds
<1>2. CASE home = "live" /\ downAcked < downSent
  <2>1. [to |-> "import", through |-> downSent] \in DownRequest
    BY <1>2 DEF RelayInv, TypeOK, DownRequest
  <2>2. /\ sync' \in BusySync /\ SyncInv'
        /\ wire' \subseteq AckRequest \cup DownRequest /\ WireInv'
    BY <1>1, <1>2, <2>1, RequestedKeeps DEF Proceed
  <2> QED BY <1>1, <1>2, <2>2, HomeMoves DEF Proceed, RelayInv, TypeOK
<1>3. CASE ~(home = "live" /\ downAcked < downSent)
  <2>1. Continued(acked, check) /\ wire' = wire
    BY <1>3 DEF Proceed
  <2>2. /\ sync' \in {Idle} \cup NextSync
        /\ checkpoint' \in [epoch : 0..MaxEpoch, through : 0..MaxSent]
    BY <2>1, ContinuedRests
  <2>3. SyncInv' /\ WireInv'
    BY <1>1, <2>1, <2>2, IdleType DEF RelayInv, SyncInv, WireInv, Agrees, rowVars
  <2> QED BY <1>1, <2>1, <2>2, <2>3, HomeMoves DEF RelayInv, TypeOK
<1> QED BY <1>2, <1>3

LEMMA AcknowledgeKeeps ==
  ASSUME RelayInv, Acknowledge
  PROVE  RelayInv'
<1>1. sync.pc \in Busy /\ sync \in BusySync
  BY BusyType DEF Acknowledge, Busy, RelayInv
<1>2. UNCHANGED <<hostVars, rowVars, downVars, bounds>>
  BY DEF Acknowledge
<1>3. CASE AckCursor > AlreadyAcked
  <2> DEFINE q == [to |-> "ack", id |-> sync.cursor, through |-> AckCursor,
                   settlements |-> sync.settlements]
  <2>1. Requested(q) /\ UNCHANGED <<dispatchRow, cached, checkpoint>>
    BY <1>3 DEF Acknowledge
  <2>2. q \in AckRequest /\ q.through <= imported /\ Agrees(q.settlements)
    <3>1. AckCursor \in 0..MaxSent /\ AckCursor <= imported
      <4>1. sync.cursor \in 0..MaxSent /\ sync.barrier \in 0..MaxSent
        BY <1>1 DEF BusySync
      <4>2. sync.cursor <= imported /\ sync.barrier <= imported
        BY <1>1 DEF RelayInv, SyncInv, Busy
      <4> QED BY <4>1, <4>2, CountTypes DEF AckCursor
    <3>2. sync.cursor \in 0..MaxSent /\ sync.settlements \subseteq Settlement
      BY <1>1 DEF BusySync
    <3>3. Agrees(sync.settlements)
      BY <1>1 DEF RelayInv, SyncInv, Busy
    <3> QED BY <3>1, <3>2, <3>3 DEF AckRequest
  <2>3. /\ sync' \in BusySync /\ SyncInv'
        /\ wire' \subseteq AckRequest \cup DownRequest /\ WireInv'
    BY <1>1, <1>2, <2>1, <2>2, RequestedKeeps
  <2>4. Marked(homeAcked) /\ downAcked <= downImported
    BY DEF RelayInv, WatermarkIsAcked, Marked, DownAckedMeansImported
  <2> QED BY <1>2, <2>1, <2>3, <2>4, HomeMoves
         DEF RelayInv, TypeOK, dispatchRow, downVars, bounds
<1>4. CASE ~(AckCursor > AlreadyAcked)
  <2>1. Proceed(homeAcked, checkpoint)
    BY <1>4 DEF Acknowledge
  <2>2. Marked(homeAcked)
    BY DEF RelayInv, WatermarkIsAcked, Marked
  <2> QED BY <1>1, <1>2, <2>1, <2>2, ProceedKeeps, CountTypes
<1> QED BY <1>3, <1>4

LEMMA AckAnsweredKeeps ==
  ASSUME RelayInv, AckAnswered
  PROVE  RelayInv'
<1>1. sync.pc \in Busy /\ sync \in BusySync
  BY BusyType DEF AckAnswered, Busy, RelayInv
<1>2. sync.request \in AckRequest /\ Marked(sync.request.through)
  BY <1>1, RequestTypes DEF AckAnswered, RelayInv, SyncInv, BusySync, Busy
<1>3. Recorded \in 0..MaxSent /\ Recorded <= sync.request.through
  <2>1. sync.request.through \in 0..MaxSent
    BY <1>2, RequestTypes
  <2> QED BY <2>1 DEF Recorded, MaxOf
<1>4. Marked(Recorded) /\ Marked(homeAcked)
  <2>1. sync.request.through \in 0..MaxSent
    BY <1>2, RequestTypes
  <2> QED BY <1>2, <1>3, <2>1 DEF Marked, RelayInv, WatermarkIsAcked
<1> DEFINE acked == IF homeEpoch = sync.epoch THEN MaxOf(homeAcked, Recorded) ELSE Recorded
<1> DEFINE check == IF checkpoint.epoch = sync.epoch /\ checkpoint.through >= Recorded
                    THEN checkpoint ELSE [epoch |-> sync.epoch, through |-> Recorded]
<1>5. acked \in 0..MaxSent /\ Marked(acked)
  BY <1>3, <1>4, MaxOfTwo, CountTypes
<1>6. check \in [epoch : 0..MaxEpoch, through : 0..MaxSent]
  <2>1. sync.epoch \in 0..MaxEpoch
    BY <1>1 DEF BusySync
  <2> QED BY <1>3, <2>1, CountTypes
<1>7. Proceed(acked, check) /\ UNCHANGED <<hostVars, rowVars, downVars, bounds>>
  BY DEF AckAnswered
<1> QED BY <1>1, <1>5, <1>6, <1>7, ProceedKeeps

LEMMA DownAnsweredKeeps ==
  ASSUME RelayInv, DownAnswered
  PROVE  RelayInv'
<1>1. sync.pc \in Busy /\ sync \in BusySync
  BY BusyType DEF DownAnswered, Busy, RelayInv
<1>2. sync.request \in DownRequest /\ sync.request.through <= downImported
  BY <1>1, RequestTypes DEF DownAnswered, RelayInv, SyncInv, BusySync, Busy
<1>3. downAcked' \in 0..MaxDown /\ downAcked' <= downImported
  <2>1. sync.request.through \in 0..MaxDown
    BY <1>2, RequestTypes
  <2>2. downAcked \in 0..MaxDown /\ downAcked <= downImported
    BY DEF RelayInv, TypeOK, DownAckedMeansImported
  <2>3. downAcked' = MaxOf(downAcked, sync.request.through)
    BY DEF DownAnswered, DownThrough
  <2> QED BY <1>2, <2>1, <2>2, <2>3 DEF MaxOf
<1>4. /\ sync' \in {Idle} \cup NextSync
      /\ checkpoint' \in [epoch : 0..MaxEpoch, through : 0..MaxSent]
  <2>1. Continued(homeAcked, checkpoint)
    BY DEF DownAnswered
  <2> QED BY <1>1, <2>1, ContinuedRests, CountTypes
<1>5. /\ UNCHANGED <<hostVars, rowVars, dispatchRow, downSent, cached, wire, bounds>>
      /\ Marked(homeAcked)
  BY DEF DownAnswered, RelayInv, WatermarkIsAcked, Marked
<1>6. SyncInv' /\ WireInv'
  BY <1>4, <1>5, IdleType DEF RelayInv, SyncInv, WireInv, Agrees, rowVars
<1> QED BY <1>3, <1>4, <1>5, <1>6, HomeMoves DEF RelayInv, TypeOK, dispatchRow, bounds

-----------------------------------------------------------------------------
(* The home: an import, and its coordinator *)

\* A verdict given stays: the home settles a dispatch once
LEMMA VerdictStays ==
  ASSUME TypeOK, home' = home \/ home = "live" \/ home = "stopping",
         NEW t \in Settlement, t.action # "rejected" => home = t.action
  PROVE  t.action # "rejected" => home' = t.action
BY DEF Settlement, ReportKinds

LEMMA ImportKeeps ==
  ASSUME RelayInv, Import
  PROVE  RelayInv'
<1> DEFINE i == Head(sync.page)
<1> DEFINE report == i.kind \in ReportKinds
<1> DEFINE settlements == IF report /\ sync.settling
             THEN sync.settlements \cup {[seq |-> i.seq, action |-> Verdict(i.kind)]}
             ELSE sync.settlements
<1> DEFINE barrier == IF sync.barrier = 0 /\ report /\ Settles /\ ~sync.settling
                      THEN i.seq ELSE sync.barrier
<1>1. sync.pc \in Busy /\ sync \in BusySync
  BY BusyType DEF Import, Busy, RelayInv
<1>2. /\ i \in PageItem /\ i.seq <= Len(queue)
      /\ Tail(sync.page) \in Seq(PageItem)
      /\ \A n \in DOMAIN Tail(sync.page) : Tail(sync.page)[n].seq <= Len(queue)
  <2>1. sync.page \in Seq(PageItem) /\ sync.page # << >>
    BY <1>1 DEF BusySync, Import
  <2>2. \A n \in DOMAIN sync.page : sync.page[n].seq <= Len(queue)
    BY <1>1 DEF RelayInv, SyncInv, Busy
  <2>3. i = sync.page[1] /\ 1 \in DOMAIN sync.page
    BY <2>1, LenProperties, EmptySeq
  <2>4. /\ i \in PageItem /\ Tail(sync.page) \in Seq(PageItem)
        /\ Len(Tail(sync.page)) = Len(sync.page) - 1
        /\ \A n \in 1..Len(Tail(sync.page)) : Tail(sync.page)[n] = sync.page[n + 1]
    BY <2>1, HeadTailProperties
  <2>5. ASSUME NEW n \in DOMAIN Tail(sync.page)
        PROVE  n + 1 \in DOMAIN sync.page /\ Tail(sync.page)[n] = sync.page[n + 1]
    BY <2>1, <2>4, <2>5, LenProperties
  <2> QED BY <2>2, <2>3, <2>4, <2>5
<1>3. /\ UNCHANGED <<hostVars, dispatchRow, downVars, cached, checkpoint, wire, bounds>>
      /\ imported' = MaxOf(imported, i.seq)
      /\ home' = IF report /\ home = "live" THEN i.kind ELSE home
      /\ inbox' = IF NewMail(i.msg)
                  THEN Append(inbox, [msg |-> i.msg, kind |-> i.kind]) ELSE inbox
      /\ Importable(i)
      /\ sync' = [sync EXCEPT !.page = Tail(@), !.cursor = i.seq,
                    !.settlements = settlements, !.barrier = barrier]
  BY DEF Import, bounds
<1> HIDE DEF i, settlements, barrier
<1>4. /\ i.seq \in 1..MaxSent /\ i.msg \in 1..MaxSent /\ i.kind \in AllKinds
      /\ imported' \in 0..MaxSent /\ imported' <= Len(queue)
      /\ imported <= imported' /\ i.seq <= imported'
      /\ i.seq > imported => imported' = imported + 1
  <2>1. i.seq \in 1..MaxSent /\ i.msg \in 1..MaxSent /\ i.kind \in AllKinds
    BY <1>2 DEF PageItem
  <2>2. imported \in 0..MaxSent /\ imported <= Len(queue)
    BY DEF RelayInv, TypeOK, QueueInv
  <2>3. i.seq > imported => i.seq = imported + 1
    BY <1>3 DEF Importable
  <2> QED BY <1>2, <1>3, <2>1, <2>2, <2>3, MaxOfTwo DEF MaxOf
<1>5. home' \in ReportKinds \cup {"live", "stopping", "stopped"}
  BY <1>3 DEF RelayInv, TypeOK
<1>6. inbox' \in Seq([msg : 1..MaxSent, kind : AllKinds]) /\ Len(inbox') <= imported'
  <2>1. /\ inbox \in Seq([msg : 1..MaxSent, kind : AllKinds]) /\ Len(inbox) \in Nat
        /\ Len(inbox) <= imported /\ imported \in 0..MaxSent
    BY LenProperties DEF RelayInv, TypeOK, QueueInv
  <2>2. CASE NewMail(i.msg)
    <3> Importable(i)
      BY <1>3
    <3>1. i.seq > imported
      BY <1>4, <2>1, <2>2 DEF Importable, NewMail
    <3>2. [msg |-> i.msg, kind |-> i.kind] \in [msg : 1..MaxSent, kind : AllKinds]
      BY <1>4
    <3> QED BY <1>3, <1>4, <2>1, <2>2, <3>1, <3>2, AppendProperties
  <2>3. CASE ~NewMail(i.msg)
    BY <1>3, <1>4, <2>1, <2>3
  <2> QED BY <2>2, <2>3
<1>7. /\ settlements \subseteq Settlement
      /\ \A t \in settlements : t.action # "rejected" => home' = t.action
  <2>1. sync.settlements \in SUBSET Settlement /\ Agrees(sync.settlements)
    BY <1>1 DEF RelayInv, SyncInv, BusySync, Busy
  <2>2. home' = home \/ home = "live" \/ home = "stopping"
    BY <1>3
  <2>3. \A t \in sync.settlements : t.action # "rejected" => home' = t.action
    BY <2>1, <2>2, VerdictStays DEF RelayInv, Agrees
  <2>4. CASE report /\ sync.settling
    <3> DEFINE v == [seq |-> i.seq, action |-> Verdict(i.kind)]
    <3>1. Verdict(i.kind) \in ReportKinds \cup {"rejected"}
      BY <2>4 DEF Verdict
    <3>2. v \in Settlement
      BY <1>4, <3>1 DEF Settlement
    <3>3. v.action # "rejected" => home' = v.action
      BY <1>3, <2>4 DEF Verdict
    <3>4. settlements = sync.settlements \cup {v}
      BY <2>4 DEF settlements
    <3> QED BY <2>1, <2>3, <3>2, <3>3, <3>4
  <2>5. CASE ~(report /\ sync.settling)
    BY <2>1, <2>3, <2>5 DEF settlements
  <2> QED BY <2>4, <2>5
<1>8. sync' \in BusySync /\ SyncInv'
  <2>1. barrier \in 0..imported' /\ barrier \in 0..MaxSent
    <3>1. sync.barrier \in 0..MaxSent /\ sync.barrier <= imported
      BY <1>1 DEF RelayInv, SyncInv, BusySync, Busy
    <3>2. barrier = sync.barrier \/ barrier = i.seq
      BY DEF barrier
    <3> QED BY <1>4, <3>1, <3>2 DEF RelayInv, TypeOK
  <2>2. sync' \in BusySync
    <3>1. sync' = [sync EXCEPT !.page = Tail(@), !.cursor = i.seq,
                     !.settlements = settlements, !.barrier = barrier]
      BY <1>3
    <3>2. /\ Tail(sync.page) \in Seq(PageItem) /\ i.seq \in 0..MaxSent
          /\ settlements \in SUBSET Settlement /\ barrier \in 0..MaxSent
      BY <1>2, <1>4, <1>7, <2>1
    <3> QED BY <1>1, <3>1, <3>2 DEF BusySync
  <2>3. /\ sync'.page = Tail(sync.page) /\ sync'.cursor = i.seq
        /\ sync'.settlements = settlements /\ sync'.barrier = barrier
        /\ sync'.answer = sync.answer /\ sync'.request = sync.request
    BY <1>1, <1>3 DEF BusySync
  <2>4. UNCHANGED <<queue, downImported>>
    BY <1>3 DEF hostVars
  <2>5. Agrees(sync.settlements)'
    BY <1>7, <2>3 DEF Agrees
  <2> QED BY <1>1, <1>2, <1>4, <2>1, <2>2, <2>3, <2>4, <2>5
         DEF RelayInv, SyncInv, Marked, AckedItems, Busy
<1>9. TypeOK'
  <2>1. imported' \in 0..MaxSent /\ Len(inbox') <= MaxSent
    <3>1. Len(inbox') \in Nat
      BY <1>6, LenProperties
    <3> QED BY <1>4, <1>6, <3>1
  <2>2. /\ UNCHANGED <<hostVars, dispatchRow, downVars, cached, checkpoint, wire, bounds>>
        /\ inbox' \in Seq([msg : 1..MaxSent, kind : AllKinds])
        /\ sync' \in {Idle} \cup NextSync \cup BusySync
    BY <1>3, <1>6, <1>8
  <2> QED BY <1>5, <2>1, <2>2
         DEF RelayInv, TypeOK, hostVars, dispatchRow, downVars, bounds
<1>10. QueueInv'
  BY <1>3, <1>4, <1>6 DEF RelayInv, QueueInv, hostVars
<1>11. WireInv'
  <2>1. \A q \in wire : q.to = "ack" =>
          /\ q \in AckRequest /\ q.through <= imported /\ Agrees(q.settlements)
    BY RequestTypes DEF RelayInv, TypeOK, WireInv
  <2>2. \A q \in wire : q.to = "ack" => q.through <= imported'
    <3>1. imported \in Nat /\ imported' \in Nat /\ imported <= imported'
      BY <1>4, CountTypes
    <3>2. \A q \in AckRequest : q.through \in Nat
      BY RequestTypes
    <3> QED BY <2>1, <3>1, <3>2
  <2>3. home' = home \/ home = "live" \/ home = "stopping"
    BY <1>3
  <2>4. \A q \in wire : q.to = "ack" =>
          \A t \in q.settlements : t.action # "rejected" => home' = t.action
    BY <2>1, <2>3, RequestTypes, VerdictStays DEF RelayInv, Agrees
  <2> QED BY <1>3, <2>2, <2>4 DEF WireInv, Agrees
<1>12. PrefixInv' /\ ReceiptsInv' /\ WatermarkIsAcked'
  <2>1. UNCHANGED <<queue, receipts, homeAcked>>
    BY <1>3 DEF hostVars, dispatchRow
  <2>2. ReceiptsInv' /\ WatermarkIsAcked'
    BY <2>1 DEF RelayInv, ReceiptsInv, WatermarkIsAcked, Marked, AckedItems
  <2>3. PICK n \in 0..imported : AckedItems = 1..n
    BY DEF RelayInv, PrefixInv
  <2>4. n \in 0..imported' /\ AckedItems' = 1..n
    BY <1>4, <2>1, <2>3 DEF RelayInv, TypeOK, AckedItems
  <2> QED BY <2>2, <2>4 DEF PrefixInv
<1>13. HomeDecides' /\ DownAckedMeansImported'
  BY <1>3 DEF RelayInv, HomeDecides, DownAckedMeansImported, Settles, Settled, ReportKinds, hostVars,
        dispatchRow, downVars
<1> QED BY <1>8, <1>9, <1>10, <1>11, <1>12, <1>13 DEF RelayInv
\* The coordinator turns the dispatch, or writes to its worker
LEMMA HomeTurns ==
  ASSUME RelayInv, SendDown \/ Stop \/ StopAnswered
  PROVE  RelayInv'
<1>1. /\ UNCHANGED <<hostVars, inbox, imported, dispatchRow, downAcked, sync, cached,
                     checkpoint, wire, bounds>>
      /\ home' \in ReportKinds \cup {"live", "stopping", "stopped"}
      /\ home' = home \/ home = "live" \/ home = "stopping"
  BY DEF SendDown, Stop, StopAnswered, downVars, rowVars, RelayInv, TypeOK
<1>2. downSent' \in 0..MaxDown
  BY DEF SendDown, Stop, StopAnswered, downVars, RelayInv, TypeOK
<1>3. TypeOK'
  BY <1>1, <1>2 DEF RelayInv, TypeOK, hostVars, dispatchRow, bounds
<1>4. QueueInv' /\ PrefixInv' /\ ReceiptsInv' /\ WatermarkIsAcked' /\ DownAckedMeansImported'
  BY <1>1 DEF RelayInv, QueueInv, PrefixInv, ReceiptsInv, WatermarkIsAcked,
              DownAckedMeansImported, AckedItems, Marked, hostVars, dispatchRow
<1>5. \A s \in SUBSET Settlement :
        Agrees(s) => \A t \in s : t.action # "rejected" => home' = t.action
  BY <1>1, VerdictStays DEF RelayInv, Agrees
<1>6. WireInv'
  BY <1>1, <1>5, RequestTypes DEF RelayInv, TypeOK, WireInv, Agrees
<1>7. SyncInv'
  <2>1. CASE sync.pc \in Busy
    <3>1. sync.settlements \in SUBSET Settlement
      BY <2>1, BusyType DEF RelayInv, BusySync
    <3> QED BY <1>1, <1>5, <2>1, <3>1
           DEF RelayInv, SyncInv, Agrees, Marked, AckedItems, Busy, hostVars
  <2>2. CASE sync.pc \notin Busy
    BY <1>1, <2>2 DEF SyncInv, Busy
  <2> QED BY <2>1, <2>2
<1>8. HomeDecides'
  <2>1. UNCHANGED <<attachment, protocol>>
    BY <1>1 DEF hostVars, dispatchRow
  <2>2. CASE home' = home
    BY <2>1, <2>2 DEF RelayInv, HomeDecides, Settles, Settled
  <2>3. CASE home \in {"live", "stopping"}
    <3>1. ~(Settles /\ Settled(attachment))
      BY <2>3 DEF RelayInv, HomeDecides, Settled, ReportKinds
    <3> QED BY <2>1, <3>1 DEF HomeDecides, Settles, Settled
  <2> QED BY <1>1, <2>2, <2>3
<1> QED BY <1>3, <1>4, <1>6, <1>7, <1>8 DEF RelayInv

-----------------------------------------------------------------------------
(* The execution host *)

\* What a step of the host may do to what the two sides know of each other
Grows ==
  /\ UNCHANGED <<rowVars, dispatchRow, downVars, cached, checkpoint, bounds>>
  /\ Len(queue) <= Len(queue') /\ AckedItems \subseteq AckedItems'
  /\ downImported <= downImported'

LEMMA HostMoves ==
  ASSUME RelayInv, Grows, supported' \in Supports,
         attachment' \in ReportKinds \cup {"ready", "stopped"}, HomeDecides',
         queue' \in Seq(Item), Len(queue') <= sent', sent' \in 0..MaxSent,
         \E n \in 0..imported : AckedItems' = 1..n,
         \A id \in DOMAIN receipts' : id \in 0..MaxSent /\ receipts'[id] \in AckRequest,
         ReceiptsInv',
         downImported' \in 0..MaxDown, epoch' \in 1..MaxEpoch, wire' \subseteq wire,
         sync' \in {Idle} \cup NextSync \cup BusySync, SyncInv'
  PROVE  RelayInv'
<1>1. /\ Len(queue) \in Nat /\ Len(queue') \in Nat /\ downImported \in Nat
      /\ downImported' \in Nat /\ imported \in Nat /\ sent' \in Nat
      /\ downAcked \in Nat
  BY QueueType, LenProperties DEF RelayInv, TypeOK
<1>2. UNCHANGED <<inbox, imported, home, protocol, homeAcked, homeEpoch, downSent,
                  downAcked, cached, checkpoint, faults, restarts>>
  BY DEF Grows, rowVars, dispatchRow, downVars, bounds
<1>3. TypeOK'
  <2>1. Len(queue') <= MaxSent
    BY <1>1
  <2>2. wire' \subseteq AckRequest \cup DownRequest
    BY DEF RelayInv, TypeOK
  <2> QED BY <1>2, <2>1, <2>2 DEF RelayInv, TypeOK
<1>4. QueueInv'
  BY <1>1, <1>2 DEF RelayInv, QueueInv, Grows
<1>5. PrefixInv'
  BY <1>2 DEF PrefixInv
<1>6. WireInv'
  BY DEF RelayInv, WireInv, Agrees, Grows, rowVars
<1>7. WatermarkIsAcked'
  BY DEF RelayInv, WatermarkIsAcked, Grows, dispatchRow
<1>8. DownAckedMeansImported'
  BY <1>1, <1>2 DEF RelayInv, DownAckedMeansImported, Grows
<1> QED BY <1>3, <1>4, <1>5, <1>6, <1>7, <1>8 DEF RelayInv

\* What a sync has seen and done stays true
LEMMA PageStays ==
  ASSUME RelayInv, Grows, queue' \in Seq(Item), sync.pc \in Busy
  PROVE  /\ sync.cursor <= imported' /\ sync.barrier <= imported'
         /\ \A t \in sync.settlements : t.action # "rejected" => home' = t.action
         /\ \A n \in DOMAIN sync.page : sync.page[n].seq <= Len(queue')
<1>1. sync \in BusySync /\ Len(queue) \in Nat /\ Len(queue') \in Nat
  BY BusyType, QueueType, LenProperties DEF RelayInv
<1>2. \A n \in DOMAIN sync.page : sync.page[n].seq \in Nat
  <2>1. \A n \in DOMAIN sync.page : sync.page[n] \in PageItem
    BY <1>1, ElementOfSeq, LenProperties DEF BusySync
  <2> QED BY <2>1 DEF PageItem
<1>3. \A n \in DOMAIN sync.page : sync.page[n].seq <= Len(queue')
  BY <1>1, <1>2 DEF RelayInv, SyncInv, Grows, Busy
<1> QED BY <1>3 DEF RelayInv, SyncInv, Agrees, Grows, Busy, rowVars

\* So does the answer it may have had
LEMMA SyncStays ==
  ASSUME RelayInv, Grows, queue' \in Seq(Item), downImported' \in 0..MaxDown, UNCHANGED sync
  PROVE  SyncInv'
<1>1. CASE sync.pc \in Busy
  <2>1. sync.answer = "ok" /\ sync.request.to = "import" =>
          sync.request.through <= downImported'
    <3>1. sync.request.to = "import" => sync.request.through \in Nat
      BY <1>1, BusyType, RequestTypes DEF RelayInv, BusySync
    <3>2. sync.answer = "ok" /\ sync.request.to = "import" =>
            sync.request.through <= downImported
      BY <1>1 DEF RelayInv, SyncInv, Busy
    <3>3. downImported \in Nat /\ downImported' \in Nat
      BY CountTypes
    <3>4. downImported <= downImported'
      BY DEF Grows
    <3> QED BY <3>1, <3>2, <3>3, <3>4
  <2>2. sync.answer = "ok" /\ sync.request.to = "ack" => Marked(sync.request.through)'
    BY <1>1 DEF RelayInv, SyncInv, Grows, Busy, Marked
  <2> QED BY <1>1, <2>1, <2>2, PageStays DEF SyncInv, Agrees
<1>2. CASE sync.pc \notin Busy
  BY <1>2 DEF SyncInv, Busy
<1> QED BY <1>1, <1>2

\* An answer that says no more than the host did
LEMMA AnsweredKeeps ==
  ASSUME RelayInv, Grows, queue' \in Seq(Item), downImported' \in 0..MaxDown,
         NEW q \in AckRequest \cup DownRequest, NEW answer \in {"ok", "refused"},
         Answered(q, answer),
         answer = "ok" /\ q.to = "ack" => 1..q.through \subseteq AckedItems',
         answer = "ok" /\ q.to = "import" => q.through <= downImported'
  PROVE  SyncInv' /\ sync' \in {Idle} \cup NextSync \cup BusySync
<1>1. CASE sync.pc = "waiting" /\ sync.request = q
  <2>1. sync.pc \in Busy /\ sync \in BusySync
    BY <1>1, BusyType DEF RelayInv, Busy
  <2>2. sync' = [sync EXCEPT !.pc = "answered", !.answer = answer]
    BY <1>1 DEF Answered
  <2>3. sync' \in BusySync
    BY <2>1, <2>2 DEF BusySync
  <2>4. /\ sync'.cursor = sync.cursor /\ sync'.barrier = sync.barrier
        /\ sync'.settlements = sync.settlements /\ sync'.page = sync.page
        /\ sync'.request = q /\ sync'.answer = answer
    BY <1>1, <2>1, <2>2 DEF BusySync
  <2> QED BY <2>1, <2>3, <2>4, PageStays DEF SyncInv, Agrees, Marked
<1>2. CASE ~(sync.pc = "waiting" /\ sync.request = q)
  BY <1>2, SyncStays DEF Answered, RelayInv, TypeOK
<1> QED BY <1>1, <1>2

LEMMA LeastIsIn ==
  ASSUME NEW S, S \subseteq Nat, S # {}
  PROVE  Least(S) \in S
<1>1. \E s \in S : \A t \in S : s <= t
  BY LeastExists
<1> QED BY <1>1, Zenon DEF Least

LEMMA SendKeeps ==
  ASSUME RelayInv, NEW k \in Kinds, Send(k)
  PROVE  RelayInv'
<1>1. /\ UNCHANGED <<receipts, downImported, epoch, supported, rowVars, dispatchRow,
                     downVars, sync, cached, checkpoint, wire, bounds>>
      /\ sent' = sent + 1 /\ sent < MaxSent /\ attachment = "ready"
      /\ attachment' \in ReportKinds \cup {"ready", "stopped"}
      /\ Settles => attachment' = attachment
  BY DEF Send, RelayInv, TypeOK
<1>2. NewItem(k) \in Item /\ ~NewItem(k).acked
  BY <1>1 DEF NewItem, Item, RelayInv, TypeOK
<1>3. /\ queue \in Seq(Item) /\ Len(queue) \in Nat /\ Len(queue) <= sent /\ sent \in 0..MaxSent
      /\ DOMAIN queue = 1..Len(queue)
  BY QueueType DEF RelayInv, TypeOK, QueueInv
<1>4. /\ queue' \in Seq(Item) /\ AckedItems' = AckedItems
      /\ Len(queue) <= Len(queue') /\ Len(queue') <= Len(queue) + 1
  <2>1. CASE queue' = Append(queue, NewItem(k))
    <3>1. /\ queue' \in Seq(Item) /\ Len(queue') = Len(queue) + 1
          /\ \A n \in 1..Len(queue) : queue'[n] = queue[n]
          /\ queue'[Len(queue) + 1] = NewItem(k)
      BY <1>2, <1>3, <2>1, AppendProperties
    <3>2. DOMAIN queue' = 1..(Len(queue) + 1)
      BY <3>1, LenProperties
    <3>3. ASSUME NEW n
          PROVE n \in AckedItems' <=> n \in AckedItems
      <4>1. n \in 1..(Len(queue) + 1) <=> n \in 1..Len(queue) \/ n = Len(queue) + 1
        BY <1>3
      <4>2. Len(queue) + 1 \notin 1..Len(queue)
        BY <1>3
      <4> QED BY <1>2, <1>3, <3>1, <3>2, <4>1, <4>2 DEF AckedItems
    <3>4. AckedItems' = AckedItems
      BY <3>3
    <3> QED BY <1>3, <3>1, <3>4
  <2>2. CASE /\ Heartbeats # {}
             /\ queue' = [queue EXCEPT ![Least(Heartbeats)] = NewItem(k)]
    <3> DEFINE h == Least(Heartbeats)
    <3>1. Heartbeats \subseteq 1..Len(queue)
      BY <1>3 DEF Heartbeats, Unacked
    <3>2. h \in Heartbeats
      <4>1. Heartbeats \subseteq Nat
        BY <1>3, <3>1
      <4> QED BY <2>2, <4>1, LeastIsIn
    <3>3. h \in DOMAIN queue /\ ~queue[h].acked
      BY <3>2 DEF Heartbeats, Unacked
    <3> HIDE DEF h
    <3>4. queue' = [queue EXCEPT ![h] = NewItem(k)]
      BY <2>2 DEF h
    <3>5. /\ queue' \in Seq(Item) /\ Len(queue') = Len(queue)
          /\ \A n \in 1..Len(queue) : queue'[n] = IF n = h THEN NewItem(k) ELSE queue[n]
      BY <1>2, <1>3, <3>3, <3>4, ExceptSeq
    <3>6. DOMAIN queue' = DOMAIN queue
      BY <3>4
    <3>7. AckedItems' = AckedItems
      BY <1>2, <1>3, <3>3, <3>5, <3>6 DEF AckedItems
    <3> QED BY <1>3, <3>5, <3>7
  <2> QED BY <2>1, <2>2 DEF Send
<1>5. Grows
  BY <1>1, <1>3, <1>4 DEF Grows, RelayInv, TypeOK
<1>6. HomeDecides'
  <2>1. UNCHANGED <<protocol, home>>
    BY <1>1 DEF dispatchRow, rowVars
  <2> QED BY <1>1, <2>1 DEF HomeDecides, Settles, Settled, ReportKinds
<1>7. SyncInv' /\ sync' \in {Idle} \cup NextSync \cup BusySync
  BY <1>1, <1>4, <1>5, SyncStays DEF RelayInv, TypeOK
<1>8. /\ \E n \in 0..imported : AckedItems' = 1..n
      /\ \A id \in DOMAIN receipts' : id \in 0..MaxSent /\ receipts'[id] \in AckRequest
      /\ ReceiptsInv'
  BY <1>1, <1>4 DEF RelayInv, TypeOK, PrefixInv, ReceiptsInv, Marked
<1>9. Len(queue') <= sent' /\ sent' \in 0..MaxSent
  <2>1. Len(queue') \in Nat
    BY <1>4, LenProperties
  <2> QED BY <1>1, <1>3, <1>4, <2>1
<1>10. /\ supported' \in Supports /\ downImported' \in 0..MaxDown
       /\ epoch' \in 1..MaxEpoch /\ wire' \subseteq wire
  BY <1>1 DEF RelayInv, TypeOK
<1> QED BY <1>1, <1>4, <1>5, <1>6, <1>7, <1>8, <1>9, <1>10, HostMoves

\* The host executes an acknowledgement for the first time
LEMMA AckTaken ==
  ASSUME RelayInv, NEW q \in wire, HandleAck(q),
         q.id \notin DOMAIN receipts, AckAllowed(q)
  PROVE  RelayInv'
<1>1. /\ UNCHANGED <<downImported, epoch, supported, sent, rowVars, dispatchRow, downVars,
                     cached, checkpoint, bounds>>
      /\ Answered(q, "ok") /\ wire' = wire \ {q}
      /\ receipts' = [id \in DOMAIN receipts \cup {q.id} |->
                        IF id = q.id THEN q ELSE receipts[id]]
      /\ queue' = [s \in DOMAIN queue |-> [queue[s] EXCEPT !.acked = @ \/ Marks(q, s)]]
      /\ attachment' = IF Outcomes(q) = {} THEN attachment
                       ELSE CHOOSE o \in Outcomes(q) : TRUE
  BY DEF HandleAck
<1>2. /\ q \in AckRequest /\ q.id \in 0..MaxSent /\ q.through \in 0..MaxSent
      /\ q.to = "ack" /\ q.settlements \subseteq Settlement
      /\ q.through <= imported /\ Agrees(q.settlements)
  BY RequestTypes DEF HandleAck, RelayInv, TypeOK, WireInv
<1>3. /\ queue \in [1..Len(queue) -> Item] /\ Len(queue) \in Nat
      /\ DOMAIN queue = 1..Len(queue)
      /\ imported \in 0..MaxSent /\ imported <= Len(queue) /\ Len(queue) <= sent
  BY QueueType DEF RelayInv, TypeOK, QueueInv
<1>4. /\ queue' \in Seq(Item) /\ Len(queue') = Len(queue)
      /\ \A s \in 1..Len(queue) : queue'[s].acked = (queue[s].acked \/ s <= q.through)
      /\ DOMAIN queue' = 1..Len(queue)
  <2>1. ASSUME NEW s \in 1..Len(queue)
        PROVE  /\ [queue[s] EXCEPT !.acked = @ \/ Marks(q, s)] \in Item
               /\ [queue[s] EXCEPT !.acked = @ \/ Marks(q, s)].acked
                    = (queue[s].acked \/ s <= q.through)
    <3>1. queue[s] \in Item
      BY <1>3
    <3>2. Marks(q, s) = (s <= q.through) /\ Marks(q, s) \in BOOLEAN
      BY DEF Marks
    <3> HIDE DEF Marks
    <3> QED BY <3>1, <3>2 DEF Item
  <2>2. queue' \in [1..Len(queue) -> Item]
    BY <1>1, <1>3, <2>1
  <2>3. queue' \in Seq(Item) /\ Len(queue') = Len(queue)
    BY <1>3, <2>2, FunctionIsSeq
  <2> QED BY <1>1, <1>3, <2>1, <2>3
<1>5. ASSUME NEW s
      PROVE  s \in AckedItems' <=> s \in AckedItems \/ s \in 1..q.through
  <2>1. s \in 1..q.through => s \in 1..Len(queue)
    BY <1>2, <1>3
  <2>2. s \in 1..Len(queue) => (s <= q.through <=> s \in 1..q.through)
    BY <1>2, <1>3
  <2> QED BY <1>3, <1>4, <2>1, <2>2 DEF AckedItems
<1>6. PICK n \in 0..imported : AckedItems = 1..n
  BY DEF RelayInv, PrefixInv
<1>7. \E m \in 0..imported : AckedItems' = 1..m
  <2>1. CASE n <= q.through
    <3>1. 1..n \subseteq 1..q.through
      BY <1>2, <1>3, <1>6, <2>1
    <3>2. AckedItems' = 1..q.through
      BY <1>5, <1>6, <3>1
    <3> QED BY <1>2, <1>3, <3>2
  <2>2. CASE q.through <= n
    <3>1. 1..q.through \subseteq 1..n
      BY <1>2, <1>3, <1>6, <2>2
    <3>2. AckedItems' = 1..n
      BY <1>5, <1>6, <3>1
    <3> QED BY <3>2
  <2> QED BY <1>2, <1>3, <1>6, <2>1, <2>2
<1>8. Grows
  <2>1. AckedItems \subseteq AckedItems'
    BY <1>5
  <2>2. Len(queue) <= Len(queue')
    BY <1>3, <1>4
  <2>3. downImported <= downImported'
    <3>1. downImported' = downImported /\ downImported \in 0..MaxDown
      BY <1>1 DEF RelayInv, TypeOK
    <3> QED BY <3>1
  <2>4. UNCHANGED <<rowVars, dispatchRow, downVars, cached, checkpoint, bounds>>
    BY <1>1
  <2> QED BY <2>1, <2>2, <2>3, <2>4 DEF Grows
<1>9. /\ \A id \in DOMAIN receipts' : id \in 0..MaxSent /\ receipts'[id] \in AckRequest
      /\ ReceiptsInv'
  <2>1. ASSUME NEW id \in DOMAIN receipts'
        PROVE  /\ id \in 0..MaxSent /\ receipts'[id] \in AckRequest
               /\ 1..receipts'[id].through \subseteq AckedItems'
    <3>1. CASE id = q.id
      BY <1>1, <1>2, <1>5, <2>1, <3>1
    <3>2. CASE id # q.id
      BY <1>1, <1>5, <2>1, <3>2 DEF RelayInv, TypeOK, ReceiptsInv, Marked
    <3> QED BY <3>1, <3>2
  <2> QED BY <2>1 DEF ReceiptsInv, Marked
<1>10. attachment' \in ReportKinds \cup {"ready", "stopped"} /\ HomeDecides'
  <2>1. UNCHANGED <<protocol, home>>
    BY <1>1 DEF dispatchRow, rowVars
  <2>2. CASE Outcomes(q) = {}
    BY <1>1, <2>1, <2>2 DEF RelayInv, TypeOK, HomeDecides, Settles, Settled
  <2>3. CASE Outcomes(q) # {}
    <3>1. attachment' \in Outcomes(q)
      BY <1>1, <2>3
    <3>2. PICK t \in q.settlements : attachment' = t.action /\ t.action # "rejected"
      BY <3>1 DEF Outcomes
    <3>3. t \in Settlement /\ home = t.action
      BY <1>2, <3>2 DEF Agrees
    <3> QED BY <2>1, <3>2, <3>3 DEF Settlement, HomeDecides
  <2> QED BY <2>2, <2>3
<1>11. SyncInv' /\ sync' \in {Idle} \cup NextSync \cup BusySync
  <2>1. 1..q.through \subseteq AckedItems'
    BY <1>5
  <2>2. downImported' \in 0..MaxDown
    BY <1>1 DEF RelayInv, TypeOK
  <2>3. q \in AckRequest \cup DownRequest /\ "ok" \in {"ok", "refused"} /\ q.to # "import"
    BY <1>2
  <2> QED BY <1>1, <1>4, <1>8, <2>1, <2>2, <2>3, AnsweredKeeps
<1>12. /\ Len(queue') <= sent' /\ sent' \in 0..MaxSent /\ supported' \in Supports
       /\ downImported' \in 0..MaxDown /\ epoch' \in 1..MaxEpoch /\ wire' \subseteq wire
  BY <1>1, <1>3, <1>4 DEF RelayInv, TypeOK
<1> QED BY <1>4, <1>7, <1>8, <1>9, <1>10, <1>11, <1>12, HostMoves

\* The steps of the host that leave its queue alone
LEMMA HostKeepsQueue ==
  ASSUME RelayInv,
         UNCHANGED <<queue, receipts, sent, rowVars, dispatchRow, downVars, cached,
                     checkpoint, bounds>>,
         attachment' = attachment \/ (attachment' = "stopped"),
         downImported' \in 0..MaxDown, downImported <= downImported',
         epoch' \in 1..MaxEpoch, supported' \in Supports, wire' \subseteq wire,
         sync' \in {Idle} \cup NextSync \cup BusySync, SyncInv'
  PROVE  RelayInv'
<1>1. Grows
  BY QueueType DEF Grows, AckedItems, RelayInv, TypeOK
<1>2. /\ \E n \in 0..imported : AckedItems' = 1..n
      /\ \A id \in DOMAIN receipts' : id \in 0..MaxSent /\ receipts'[id] \in AckRequest
      /\ ReceiptsInv'
  BY DEF RelayInv, TypeOK, PrefixInv, ReceiptsInv, Marked, AckedItems
<1>3. HomeDecides' /\ attachment' \in ReportKinds \cup {"ready", "stopped"}
  BY DEF RelayInv, TypeOK, HomeDecides, Settles, Settled, ReportKinds, dispatchRow, rowVars
<1> QED BY <1>1, <1>2, <1>3, HostMoves DEF RelayInv, TypeOK, QueueInv

LEMMA HandleAckKeeps ==
  ASSUME RelayInv, NEW q \in wire, HandleAck(q)
  PROVE  RelayInv'
<1> DEFINE answer == IF q.id \in DOMAIN receipts /\ SameRequest(q) THEN "ok" ELSE "refused"
<1>1. CASE q.id \in DOMAIN receipts \/ ~AckAllowed(q)
  <2>1. /\ UNCHANGED <<attachment, queue, receipts, downImported, epoch, supported, sent,
                       rowVars, dispatchRow, downVars, cached, checkpoint, bounds>>
        /\ Answered(q, answer) /\ wire' \subseteq wire /\ q.to = "ack"
    BY <1>1 DEF HandleAck
  <2>2. answer = "ok" => 1..q.through \subseteq AckedItems'
    BY <2>1 DEF RelayInv, ReceiptsInv, Marked, AckedItems, SameRequest
  <2>3. /\ Grows /\ q \in AckRequest \cup DownRequest /\ downImported' \in 0..MaxDown
        /\ queue' \in Seq(Item)
    BY <2>1, QueueType DEF Grows, AckedItems, RelayInv, TypeOK
  <2>4. SyncInv' /\ sync' \in {Idle} \cup NextSync \cup BusySync
    BY <2>1, <2>2, <2>3, AnsweredKeeps
  <2> QED BY <2>1, <2>4, HostKeepsQueue DEF RelayInv, TypeOK
<1>2. CASE q.id \notin DOMAIN receipts /\ AckAllowed(q)
  BY <1>2, AckTaken
<1> QED BY <1>1, <1>2

LEMMA HandleDownKeeps ==
  ASSUME RelayInv, NEW q \in wire, HandleDown(q)
  PROVE  RelayInv'
<1>1. /\ UNCHANGED <<attachment, queue, receipts, epoch, supported, sent, rowVars,
                     dispatchRow, downVars, cached, checkpoint, bounds>>
      /\ Answered(q, DownAnswer(q)) /\ wire' \subseteq wire /\ q.to = "import"
      /\ downImported' = IF TakesDown(q) THEN MaxOf(downImported, q.through)
                         ELSE downImported
  BY DEF HandleDown
<1>2. q \in DownRequest /\ q.through \in 1..MaxDown /\ downImported \in 0..MaxDown
  BY <1>1, RequestTypes DEF RelayInv, TypeOK
<1>3. /\ downImported' \in 0..MaxDown /\ downImported <= downImported'
      /\ TakesDown(q) => q.through <= downImported'
  BY <1>1, <1>2, MaxOfTwo
<1>4. DownAnswer(q) \in {"ok", "refused"} /\ (DownAnswer(q) = "ok" => TakesDown(q))
  BY DEF DownAnswer
<1>5. Grows /\ queue' \in Seq(Item)
  BY <1>1, <1>3, QueueType DEF Grows, AckedItems, RelayInv, TypeOK
<1>6. SyncInv' /\ sync' \in {Idle} \cup NextSync \cup BusySync
  BY <1>1, <1>2, <1>3, <1>4, <1>5, AnsweredKeeps
<1> QED BY <1>1, <1>3, <1>6, HostKeepsQueue DEF RelayInv, TypeOK

LEMMA HostTurns ==
  ASSUME RelayInv, StopArrives \/ HostRestart
  PROVE  RelayInv'
<1>1. /\ UNCHANGED <<queue, receipts, downImported, sent, rowVars, dispatchRow, downVars,
                     sync, cached, checkpoint, bounds>>
      /\ attachment' = attachment \/ attachment' = "stopped"
      /\ epoch' \in 1..MaxEpoch /\ supported' \in Supports /\ wire' \subseteq wire
  BY DEF StopArrives, HostRestart, RelayInv, TypeOK
<1>2. downImported' \in 0..MaxDown /\ downImported <= downImported'
  BY <1>1 DEF RelayInv, TypeOK
<1>3. Grows /\ queue' \in Seq(Item)
  BY <1>1, <1>2, QueueType DEF Grows, AckedItems, RelayInv, TypeOK
<1>4. SyncInv' /\ sync' \in {Idle} \cup NextSync \cup BusySync
  BY <1>1, <1>2, <1>3, SyncStays DEF RelayInv, TypeOK
<1> QED BY <1>1, <1>2, <1>4, HostKeepsQueue

-----------------------------------------------------------------------------
(* The theorems *)

LEMMA InitRelay ==
  ASSUME Init
  PROVE  RelayInv
<1>1. TypeOK
  <2>1. sync \in {Idle} \cup NextSync \cup BusySync
    BY DEF Init
  <2>2. /\ cached \in [epoch : 0..MaxEpoch, supported : BOOLEAN]
        /\ checkpoint \in [epoch : 0..MaxEpoch, through : 0..MaxSent]
    BY DEF Init, NoCapability, NoCheckpoint
  <2>3. queue \in Seq(Item) /\ inbox \in Seq([msg : 1..MaxSent, kind : AllKinds])
    BY EmptySeq DEF Init
  <2>4. Len(queue) = 0 /\ Len(inbox) = 0 /\ DOMAIN receipts = {}
    BY DEF Init
  <2> QED BY <2>1, <2>2, <2>3, <2>4 DEF Init, TypeOK
<1>2. QueueInv
  BY DEF Init, QueueInv
<1>3. AckedItems = 1..0
  BY DEF Init, AckedItems
<1>4. PrefixInv /\ ReceiptsInv /\ WireInv /\ WatermarkIsAcked
  BY <1>3 DEF Init, PrefixInv, ReceiptsInv, WireInv, WatermarkIsAcked
<1>5. SyncInv /\ HomeDecides /\ DownAckedMeansImported
  BY DEF Init, SyncInv, Idle, HomeDecides, Settled, ReportKinds, DownAckedMeansImported
<1> QED BY <1>1, <1>2, <1>4, <1>5 DEF RelayInv

LEMMA StutterKeeps ==
  ASSUME RelayInv, UNCHANGED vars
  PROVE  RelayInv'
<1>1. UNCHANGED <<queue, receipts, sent, rowVars, dispatchRow, downVars, cached,
                  checkpoint, bounds, attachment, downImported, epoch, supported, wire, sync>>
  BY DEF vars, hostVars
<1>2. Grows
  BY <1>1, QueueType DEF Grows, AckedItems, RelayInv, TypeOK
<1>3. SyncInv'
  BY <1>1, <1>2, SyncStays DEF RelayInv, TypeOK
<1> QED BY <1>1, <1>3, HostKeepsQueue DEF RelayInv, TypeOK

LEMMA NextRelay ==
  ASSUME RelayInv, [Next]_vars
  PROVE  RelayInv'
<1>1. CASE HomeStep
  BY <1>1, PullKeeps, ImportKeeps, SyncEnds, AcknowledgeKeeps, AckAnsweredKeeps,
     DownAnsweredKeeps DEF HomeStep
<1>2. CASE HostStep
  BY <1>2, HandleAckKeeps, HandleDownKeeps DEF HostStep
<1>3. CASE \E k \in Kinds : Send(k)
  BY <1>3, SendKeeps
<1>4. CASE SendDown \/ Stop \/ StopAnswered
  BY <1>4, HomeTurns
<1>5. CASE StopArrives \/ HostRestart
  BY <1>5, HostTurns
<1>6. CASE GiveUp \/ HomeRestart
  BY <1>6, SyncEnds
<1>7. CASE UNCHANGED vars
  BY <1>7, StutterKeeps
<1> QED BY <1>1, <1>2, <1>3, <1>4, <1>5, <1>6, <1>7 DEF Next

(* Pages, requests, receipts and answers claim no more than the two tables *)
(* of federation_relay_items hold, through every restart and fault.        *)
THEOREM RelayInvariance == Spec => []RelayInv
<1>1. Init => RelayInv
  BY InitRelay
<1>2. RelayInv /\ [Next]_vars => RelayInv'
  BY NextRelay
<1> QED BY <1>1, <1>2, PTL DEF Spec

(* Every row, request and sync keeps its type.                             *)
THEOREM RelayTypes == Spec => []TypeOK
<1>1. RelayInv => TypeOK
  BY DEF RelayInv
<1> QED BY <1>1, RelayInvariance, PTL

(* An item the host forgot is at home (federation-relay-ack.ts).           *)
THEOREM AckedIsImported == Spec => []AckedMeansImported
<1>1. RelayInv => AckedMeansImported
  <2> SUFFICES ASSUME RelayInv PROVE \A s \in AckedItems : s <= imported
    BY DEF AckedMeansImported
  <2>1. PICK n \in 0..imported : AckedItems = 1..n
    BY DEF RelayInv, PrefixInv
  <2>2. imported \in Nat
    BY DEF RelayInv, TypeOK
  <2> QED BY <2>1, <2>2
<1> QED BY <1>1, RelayInvariance, PTL

(* The home's watermark never passes what the host marked, whichever       *)
(* acknowledgements were lost, repeated or late (federation-sync.ts).      *)
THEOREM WatermarkHolds == Spec => []WatermarkIsAcked
<1>1. RelayInv => WatermarkIsAcked
  BY DEF RelayInv
<1> QED BY <1>1, RelayInvariance, PTL

(* At protocol 3 an attachment is settled only as the home settled the     *)
(* dispatch, whatever the coordinator does meanwhile.                      *)
THEOREM OnlyHomeDecides == Spec => []HomeDecides
<1>1. RelayInv => HomeDecides
  BY DEF RelayInv
<1> QED BY <1>1, RelayInvariance, PTL

(* Coordinator mail struck off is at the worker's server.                  *)
THEOREM DownAckedIsImported == Spec => []DownAckedMeansImported
<1>1. RelayInv => DownAckedMeansImported
  BY DEF RelayInv
<1> QED BY <1>1, RelayInvariance, PTL

-----------------------------------------------------------------------------
(* The ordered channel, when no report takes the place of a heartbeat *)

Queued == [s \in DOMAIN queue |-> Mail(queue[s])]

\* What a step of the relay is to the worker
ChannelStep == [Channel!Next]_(Channel!vars)

LEMMA MailIs ==
  ASSUME NEW a, NEW b
  PROVE  Mail(a) = Mail(b) <=> a.msg = b.msg /\ a.kind = b.kind
BY DEF Mail

LEMMA ChannelStates ==
  ASSUME RelayInv, ChannelInv
  PROVE  /\ Len(queue) \in Nat /\ DOMAIN queue = 1..Len(queue)
         /\ imported \in 0..MaxSent /\ imported <= Len(queue)
         /\ inbox \in Seq([msg : 1..MaxSent, kind : AllKinds]) /\ Len(inbox) = imported
         /\ DOMAIN inbox = 1..imported
         /\ Len(Queued) = Len(queue) /\ DOMAIN Queued = 1..Len(queue)
         /\ \A s \in 1..Len(queue) : Queued[s] = Mail(queue[s])
<1>1. Len(queue) \in Nat /\ DOMAIN queue = 1..Len(queue)
  BY QueueType DEF RelayInv
<1>2. /\ imported \in 0..MaxSent /\ imported <= Len(queue)
      /\ inbox \in Seq([msg : 1..MaxSent, kind : AllKinds]) /\ Len(inbox) = imported
  BY DEF RelayInv, TypeOK, QueueInv, ChannelInv
<1>3. DOMAIN inbox = 1..imported
  BY <1>2, LenProperties
<1>4. Queued \in [1..Len(queue) -> Range(Queued)]
  BY <1>1 DEF Queued, Range
<1>5. Len(Queued) = Len(queue)
  BY <1>1, <1>4, FunctionIsSeq
<1> QED BY <1>1, <1>2, <1>3, <1>5 DEF Queued

\* A step that leaves the mail of both sides alone opens or closes the channel, or nothing
LEMMA Toggles ==
  ASSUME UNCHANGED <<Queued, inbox>>
  PROVE  ChannelStep
<1>1. Eligible \in BOOLEAN /\ Eligible' \in BOOLEAN
  BY DEF Eligible
<1>2. CASE Eligible' = Eligible
  BY <1>2 DEF ChannelStep, Channel!vars, Queued
<1>3. CASE Eligible' # Eligible
  <2>1. Eligible' = ~Eligible
    BY <1>1, <1>3
  <2> QED BY <2>1 DEF ChannelStep, Channel!Next, Channel!OpenOrClose, Queued
<1> QED BY <1>2, <1>3

\* Nothing is queued or imported, and a page stays as it was pulled
LEMMA ChannelRests ==
  ASSUME RelayInv, ChannelInv, UNCHANGED <<inbox, imported, sent>>,
         DOMAIN queue' = DOMAIN queue,
         \A s \in DOMAIN queue : Mail(queue'[s]) = Mail(queue[s]),
         sync'.pc \in Busy => sync.pc \in Busy /\ sync'.page = sync.page
  PROVE  ChannelInv' /\ ChannelStep
<1>1. \A s \in DOMAIN queue : queue'[s].msg = queue[s].msg /\ queue'[s].kind = queue[s].kind
  BY MailIs
<1>2. \A n \in 1..imported : n \in DOMAIN queue
  BY ChannelStates
<1>3. /\ \A s \in DOMAIN queue' : queue'[s].msg <= sent' /\ queue'[s].kind \in Kinds
      /\ \A s, t \in DOMAIN queue' : queue'[s].msg = queue'[t].msg => s = t
  BY <1>1 DEF ChannelInv
<1>4. /\ Len(inbox') = imported'
      /\ \A n \in 1..imported' : inbox'[n] = Mail(queue'[n])
  BY <1>2 DEF ChannelInv
<1>5. ASSUME sync'.pc \in Busy, NEW n \in DOMAIN sync'.page
      PROVE  /\ sync'.page[n].seq \in DOMAIN queue'
             /\ Mail(sync'.page[n]) = Mail(queue'[sync'.page[n].seq])
  BY <1>5 DEF ChannelInv, Busy
<1>6. ChannelInv'
  BY <1>3, <1>4, <1>5 DEF ChannelInv, Busy
<1>7. UNCHANGED <<Queued, inbox>>
  BY DEF Queued
<1> QED BY <1>6, <1>7, Toggles

LEMMA EndsRest ==
  ASSUME RelayInv, ChannelInv,
         ImportFails \/ Refused \/ GiveUp \/ TimeOut \/ HomeRestart \/ DownAnswered
  PROVE  ChannelInv' /\ ChannelStep
<1>1. UNCHANGED <<queue, inbox, imported, sent>>
  BY DEF ImportFails, Refused, GiveUp, TimeOut, HomeRestart, DownAnswered, hostVars, rowVars
<1>2. sync'.pc \notin Busy
  BY DEF ImportFails, Refused, GiveUp, TimeOut, HomeRestart, DownAnswered, Continued,
         Finished, Idle, Busy
<1> QED BY <1>1, <1>2, ChannelRests

\* After an acknowledgement the sync waits with the page it has, or ends
LEMMA AcknowledgedRest ==
  ASSUME RelayInv, ChannelInv, Acknowledge \/ AckAnswered
  PROVE  ChannelInv' /\ ChannelStep
<1>1. sync.pc \in Busy /\ sync \in BusySync
  BY BusyType DEF Acknowledge, AckAnswered, Busy, RelayInv
<1>2. UNCHANGED <<queue, inbox, imported, sent>>
  BY DEF Acknowledge, AckAnswered, hostVars, rowVars
<1>3. ASSUME NEW q, Requested(q) PROVE sync'.page = sync.page
  BY <1>1, <1>3 DEF Requested, BusySync
<1>4. ASSUME NEW acked, NEW check, Continued(acked, check) PROVE sync'.pc \notin Busy
  BY <1>4 DEF Continued, Finished, Idle, Busy
<1>5. ASSUME NEW acked, NEW check, Proceed(acked, check)
      PROVE  sync'.pc \in Busy => sync'.page = sync.page
  BY <1>3, <1>4, <1>5 DEF Proceed
<1>6. sync'.pc \in Busy => sync'.page = sync.page
  <2>1. CASE Acknowledge
    BY <1>3, <1>5, <2>1 DEF Acknowledge
  <2>2. CASE AckAnswered
    BY <1>5, <2>2 DEF AckAnswered
  <2> QED BY <2>1, <2>2
<1> QED BY <1>1, <1>2, <1>6, ChannelRests

\* The host answers, restarts or stops; the coordinator stops or writes
LEMMA OthersRest ==
  ASSUME RelayInv, ChannelInv,
         \/ \E q \in wire : HandleAck(q) \/ HandleDown(q)
         \/ StopArrives \/ HostRestart \/ SendDown \/ Stop \/ StopAnswered
         \/ UNCHANGED vars
  PROVE  ChannelInv' /\ ChannelStep
<1>1. ASSUME NEW q, NEW answer, Answered(q, answer)
      PROVE  sync'.pc \in Busy => sync.pc \in Busy /\ sync'.page = sync.page
  <2>1. CASE sync.pc = "waiting" /\ sync.request = q
    <3>1. sync \in BusySync
      BY <2>1, BusyType DEF RelayInv, Busy
    <3> QED BY <1>1, <2>1, <3>1 DEF Answered, BusySync, Busy
  <2>2. CASE ~(sync.pc = "waiting" /\ sync.request = q)
    BY <1>1, <2>2 DEF Answered
  <2> QED BY <2>1, <2>2
<1>2. CASE \E q \in wire : HandleAck(q) \/ HandleDown(q)
  <2>1. PICK q \in wire : HandleAck(q) \/ HandleDown(q)
    BY <1>2
  <2>2. UNCHANGED <<inbox, imported, sent>>
    BY <2>1 DEF HandleAck, HandleDown, rowVars
  <2>3. sync'.pc \in Busy => sync.pc \in Busy /\ sync'.page = sync.page
    BY <1>1, <2>1 DEF HandleAck, HandleDown
  <2>4. /\ DOMAIN queue' = DOMAIN queue
        /\ \A s \in DOMAIN queue : Mail(queue'[s]) = Mail(queue[s])
    <3>1. CASE UNCHANGED queue
      BY <3>1
    <3>2. CASE queue' = [s \in DOMAIN queue |-> [queue[s] EXCEPT !.acked = @ \/ Marks(q, s)]]
      <4>1. \A s \in DOMAIN queue : queue[s] \in Item
        BY QueueType DEF RelayInv
      <4>2. ASSUME NEW s \in DOMAIN queue
            PROVE  queue'[s].msg = queue[s].msg /\ queue'[s].kind = queue[s].kind
        <5> HIDE DEF Marks
        <5> QED BY <3>2, <4>1 DEF Item
      <4> QED BY <3>2, <4>2, MailIs
    <3> QED BY <2>1, <3>1, <3>2 DEF HandleAck, HandleDown
  <2> QED BY <2>2, <2>3, <2>4, ChannelRests
<1>3. CASE StopArrives \/ HostRestart \/ SendDown \/ Stop \/ StopAnswered \/ UNCHANGED vars
  <2>1. UNCHANGED <<queue, inbox, imported, sent, sync>>
    BY <1>3 DEF StopArrives, HostRestart, SendDown, Stop, StopAnswered, vars, hostVars, rowVars
  <2> QED BY <2>1, ChannelRests
<1> QED BY <1>2, <1>3

\* A page is read from the queue as it is
LEMMA PullRests ==
  ASSUME RelayInv, ChannelInv, Pull
  PROVE  ChannelInv' /\ ChannelStep
<1> DEFINE first == IF ~Replays(cached') THEN imported + 1
                    ELSE IF Unacked = {} THEN Len(queue) + 1 ELSE Least(Unacked)
<1>1. sync'.page = Page(From(first)) /\ UNCHANGED <<queue, inbox, imported, sent>>
  BY DEF Pull, hostVars, rowVars
<1>2. first \in 1..(Len(queue) + 1)
  BY ChannelStates, UnackedRest
<1> HIDE DEF first
<1>3. \A n \in DOMAIN sync'.page :
        /\ sync'.page[n].seq \in DOMAIN queue
        /\ Mail(sync'.page[n]) = Mail(queue[sync'.page[n].seq])
  BY <1>1, <1>2, PageOf, ChannelStates DEF RelayInv
<1>4. ChannelInv'
  BY <1>1, <1>3 DEF ChannelInv
<1>5. UNCHANGED <<Queued, inbox>>
  BY <1>1 DEF Queued
<1> QED BY <1>4, <1>5, Toggles

\* An item imported once is the next of the queue; one imported before is known
LEMMA ImportDelivers ==
  ASSUME RelayInv, ChannelInv, Import
  PROVE  ChannelInv' /\ ChannelStep
<1> DEFINE i == Head(sync.page)
<1>1. sync.pc \in Busy /\ sync \in BusySync
  BY BusyType DEF Import, Busy, RelayInv
<1>2. /\ i \in PageItem /\ i.seq \in 1..Len(queue) /\ Mail(i) = Mail(queue[i.seq])
      /\ \A n \in DOMAIN Tail(sync.page) :
           /\ Tail(sync.page)[n].seq \in DOMAIN queue
           /\ Mail(Tail(sync.page)[n]) = Mail(queue[Tail(sync.page)[n].seq])
  <2>1. sync.page \in Seq(PageItem) /\ sync.page # << >>
    BY <1>1 DEF BusySync, Import
  <2>2. \A n \in DOMAIN sync.page :
          /\ sync.page[n].seq \in DOMAIN queue
          /\ Mail(sync.page[n]) = Mail(queue[sync.page[n].seq])
    BY <1>1 DEF ChannelInv, Busy
  <2>3. i = sync.page[1] /\ 1 \in DOMAIN sync.page
    BY <2>1, LenProperties, EmptySeq
  <2>4. /\ i \in PageItem
        /\ Tail(sync.page) \in Seq(PageItem)
        /\ Len(Tail(sync.page)) = Len(sync.page) - 1
        /\ \A n \in 1..Len(Tail(sync.page)) : Tail(sync.page)[n] = sync.page[n + 1]
    BY <2>1, HeadTailProperties
  <2>5. ASSUME NEW n \in DOMAIN Tail(sync.page)
        PROVE  n + 1 \in DOMAIN sync.page /\ Tail(sync.page)[n] = sync.page[n + 1]
    BY <2>1, <2>4, <2>5, LenProperties
  <2> HIDE DEF i
  <2> QED BY <2>2, <2>3, <2>4, <2>5, ChannelStates
<1>3. /\ UNCHANGED <<queue, sent, homeAcked>>
      /\ imported' = MaxOf(imported, i.seq)
      /\ inbox' = IF NewMail(i.msg) THEN Append(inbox, Mail(i)) ELSE inbox
      /\ Importable(i)
      /\ sync'.page = Tail(sync.page)
  BY <1>1 DEF Import, hostVars, dispatchRow, Mail, BusySync
<1> HIDE DEF i
<1>4. queue[i.seq].msg = i.msg
  BY <1>2, MailIs
<1>5. \A n \in 1..imported : inbox[n].msg = queue[n].msg
  <2>1. \A n \in 1..imported : inbox[n] = Mail(queue[n])
    BY DEF ChannelInv
  <2>2. \A x : Mail(x).msg = x.msg
    BY DEF Mail
  <2> QED BY <2>1, <2>2
<1>6. CASE i.seq <= imported
  <2>1. inbox' = inbox /\ imported' = imported
    BY <1>2, <1>3, <1>6, ChannelStates, MaxOfTwo DEF Importable, NewMail, MaxOf
  <2>2. ChannelInv'
    BY <1>2, <1>3, <2>1 DEF ChannelInv
  <2>3. UNCHANGED <<Queued, inbox>>
    BY <1>3, <2>1 DEF Queued
  <2> QED BY <2>2, <2>3, Toggles
<1>7. CASE i.seq > imported
  <2>1. i.seq = imported + 1 /\ imported' = imported + 1
    BY <1>2, <1>3, <1>7, ChannelStates DEF Importable, MaxOf
  <2>2. NewMail(i.msg)
    <3> SUFFICES ASSUME NEW n \in DOMAIN inbox, inbox[n].msg = i.msg PROVE FALSE
      BY DEF NewMail, Known
    <3>1. n \in 1..imported /\ n \in 1..Len(queue) /\ i.seq \in 1..Len(queue)
      BY <1>2, ChannelStates
    <3>2. queue[n].msg = queue[i.seq].msg
      BY <1>4, <1>5, <3>1
    <3>3. n = i.seq
      BY <3>1, <3>2, ChannelStates DEF ChannelInv
    <3> QED BY <2>1, <3>1, <3>3, ChannelStates
  <2>3. inbox' = Append(inbox, Mail(i)) /\ Mail(i) = Mail(queue[imported + 1])
    BY <1>2, <1>3, <2>1, <2>2
  <2>4. /\ Len(inbox') = imported'
        /\ \A n \in 1..imported' : inbox'[n] = Mail(queue[n])
    <3>1. Mail(i) \in [msg : 1..MaxSent, kind : AllKinds]
      BY <1>2 DEF Mail, PageItem
    <3>2. /\ Len(inbox') = imported + 1
          /\ \A n \in 1..imported : inbox'[n] = inbox[n]
          /\ inbox'[imported + 1] = Mail(i)
      BY <2>3, <3>1, ChannelStates, AppendProperties
    <3>3. \A n \in 1..(imported + 1) : n \in 1..imported \/ n = imported + 1
      BY ChannelStates
    <3> QED BY <2>1, <2>3, <3>2, <3>3 DEF ChannelInv
  <2>5. ChannelInv'
    BY <1>2, <1>3, <2>4 DEF ChannelInv
  <2>6. /\ Len(inbox) < Len(Queued)
        /\ inbox' = Append(inbox, Queued[Len(inbox) + 1])
        /\ UNCHANGED Queued /\ Eligible' \in BOOLEAN
    <3>1. imported + 1 \in 1..Len(queue)
      BY <1>2, <2>1
    <3>2. Eligible' \in BOOLEAN
      BY DEF Eligible
    <3> QED BY <1>3, <2>3, <3>1, <3>2, ChannelStates DEF Queued
  <2>7. ChannelStep
    BY <2>6 DEF ChannelStep, Channel!Next, Channel!Deliver, Queued
  <2> QED BY <2>5, <2>7
<1> QED BY <1>2, <1>6, <1>7, ChannelStates

\* Without replacements a quota that is full refuses the mail
LEMMA SendPuts ==
  ASSUME NoReplacement, RelayInv, ChannelInv, NEW k \in Kinds, Send(k)
  PROVE  ChannelInv' /\ ChannelStep
<1>1. /\ UNCHANGED <<inbox, imported, home, homeAcked, sync>>
      /\ sent' = sent + 1 /\ sent < MaxSent
  BY DEF Send, rowVars, dispatchRow
<1>2. /\ queue \in Seq(Item) /\ Len(queue) <= sent /\ sent \in 0..MaxSent
      /\ NewItem(k) \in Item
  BY <1>1 DEF RelayInv, TypeOK, QueueInv, NewItem, Item
<1>3. queue' = Append(queue, NewItem(k))
  <2> SUFFICES ASSUME Cardinality(Unacked) >= Quota, Heartbeats # {} PROVE FALSE
    BY DEF Send
  <2>1. CASE "heartbeat" \notin Kinds
    BY <2>1 DEF ChannelInv, Heartbeats, Unacked
  <2>2. CASE Quota >= MaxSent
    <3>1. Unacked \subseteq 1..Len(queue)
      BY ChannelStates DEF Unacked
    <3>2. IsFiniteSet(1..Len(queue)) /\ Cardinality(1..Len(queue)) = Len(queue)
      <4> DEFINE n == Len(queue)
      <4>1. n \in Nat
        BY ChannelStates
      <4> HIDE DEF n
      <4>2. IsFiniteSet(1..n) /\ Cardinality(1..n) = IF 1 > n THEN 0 ELSE n - 1 + 1
        BY <4>1, FS_Interval
      <4>3. IsFiniteSet(1..n) /\ Cardinality(1..n) = n
        BY <4>1, <4>2
      <4> QED BY <4>3 DEF n
    <3>3. /\ Cardinality(Unacked) <= Len(queue) /\ Cardinality(Unacked) \in Nat
      BY <3>1, <3>2, FS_Subset, FS_CardinalityType
    <3> QED BY <1>1, <1>2, <2>2, <3>3, ChannelStates
  <2> QED BY <2>1, <2>2 DEF NoReplacement
<1>4. /\ Len(queue') = Len(queue) + 1 /\ DOMAIN queue' = 1..(Len(queue) + 1)
      /\ \A s \in 1..Len(queue) : queue'[s] = queue[s]
      /\ queue'[Len(queue) + 1] = NewItem(k)
  <2>1. /\ queue' \in Seq(Item) /\ Len(queue') = Len(queue) + 1
        /\ \A s \in 1..Len(queue) : queue'[s] = queue[s]
        /\ queue'[Len(queue) + 1] = NewItem(k)
    BY <1>2, <1>3, AppendProperties
  <2> QED BY <2>1, LenProperties
<1>5. \A s \in 1..(Len(queue) + 1) : s \in 1..Len(queue) \/ s = Len(queue) + 1
  BY ChannelStates
<1>6. /\ \A s \in DOMAIN queue' : queue'[s].msg <= sent' /\ queue'[s].kind \in Kinds
      /\ \A s, t \in DOMAIN queue' : queue'[s].msg = queue'[t].msg => s = t
  <2>1. \A s \in 1..Len(queue) :
          queue[s].msg \in Nat /\ queue[s].msg <= sent /\ queue[s].kind \in Kinds
    <3>1. \A s \in 1..Len(queue) : queue[s] \in Item
      BY QueueType DEF RelayInv
    <3> QED BY <3>1, ChannelStates DEF ChannelInv, Item
  <2>2. NewItem(k).msg = sent + 1 /\ NewItem(k).kind = k
    BY DEF NewItem
  <2>3. \A s \in DOMAIN queue' : queue'[s].msg <= sent' /\ queue'[s].kind \in Kinds
    BY <1>1, <1>2, <1>4, <1>5, <2>1, <2>2
  <2>4. \A s, t \in 1..Len(queue) : queue[s].msg = queue[t].msg => s = t
    BY ChannelStates DEF ChannelInv
  <2>5. \A s \in 1..Len(queue) : queue[s].msg # sent + 1
    BY <1>2, <2>1
  <2> QED BY <1>4, <1>5, <2>2, <2>3, <2>4, <2>5
<1>7. ChannelInv'
  <2>1. \A n \in 1..imported : n \in 1..Len(queue)
    BY ChannelStates
  <2>2. /\ Len(inbox') = imported'
        /\ \A n \in 1..imported' : inbox'[n] = Mail(queue'[n])
    BY <1>1, <1>4, <2>1 DEF ChannelInv
  <2>3. ASSUME sync'.pc \in Busy, NEW n \in DOMAIN sync'.page
        PROVE  /\ sync'.page[n].seq \in DOMAIN queue'
               /\ Mail(sync'.page[n]) = Mail(queue'[sync'.page[n].seq])
    <3>1. /\ sync.page[n].seq \in DOMAIN queue
          /\ Mail(sync.page[n]) = Mail(queue[sync.page[n].seq])
      BY <1>1, <2>3 DEF ChannelInv, Busy
    <3> QED BY <1>1, <1>4, <3>1, ChannelStates
  <2> QED BY <1>6, <2>2, <2>3 DEF ChannelInv, Busy
<1>8. /\ Len(Queued') = Len(Queued) + 1
      /\ SubSeq(Queued', 1, Len(Queued)) = Queued
      /\ UNCHANGED <<inbox, Eligible>>
  <2>1. Queued' \in [1..(Len(queue) + 1) -> Range(Queued')]
    BY <1>4 DEF Queued, Range
  <2>2. Queued' \in Seq(Range(Queued')) /\ Len(Queued') = Len(queue) + 1
    <3>1. Len(queue) + 1 \in Nat
      BY ChannelStates
    <3> QED BY <2>1, <3>1, FunctionIsSeq
  <2>3. \A s \in 1..Len(queue) : Queued'[s] = Queued[s]
    BY <1>4, ChannelStates DEF Queued
  <2>4. Queued \in Seq(Range(Queued')) /\ Len(Queued) = Len(queue)
    <3>1. \A s \in 1..Len(queue) : Queued[s] \in Range(Queued')
      BY <2>3, <1>4, ChannelStates DEF Range, Queued
    <3>2. Queued \in [1..Len(queue) -> Range(Queued')]
      BY <3>1, ChannelStates DEF Queued
    <3> QED BY <3>2, ChannelStates, FunctionIsSeq
  <2>5. SubSeq(Queued', 1, Len(Queued)) = Queued
    <3> DEFINE n == Len(Queued)
    <3>1. n \in Nat /\ \A s \in 1..n : s \in 1..Len(Queued') /\ Queued'[s] \in Range(Queued')
      BY <2>2, <2>4, ChannelStates, ElementOfSeq
    <3>2. /\ SubSeq(Queued', 1, n) \in Seq(Range(Queued')) /\ Len(SubSeq(Queued', 1, n)) = n
          /\ \A s \in 1..n : SubSeq(Queued', 1, n)[s] = Queued'[s]
      BY <3>1, SubSeqProperties
    <3> QED BY <2>3, <2>4, <3>2, SeqEqual
  <2>6. UNCHANGED <<inbox, Eligible>>
    BY <1>1 DEF Eligible
  <2> QED BY <2>2, <2>4, <2>5, <2>6
<1>9. ChannelStep
  BY <1>8 DEF ChannelStep, Channel!Next, Channel!Put, Queued
<1> QED BY <1>7, <1>9

LEMMA InitChannel ==
  ASSUME Init
  PROVE  ChannelInv /\ Channel!Init
<1>1. /\ DOMAIN queue = {} /\ inbox = << >> /\ imported = 0 /\ Len(inbox) = 0
      /\ sync.pc \notin Busy
  BY DEF Init, Idle, Busy
<1>2. ChannelInv
  BY <1>1 DEF ChannelInv, Busy
<1>3. Queued = << >> /\ Eligible \in BOOLEAN
  BY <1>1 DEF Queued, Eligible
<1> QED BY <1>1, <1>2, <1>3 DEF Channel!Init, Queued

LEMMA NextChannel ==
  ASSUME NoReplacement, RelayInv, ChannelInv, [Next]_vars
  PROVE  ChannelInv' /\ ChannelStep
<1>1. CASE HomeStep
  BY <1>1, PullRests, ImportDelivers, EndsRest, AcknowledgedRest DEF HomeStep
<1>2. CASE HostStep
  BY <1>2, OthersRest DEF HostStep
<1>3. CASE \E k \in Kinds : Send(k)
  BY <1>3, SendPuts
<1>4. CASE GiveUp \/ HomeRestart
  BY <1>4, EndsRest
<1>5. CASE SendDown \/ Stop \/ StopArrives \/ StopAnswered \/ HostRestart \/ UNCHANGED vars
  BY <1>5, OthersRest
<1> QED BY <1>1, <1>2, <1>3, <1>4, <1>5 DEF Next

(* Without replacements the mail at home is the first part of the queue,   *)
(* in spite of pages that are old when they are imported, lost answers,    *)
(* replays and restarts of either server.                                  *)
THEOREM ChannelInvariance ==
  ASSUME NoReplacement
  PROVE  Spec => []ChannelInv
<1>1. Init => ChannelInv
  BY InitChannel
<1>2. RelayInv /\ ChannelInv /\ [Next]_vars => ChannelInv'
  BY NextChannel
<1> QED BY <1>1, <1>2, RelayInvariance, PTL DEF Spec

(* The relay implements the ordered channel, but for its liveness: what    *)
(* the worker queued is imported in its order, none lost, none twice.      *)
THEOREM RelayIsOrdered ==
  ASSUME NoReplacement
  PROVE  Spec => Channel!Safe
<1>1. Init => Channel!Init
  BY InitChannel
<1>2. RelayInv /\ ChannelInv /\ [Next]_vars => [Channel!Next]_(Channel!vars)
  BY NextChannel DEF ChannelStep
<1> QED BY <1>1, <1>2, RelayInvariance, ChannelInvariance, PTL DEF Spec, Channel!Safe

(* An item whose sequence was imported has its message at home, so that    *)
(* the import never takes it for a corruption.  RelayQuota.cfg shows the   *)
(* opposite once a report took the place of a heartbeat.                   *)
THEOREM ImportedHasItsMessage ==
  ASSUME NoReplacement
  PROVE  Spec => []CommittedWithItsMessage
<1>1. RelayInv /\ ChannelInv => CommittedWithItsMessage
  <2> SUFFICES ASSUME RelayInv, ChannelInv, NEW s \in DOMAIN queue, s <= imported
               PROVE  \E n \in DOMAIN inbox : inbox[n].msg = queue[s].msg
    BY DEF CommittedWithItsMessage, Known
  <2>1. s \in 1..imported /\ s \in DOMAIN inbox
    BY ChannelStates
  <2>2. inbox[s] = Mail(queue[s])
    BY <2>1 DEF ChannelInv
  <2> QED BY <2>1, <2>2 DEF Mail
<1> QED BY <1>1, RelayInvariance, ChannelInvariance, PTL
=============================================================================
