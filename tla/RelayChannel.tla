---------------------------- MODULE RelayChannel ----------------------------
(***************************************************************************)
(* What the relay of a federated dispatch promises the worker: an ordered  *)
(* channel to the Run home without loss or repetition, live while it is    *)
(* open.                                                                   *)
(***************************************************************************)
EXTENDS Naturals, Sequences

VARIABLES
  sent,       \* what the worker queued
  delivered,  \* what the Run home imported
  open        \* the Run home syncs the dispatch

vars == <<sent, delivered, open>>

Init == sent = << >> /\ delivered = << >> /\ open \in BOOLEAN

Put ==
  /\ Len(sent') = Len(sent) + 1
  /\ SubSeq(sent', 1, Len(sent)) = sent
  /\ UNCHANGED <<delivered, open>>

Deliver ==
  /\ Len(delivered) < Len(sent)
  /\ delivered' = Append(delivered, sent[Len(delivered) + 1])
  /\ open' \in BOOLEAN
  /\ UNCHANGED sent

OpenOrClose == open' = ~open /\ UNCHANGED <<sent, delivered>>

Next == Put \/ Deliver \/ OpenOrClose

\* Mail in its order, none lost, none twice
Safe == Init /\ [][Next]_vars

Spec == Safe /\ WF_vars(open /\ Deliver)
=============================================================================
