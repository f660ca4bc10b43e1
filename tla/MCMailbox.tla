----------------------------- MODULE MCMailbox -----------------------------
(***************************************************************************)
(* Small instances of Mailbox for TLC.                                     *)
(***************************************************************************)
EXTENDS Mailbox, TLC

CONSTANTS c1, c2, p1, p2, p3

Symmetry == Permutations(Calls) \cup Permutations(Panes)
=============================================================================
