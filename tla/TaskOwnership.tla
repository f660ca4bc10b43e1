--------------------------- MODULE TaskOwnership ---------------------------
(***************************************************************************)
(* What the orchestration database promises about the ownership of tasks,  *)
(* without saying how: a task is held through numbered leases, a lease is  *)
(* granted only on a free and unfinished task, its number was never used   *)
(* before, and a lease that was given up never comes back.  No step moves  *)
(* two tasks.                                                              *)
(***************************************************************************)
EXTENDS Naturals

CONSTANTS Task, MaxDispatches

VARIABLES
  issued,    \* leases granted so far
  holder,    \* [Task -> set of the leases that hold the task]
  finished   \* tasks recorded as completed

vars == <<issued, holder, finished>>

Init ==
  /\ issued = 0
  /\ holder = [t \in Task |-> {}]
  /\ finished = {}

\* A task is claimed under a new lease
Acquire(t) ==
  /\ issued < MaxDispatches
  /\ holder[t] = {} /\ t \notin finished
  /\ issued' = issued + 1
  /\ holder' = [holder EXCEPT ![t] = {issued + 1}]
  /\ UNCHANGED finished

\* The lease ends, and the task with it or not
Release(t) ==
  /\ holder[t] # {}
  /\ holder' = [holder EXCEPT ![t] = {}]
  /\ finished' \in {finished, finished \cup {t}}
  /\ UNCHANGED issued

\* A free task is completed by its record (operator, late report) or reopened by an operator
Record(t) ==
  /\ holder[t] = {}
  /\ finished' \in {finished \cup {t}, finished \ {t}}
  /\ UNCHANGED <<issued, holder>>

Next == \E t \in Task : Acquire(t) \/ Release(t) \/ Record(t)

Spec == Init /\ [][Next]_vars
=============================================================================
