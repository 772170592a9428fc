------------------------------ MODULE JobQueue ------------------------------
(***************************************************************************)
(* What the engine promises about its promise jobs, without promises: a    *)
(* first-in first-out queue whose jobs run one at a time, each to          *)
(* completion, and are never lost, duplicated, or reordered.  The only     *)
(* exception is an abort by the host's interrupt handler, which empties    *)
(* the queue while a job is running.                                       *)
(***************************************************************************)
EXTENDS Naturals, Sequences

CONSTANT Job    \* the jobs; what a job does is not this module's concern

VARIABLES pending,  \* jobs submitted and not started, oldest first
          running   \* TRUE while a job's handler is on the native stack

vars == <<pending, running>>

TypeOK ==
    /\ pending \in Seq(Job)
    /\ running \in BOOLEAN

Init ==
    /\ pending = <<>>
    /\ running = FALSE

(* Jobs join the queue only at its end.                                    *)
Grows ==
    /\ Len(pending') >= Len(pending)
    /\ \A k \in 1..Len(pending) : pending'[k] = pending[k]

(* A job, script or the host settles a promise, which may have had several *)
(* reactions, so several jobs may join at once.                            *)
Submit ==
    /\ Grows
    /\ UNCHANGED running

(* The oldest job starts, and only when no other job is running.           *)
Start ==
    /\ ~running
    /\ pending # <<>>
    /\ pending' = Tail(pending)
    /\ running' = TRUE

(* A job ends; ending it may submit the jobs of the promise it settles.    *)
Finish ==
    /\ running
    /\ Grows
    /\ running' = FALSE

(* An interrupt ends the running job and drops every job behind it.        *)
Abort ==
    /\ running
    /\ pending' = <<>>
    /\ running' = FALSE

Next == Submit \/ Start \/ Finish \/ Abort

Spec == Init /\ [][Next]_vars

=============================================================================
