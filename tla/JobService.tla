------------------------------ MODULE JobService ------------------------------
(***************************************************************************)
(* What the contexts expect of EventLoop::IOContextThreadPool: jobs are     *)
(* taken in the order they were handed in, and each job taken is begun      *)
(* once.  Jobs that were taken together begin in any order.  Closing drops  *)
(* the jobs not taken; a crash also drops those in hand.                    *)
(***************************************************************************)
EXTENDS Sequences

CONSTANT Jobs

VARIABLES pending,  \* handed in and not taken
          hand,     \* taken and not begun
          started,  \* begun, in that order
          closed

vars == <<pending, hand, started, closed>>

Init == pending = <<>> /\ hand = {} /\ started = <<>> /\ closed = FALSE

Submit(j) == /\ ~closed
             /\ pending' = Append(pending, j)
             /\ UNCHANGED <<hand, started, closed>>

Take == /\ ~closed /\ pending # <<>>
        /\ pending' = Tail(pending)
        /\ hand' = hand \cup {Head(pending)}
        /\ UNCHANGED <<started, closed>>

Start(j) == /\ ~closed /\ j \in hand
            /\ hand' = hand \ {j}
            /\ started' = Append(started, j)
            /\ UNCHANGED <<pending, closed>>

Close == /\ ~closed /\ hand = {}
         /\ closed' = TRUE /\ pending' = <<>>
         /\ UNCHANGED <<hand, started>>

Crash == /\ ~closed
         /\ closed' = TRUE /\ pending' = <<>> /\ hand' = {}
         /\ UNCHANGED started

Next == Take \/ Close \/ Crash \/ \E j \in Jobs : Submit(j) \/ Start(j)

SafeSpec == Init /\ [][Next]_vars

\* As long as it is open it goes on taking jobs, and begins each it has taken.
Spec == SafeSpec /\ WF_vars(Take) /\ \A j \in Jobs : WF_vars(Start(j))
===============================================================================
