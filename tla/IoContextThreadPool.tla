-------------------------- MODULE IoContextThreadPool --------------------------
(***************************************************************************)
(* EventLoop::IOContextThreadPool: its constructor, the busy loop of each   *)
(* worker, EnqueueJob from outside and from within a job, and the           *)
(* destructor.                                                              *)
(*                                                                          *)
(* A step is one access to state the threads share: the flag, the           *)
(* concurrent queue, or a join.  The workers read _ClearFlag, a plain bool, *)
(* while the destructor writes it; the queue's own atomics between two      *)
(* reads keep the compiler from reading it once for all, so a read sees     *)
(* what was written.  _TriggerEvent is set and never waited on: the workers *)
(* poll.  An exception in a job, or a thread that cannot be created while   *)
(* others run, ends the process.                                            *)
(***************************************************************************)
EXTENDS Integers, Sequences, Functions

CONSTANTS WorkerCount,  \* the constructor's argument
          Jobs,         \* each is handed in once at most, which bounds the model
          NULL

ASSUME WorkerCountAssumption == WorkerCount \in Nat
ASSUME NullAssumption == NULL \notin Jobs

Workers == 1..WorkerCount

VARIABLES
    phase,           \* what the owner does with the pool
    index,           \* the loop counter of the constructor and the destructor
    ClearFlag, shouldContinue, Queue,
    worker,          \* where in InnerWork each thread is
    Functor,         \* its local: the last job popped, also after it has run
    pushed, taken, dropped,  \* history: jobs in the order they passed the queue
    started,         \* history: jobs in the order their calls began
    late,            \* history: jobs a thread started after ClearFlag
    terminated       \* the process has ended in std::terminate

poolVars == <<phase, index, ClearFlag>>
jobVars == <<shouldContinue, Queue, pushed, taken, started, dropped, late>>
threadVars == <<worker, Functor>>
vars == <<poolVars, jobVars, threadVars, terminated>>

Init == /\ phase = "constructing" /\ index = 1
        /\ ClearFlag = FALSE /\ shouldContinue = FALSE
        /\ Queue = <<>>
        /\ worker = [w \in Workers |-> "none"]
        /\ Functor = [w \in Workers |-> NULL]
        /\ pushed = <<>> /\ taken = <<>> /\ dropped = <<>> /\ started = <<>>
        /\ late = [w \in Workers |-> 0]
        /\ terminated = FALSE

Goes(w, where) == worker' = [worker EXCEPT ![w] = where]

Terminate == terminated' = TRUE /\ UNCHANGED <<poolVars, jobVars, threadVars>>

-------------------------------------------------------------------------------
(* The owner.                                                                 *)

\* (Mutant: the loop bound of IocpContextImpl::Start.)
CreateThreadOneMore == /\ phase = "constructing" /\ index <= WorkerCount + 1
                       /\ Goes(index, "flag")
                       /\ index' = index + 1
                       /\ UNCHANGED <<phase, ClearFlag, jobVars, Functor, terminated>>

CreateThread == /\ phase = "constructing" /\ index <= WorkerCount
                /\ Goes(index, "flag")
                /\ index' = index + 1
                /\ UNCHANGED <<phase, ClearFlag, jobVars, Functor, terminated>>

\* std::thread throws; the threads created before it are destroyed unjoined.
CreateThreadFails == /\ phase = "constructing" /\ index <= WorkerCount
                     /\ \/ index > 1 /\ Terminate
                        \/ /\ index = 1
                           /\ phase' = "destroyed"
                           /\ UNCHANGED <<index, ClearFlag, jobVars, threadVars, terminated>>

Constructed == /\ phase = "constructing" /\ index > WorkerCount
               /\ phase' = "open"
               /\ UNCHANGED <<index, ClearFlag, jobVars, threadVars, terminated>>

\* (Mutant: the flag not raised.)
ClearPoolSilently == /\ phase = "open"
                     /\ phase' = "joining" /\ index' = 1
                     /\ shouldContinue' = TRUE
                     /\ UNCHANGED <<ClearFlag, Queue, pushed, taken, started, dropped, late,
                                    threadVars, terminated>>

ClearPool == /\ phase = "open"
             /\ phase' = "joining" /\ index' = 1
             /\ ClearFlag' = TRUE
             /\ shouldContinue' = TRUE
             /\ UNCHANGED <<Queue, pushed, taken, started, dropped, late, threadVars,
                            terminated>>

\* (Mutant: the last thread not joined.)
JoinButLast == /\ phase = "joining" /\ index <= WorkerCount
               /\ worker[index] = "returned" \/ index = WorkerCount
               /\ index' = index + 1
               /\ UNCHANGED <<phase, ClearFlag, jobVars, threadVars, terminated>>

Join == /\ phase = "joining" /\ index <= WorkerCount
        /\ worker[index] = "returned"
        /\ index' = index + 1
        /\ UNCHANGED <<phase, ClearFlag, jobVars, threadVars, terminated>>

\* The members go; jobs still in the queue are never run.
Destroyed == /\ phase = "joining" /\ index > WorkerCount
             /\ phase' = "destroyed"
             /\ dropped' = Queue /\ Queue' = <<>>
             /\ UNCHANGED <<index, ClearFlag, shouldContinue, pushed, taken, started, late,
                            threadVars, terminated>>

-------------------------------------------------------------------------------
\* A push, then _TriggerEvent.Set(), which nobody looks at.
Push(j) == /\ \A i \in 1..Len(pushed) : pushed[i] # j
           /\ Queue' = Append(Queue, j) /\ pushed' = Append(pushed, j)
           /\ shouldContinue' = TRUE
           /\ UNCHANGED <<poolVars, taken, started, dropped, late, threadVars, terminated>>

\* The owner keeps the pool as long as its loop may call it; a job may call it
\* until it has returned, a pool being destroyed included.
EnqueueJob(j) == phase = "open" /\ Push(j)
JobEnqueues(w, j) == worker[w] = "run" /\ Push(j)

-------------------------------------------------------------------------------
(* InnerWork.                                                                 *)

\* (Mutant: the flag not looked at while there is work.)
TestFlagWhenEmpty(w) ==
    /\ worker[w] = "flag"
    /\ Goes(w, IF ClearFlag /\ Queue = <<>> THEN "returned" ELSE "empty")
    /\ UNCHANGED <<poolVars, jobVars, Functor, terminated>>

TestFlag(w) == /\ worker[w] = "flag"
               /\ Goes(w, IF ClearFlag THEN "returned" ELSE "empty")
               /\ UNCHANGED <<poolVars, jobVars, Functor, terminated>>

\* (Mutant: the last job never seen.)
TestEmptyButLast(w) == /\ worker[w] = "empty"
                       /\ Goes(w, IF Len(Queue) <= 1 THEN "flag" ELSE "pop")
                       /\ UNCHANGED <<poolVars, jobVars, Functor, terminated>>

TestEmpty(w) == /\ worker[w] = "empty"
                /\ Goes(w, IF Queue = <<>> THEN "flag" ELSE "pop")
                /\ UNCHANGED <<poolVars, jobVars, Functor, terminated>>

\* Another worker has been faster.
\* (Mutant: what try_pop answers not looked at.)
PopFailsUnseen(w) == /\ Queue = <<>> /\ Functor[w] # NULL
                     /\ Goes(w, "call")
                     /\ UNCHANGED <<poolVars, jobVars, Functor, terminated>>

PopFails(w) == /\ Queue = <<>>
               /\ Goes(w, "flag")
               /\ UNCHANGED <<poolVars, jobVars, Functor, terminated>>

PopSucceeds(w) == /\ Queue # <<>>
                  /\ Queue' = Tail(Queue) /\ taken' = Append(taken, Head(Queue))
                  /\ Functor' = [Functor EXCEPT ![w] = Head(Queue)]
                  /\ Goes(w, "call")
                  /\ UNCHANGED <<poolVars, shouldContinue, pushed, started, dropped, late,
                                 terminated>>

TryPop(w) == worker[w] = "pop" /\ (PopFails(w) \/ PopSucceeds(w))

\* Functor() begins.  Meanwhile other workers may have taken and begun later jobs.
Call(w) == /\ worker[w] = "call"
           /\ Goes(w, "run")
           /\ started' = Append(started, Functor[w])
           /\ late' = [late EXCEPT ![w] = IF ClearFlag THEN @ + 1 ELSE @]
           /\ UNCHANGED <<poolVars, shouldContinue, Queue, pushed, taken, dropped, Functor,
                          terminated>>

JobReturns(w) == /\ worker[w] = "run"
                 /\ Goes(w, "flag")
                 /\ UNCHANGED <<poolVars, jobVars, Functor, terminated>>

JobThrows(w) == worker[w] = "run" /\ Terminate

-------------------------------------------------------------------------------
Owner == CreateThread \/ Constructed \/ Join \/ Destroyed
Work(w) == TestFlag(w) \/ TestEmpty(w) \/ TryPop(w) \/ Call(w) \/ JobReturns(w)

Next == /\ ~terminated
        /\ \/ Owner \/ CreateThreadFails \/ ClearPool
           \/ \E j \in Jobs : EnqueueJob(j)
           \/ \E w \in Workers : Work(w) \/ JobThrows(w) \/ \E j \in Jobs : JobEnqueues(w, j)

Spec == Init /\ [][Next]_vars

\* Threads run, and every job comes to its end: the jobs of EpollContextImpl are
\* straight-line code.  Nobody has to hand in a job or to destroy the pool.
FairSpec == /\ Spec
            /\ WF_vars(~terminated /\ Owner)
            /\ \A w \in Workers : WF_vars(~terminated /\ Work(w))

-------------------------------------------------------------------------------
TypeOK == /\ phase \in {"constructing", "open", "joining", "destroyed"}
          /\ index \in 1..(WorkerCount + 1)
          /\ ClearFlag \in BOOLEAN /\ shouldContinue \in BOOLEAN
          /\ Queue \in Seq(Jobs)
          /\ worker \in [Workers -> {"none", "flag", "empty", "pop", "call", "run", "returned"}]
          /\ Functor \in [Workers -> Jobs \cup {NULL}]
          /\ \A w \in Workers : worker[w] = "call" => Functor[w] # NULL
          /\ pushed \in Seq(Jobs) /\ taken \in Seq(Jobs)
          /\ started \in Seq(Jobs) /\ dropped \in Seq(Jobs)
          /\ late \in [Workers -> Nat]
          /\ terminated \in BOOLEAN

\* The jobs popped and not yet begun.
InHand == {Functor[w] : w \in {v \in Workers : worker[v] = "call"}}

\* Jobs leave the queue in the order they were handed in, to a worker or, with
\* the pool, to nobody; a job taken is begun once, by one worker, unless it is
\* still in hand.  None is lost or run twice, although `empty' and `try_pop'
\* are two steps and Functor outlives its job.  Nothing is said of the order in
\* which the workers begin what they have taken.
JobsAccounted ==
    /\ pushed = taken \o Queue \o dropped
    /\ Range(taken) = Range(started) \cup InHand
    /\ Range(started) \cap InHand = {} /\ IsInjective(started)
    /\ \A v, w \in Workers :
          worker[v] = "call" /\ worker[w] = "call" /\ Functor[v] = Functor[w] => v = w

\* Destroying the pool stops the work: a worker starts at most the one job it
\* had already passed the flag for.
OneLateJob == \A w \in Workers : late[w] <= 1

\* When the members are gone no thread is left that could touch them.
NobodyInside == phase = "destroyed" => \A w \in Workers : worker[w] \in {"none", "returned"}

\* The destructor comes to its end, also with jobs in the queue.
DestructorReturns == phase = "joining" ~> phase = "destroyed" \/ terminated

\* The pool is a job service that closes when it is gone.
Service == INSTANCE JobService WITH
    pending <- IF terminated THEN <<>> ELSE Queue,
    hand <- IF terminated THEN {} ELSE InHand,
    closed <- phase = "destroyed" \/ terminated
ImplementsService == Service!Spec
===============================================================================
