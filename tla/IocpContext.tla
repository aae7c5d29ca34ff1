------------------------------ MODULE IocpContext ------------------------------
(***************************************************************************)
(* EventLoop::IocpContextImpl on its thread pool: the jobs that serve the   *)
(* completion port, Start, Stop, and a destructor that does not stop.       *)
(*                                                                          *)
(* Every socket is associated with the port under the null key, and so is   *)
(* every packet of PostQueue: a worker throws away whatever it dequeues,    *)
(* and no handler of a descriptor is ever called.  Packets are counted.     *)
(* The flag and its accessor outlive the destructor's body, as IRunnable's  *)
(* destructor is trivial and the pool is joined before the memory is freed. *)
(* _Stop is not initialised.  One context and one Start: a second context   *)
(* would share the static lambda, and with it the first one's port.         *)
(***************************************************************************)
EXTENDS IoContextThreadPool, FiniteSets

CONSTANTS Runs,            \* the copies of WorkerRun that Start enqueues
          MaxCompletions   \* bound on the operations that complete

ASSUME RunsAssumption == Runs \subseteq Jobs /\ IsFiniteSet(Runs)
                            /\ Cardinality(Runs) = WorkerCount + 1
ASSUME MaxCompletionsAssumption == MaxCompletions \in Nat

VARIABLES context,     \* how far the owner of the context has come
          stop,        \* IocpContextImpl::_Stop
          loop,        \* where in WorkerRun each thread is
          packets,     \* kernel: the packets in the port
          completions  \* operations that have completed

contextVars == <<context, stop, loop, packets, completions>>
allVars == <<vars, contextVars>>

Dispatches == Jobs \ Runs

ContextInit == /\ Init
               /\ context = "constructing"
               /\ stop \in BOOLEAN
               /\ loop = [w \in Workers |-> "out"]
               /\ packets = 0 /\ completions = 0

Turns(w, where) == loop' = [loop EXCEPT ![w] = where]

-------------------------------------------------------------------------------
(* The owner.                                                                 *)

\* The base has made the pool; the constructor throws if there is no port.
Construct == /\ phase = "open" /\ context = "constructing"
             /\ context' \in {"ready", "failed"}
             /\ UNCHANGED <<vars, stop, loop, packets, completions>>

\* Jobs of a kind are alike, so the order in which they are handed in is fixed.
Left(S) == {j \in S : \A i \in 1..Len(pushed) : pushed[i] # j}
EnqueueOne(S) == Left(S) # {} /\ EnqueueJob(CHOOSE j \in Left(S) : TRUE)

StartBegins == /\ context = "ready" /\ Left(Runs) = Runs
               /\ context' = "starting"
               /\ UNCHANGED <<vars, stop, loop, packets, completions>>

\* One more than there are workers.
StartEnqueues == /\ context = "starting" /\ EnqueueOne(Runs)
                 /\ UNCHANGED contextVars

StartEnds == /\ context = "starting" /\ Left(Runs) = {}
             /\ context' = "ready"
             /\ UNCHANGED <<vars, stop, loop, packets, completions>>

StopContext == /\ context \in {"ready", "starting"}
               /\ stop' = TRUE
               /\ UNCHANGED <<vars, context, loop, packets, completions>>

PostQueue(n) == packets' = packets + n

\* (Mutant: one packet, as if a single thread served the port.)
DestroyPostingOne == /\ context = "ready"
                     /\ context' = "destroying"
                     /\ PostQueue(1)
                     /\ UNCHANGED <<vars, stop, loop, completions>>

\* ~IocpContextImpl posts a null packet for each worker, and one more.
Destroy == /\ context = "ready"
           /\ context' = "destroying"
           /\ PostQueue(WorkerCount + 1)
           /\ UNCHANGED <<vars, stop, loop, completions>>

\* The base's destructor: the pool goes.
DestroyPool == /\ context \in {"destroying", "failed"}
               /\ ClearPool
               /\ UNCHANGED contextVars

Dispatch == /\ context \in {"ready", "starting"} /\ EnqueueOne(Dispatches)
            /\ UNCHANGED contextVars

-------------------------------------------------------------------------------
(* WorkerRun, and the jobs that are not it.                                   *)

\* A job begins; WorkerRun begins with its test.
Begins(w) == /\ Call(w)
             /\ Turns(w, IF Functor[w] \in Runs THEN "test" ELSE "out")
             /\ UNCHANGED <<context, stop, packets, completions>>

TestStop(w) == /\ loop[w] = "test"
               /\ \/ ~stop /\ Turns(w, "wait") /\ UNCHANGED vars
                  \/ stop /\ Turns(w, "out") /\ JobReturns(w)
               /\ UNCHANGED <<context, stop, packets, completions>>

\* GetQueuedCompletionStatus brings a packet, which carries no descriptor.
Dequeue(w) == /\ loop[w] = "wait" /\ packets > 0
              /\ packets' = packets - 1
              /\ Turns(w, "test")
              /\ UNCHANGED <<vars, context, stop, completions>>

\* (Mutant: the loop left instead of continued.)
TimeoutLeaves(w) == /\ loop[w] = "wait"
                    /\ Turns(w, "out") /\ JobReturns(w)
                    /\ UNCHANGED <<context, stop, packets, completions>>

\* It gives up after _Timeout, unless that is INFINITE.
Timeout(w) == /\ loop[w] = "wait"
              /\ Turns(w, "test")
              /\ UNCHANGED <<vars, context, stop, packets, completions>>

DispatchEnds(w) == Functor[w] \in Dispatches /\ JobReturns(w) /\ UNCHANGED contextVars
DispatchThrows(w) == Functor[w] \in Dispatches /\ JobThrows(w) /\ UNCHANGED contextVars

\* Kernel: an operation of some socket completes.
Completes == /\ completions < MaxCompletions /\ context # "constructing"
             /\ completions' = completions + 1 /\ packets' = packets + 1
             /\ UNCHANGED <<vars, context, stop, loop>>

-------------------------------------------------------------------------------
ContextOwner == \/ Owner /\ UNCHANGED contextVars
                \/ Construct \/ StartEnqueues \/ StartEnds \/ DestroyPool

ContextWork(w) == \/ (TestFlag(w) \/ TestEmpty(w) \/ TryPop(w)) /\ UNCHANGED contextVars
                  \/ Begins(w) \/ TestStop(w) \/ Dequeue(w) \/ DispatchEnds(w)

ContextNext ==
    /\ ~terminated
    /\ \/ ContextOwner
       \/ CreateThreadFails /\ UNCHANGED contextVars
       \/ StartBegins \/ StopContext \/ Destroy \/ Completes \/ Dispatch
       \/ \E w \in Workers : ContextWork(w) \/ Timeout(w) \/ DispatchThrows(w)

ContextSpec == ContextInit /\ [][ContextNext]_allVars

\* Threads run, and a dispatched job comes to its end.  No timeout is counted on.
ContextFairSpec == /\ ContextSpec
                   /\ WF_allVars(~terminated /\ ContextOwner)
                   /\ \A w \in Workers : WF_allVars(~terminated /\ ContextWork(w))

-------------------------------------------------------------------------------
ContextTypeOK ==
    /\ TypeOK
    /\ context \in {"constructing", "ready", "failed", "starting", "destroying"}
    /\ stop \in BOOLEAN
    /\ loop \in [Workers -> {"out", "test", "wait"}]
    /\ packets \in Nat /\ completions \in Nat

\* Start fills the pool: a job that is queued behind as many copies of WorkerRun
\* as there are workers is not even taken before the context is stopped, whatever
\* completes or times out in the meantime.
RunsBefore(i) == {k \in 1..(i - 1) : taken[k] \in Runs}

DispatchWaitsForStop ==
    \A i \in 1..Len(taken) :
       taken[i] \in Dispatches /\ Cardinality(RunsBefore(i)) >= WorkerCount => stop

\* A context that was stopped before it is destroyed is gone at last: every
\* worker that waits at the port finds a packet to wake it, without a timeout,
\* and the copy of WorkerRun still in the queue keeps nobody.  (A context that
\* was not stopped joins its workers for ever.)
DestructorReturnsIfStopped ==
    context = "destroying" /\ stop ~> phase = "destroyed" \/ terminated
===============================================================================
