---------------------------- MODULE IocpContextProofs ----------------------------
(***************************************************************************)
(* Theorems of IocpContext, for any number of workers, jobs and completions.*)
(*                                                                          *)
(* The context uses its pool as the pool may be used, so what holds of      *)
(* every pool holds here.  A copy of WorkerRun that was taken keeps its      *)
(* thread until Stop, first in hand and then in its loop; so once as many   *)
(* were taken as there are threads, the thread that would take another job  *)
(* must itself be inside one.                                               *)
(***************************************************************************)
EXTENDS IocpContext, IoContextThreadPoolProofs, FiniteSetTheorems

\* The copies of WorkerRun that were taken, and the threads that have one.
RunsTaken == {k \in 1..Len(taken) : taken[k] \in Runs}
Serving == {w \in Workers : worker[w] \in {"call", "run"} /\ Functor[w] \in Runs}

\* Nobody leaves the loop before Stop.
NobodyLeaves == ~stop => Cardinality(RunsTaken) <= Cardinality(Serving)

-------------------------------------------------------------------------------
LEMMA RunsAreJobs == Runs \subseteq Jobs /\ Dispatches \subseteq Jobs
  BY RunsAssumption DEF Dispatches

\* Every step of the context is one of its pool, or leaves the pool alone.
LEMMA StepOfPool == [ContextNext]_allVars => [Next]_vars
<1> SUFFICES ASSUME [ContextNext]_allVars PROVE Next \/ UNCHANGED vars
  BY DEF Next
<1>1. CASE UNCHANGED allVars
  BY <1>1 DEF allVars
<1>2. ASSUME ~terminated, Owner \/ CreateThreadFails \/ ClearPool PROVE Next
  BY <1>2 DEF Next
<1>3. ASSUME ~terminated, NEW S \in SUBSET Jobs, EnqueueOne(S) PROVE Next
  <2>1. (CHOOSE j \in Left(S) : TRUE) \in Left(S)
    BY <1>3 DEF EnqueueOne
  <2>2. (CHOOSE j \in Left(S) : TRUE) \in Jobs
    BY <2>1 DEF Left
  <2> QED
    BY <1>3, <2>2 DEF EnqueueOne, Next
<1>4. ASSUME ~terminated, NEW w \in Workers, Work(w) \/ JobThrows(w) PROVE Next
  BY <1>4 DEF Next
<1>5. ASSUME ~terminated, ContextOwner PROVE Next \/ UNCHANGED vars
  <2>1. CASE StartEnqueues
    BY <1>3, <1>5, <2>1, RunsAreJobs DEF StartEnqueues
  <2>2. CASE DestroyPool
    BY <1>2, <1>5, <2>2 DEF DestroyPool
  <2>3. CASE Construct \/ StartEnds
    BY <2>3 DEF Construct, StartEnds
  <2> QED
    BY <1>2, <1>5, <2>1, <2>2, <2>3 DEF ContextOwner
<1>6. ASSUME ~terminated, NEW w \in Workers, ContextWork(w) \/ Timeout(w) \/ DispatchThrows(w)
      PROVE  Next \/ UNCHANGED vars
  BY <1>4, <1>6
  DEF ContextWork, Begins, TestStop, Dequeue, DispatchEnds, Timeout, DispatchThrows, Work
<1>7. ASSUME ~terminated, Dispatch PROVE Next
  BY <1>3, <1>7, RunsAreJobs DEF Dispatch
<1> QED
  BY <1>1, <1>2, <1>5, <1>6, <1>7
  DEF ContextNext, StartBegins, StopContext, Destroy, Completes

\* The context uses its pool as IoContextThreadPool says a pool may be used.
THEOREM PoolUsedProperly == ContextSpec => Spec
<1>1. ContextInit => Init
  BY DEF ContextInit
<1> QED
  BY <1>1, StepOfPool, PTL DEF ContextSpec, Spec

-------------------------------------------------------------------------------
TypeOfContext ==
    /\ context \in {"constructing", "ready", "failed", "starting", "destroying"}
    /\ loop \in [Workers -> {"out", "test", "wait"}]

ContextTypes == TypeOK /\ TypeOfContext /\ stop \in BOOLEAN /\ packets \in Nat /\ completions \in Nat

LEMMA ContextTypesKept == ContextTypes /\ [ContextNext]_allVars => ContextTypes'
<1> SUFFICES ASSUME ContextTypes, [ContextNext]_allVars PROVE ContextTypes'
  OBVIOUS
<1>0. /\ TypeOK /\ TypeOfContext /\ stop \in BOOLEAN /\ packets \in Nat /\ completions \in Nat
      /\ TypeOK'
  BY TypesKept, StepOfPool DEF ContextTypes
<1> USE DEF contextVars
<1>1. TypeOfContext'
  BY <1>0
  DEF TypeOfContext, ContextNext, allVars, ContextOwner, Construct, StartEnqueues, StartEnds,
      DestroyPool, StartBegins, StopContext, Destroy, Completes, Dispatch, ContextWork, Begins,
      TestStop, Dequeue, DispatchEnds, Timeout, DispatchThrows, Turns
<1>2. stop' \in BOOLEAN
  BY <1>0
  DEF ContextNext, allVars, ContextOwner, Construct, StartEnqueues, StartEnds,
      DestroyPool, StartBegins, StopContext, Destroy, Completes, Dispatch, ContextWork, Begins,
      TestStop, Dequeue, DispatchEnds, Timeout, DispatchThrows
<1>3. packets' \in Nat /\ completions' \in Nat
  BY <1>0, WorkerCountAssumption
  DEF ContextNext, allVars, ContextOwner, Construct, StartEnqueues, StartEnds,
      DestroyPool, StartBegins, StopContext, Destroy, Completes, Dispatch, ContextWork, Begins,
      TestStop, Dequeue, DispatchEnds, Timeout, DispatchThrows, PostQueue
<1> QED
  BY <1>0, <1>1, <1>2, <1>3 DEF ContextTypes

LEMMA ContextTypesAlways == ContextSpec => []ContextTypes
<1>1. ContextInit => ContextTypes
  BY TypesInitially DEF ContextInit, ContextTypes, TypeOfContext
<1> QED
  BY <1>1, ContextTypesKept, PTL DEF ContextSpec

\* The context keeps to its states, and a worker to WorkerRun's.
THEOREM ContextTypeCorrect == ContextSpec => []ContextTypeOK
<1>1. ContextTypes => ContextTypeOK
  BY DEF ContextTypes, ContextTypeOK, TypeOfContext
<1> QED
  BY <1>1, ContextTypesAlways, PTL

-------------------------------------------------------------------------------
(* The threads that serve.                                                    *)

LEMMA ServingFinite ==
  /\ IsFiniteSet(Workers) /\ Cardinality(Workers) = WorkerCount
  /\ IsFiniteSet(Serving) /\ Cardinality(Serving) \in Nat
<1>1. IsFiniteSet(Workers) /\ Cardinality(Workers) = WorkerCount
  BY FS_Interval, WorkerCountAssumption DEF Workers
<1>2. IsFiniteSet(Serving)
  BY <1>1, FS_Subset DEF Serving
<1> QED
  BY <1>1, <1>2, FS_CardinalityType

\* A thread that does not serve leaves room for one fewer.
LEMMA OneOutside ==
  ASSUME NEW w \in Workers, w \notin Serving
  PROVE  Cardinality(Serving) < WorkerCount
<1>1. Serving \subseteq Workers \ {w}
  BY DEF Serving
<1>2. IsFiniteSet(Workers \ {w}) /\ Cardinality(Workers \ {w}) = Cardinality(Workers) - 1
  BY ServingFinite, FS_RemoveElement
<1>3. Cardinality(Serving) <= Cardinality(Workers \ {w})
  BY <1>1, <1>2, FS_Subset
<1> QED
  BY <1>2, <1>3, ServingFinite, WorkerCountAssumption

\* The invariant.
ServeInv == NobodyLeaves /\ DispatchWaitsForStop

LEMMA IndicesFinite ==
  ASSUME NEW n \in Nat, NEW S, S \subseteq 1..n
  PROVE  IsFiniteSet(S) /\ Cardinality(S) \in Nat
<1>1. IsFiniteSet(1..n)
  BY FS_Interval
<1>2. IsFiniteSet(S)
  BY <1>1, FS_Subset
<1> QED
  BY <1>2, FS_CardinalityType

\* A step that takes nothing and lets nobody out.
LEMMA NothingTaken ==
  ASSUME NobodyLeaves, DispatchWaitsForStop, ~stop, ~stop',
         taken' = taken, Serving' = Serving
  PROVE  NobodyLeaves' /\ DispatchWaitsForStop'
<1>1. RunsTaken' = RunsTaken
  BY DEF RunsTaken
<1>2. NobodyLeaves'
  BY <1>1 DEF NobodyLeaves
<1>3. DispatchWaitsForStop'
  BY DEF DispatchWaitsForStop, RunsBefore
<1> QED
  BY <1>2, <1>3

\* A job is taken: WorkerRun keeps its thread, and what was dispatched finds a
\* thread that serves nobody.
LEMMA JobTaken ==
  ASSUME ContextTypes, NobodyLeaves, DispatchWaitsForStop, ~stop, ~stop',
         NEW w \in Workers, NEW j \in Jobs, w \notin Serving,
         taken' = Append(taken, j),
         Serving' = IF j \in Runs THEN Serving \cup {w} ELSE Serving
  PROVE  NobodyLeaves' /\ DispatchWaitsForStop'
<1> DEFINE n == Len(taken)
<1>1. taken \in Seq(Jobs) /\ n \in Nat
  BY TypeOKParts, LenProperties DEF ContextTypes, TypeOfJobs
<1>2. Len(taken') = n + 1 /\ taken'[n + 1] = j /\ \A k \in 1..n : taken'[k] = taken[k]
  BY <1>1, AppendProperties
<1>4. 1..(n + 1) = 1..n \cup {n + 1} /\ n + 1 \notin 1..n
  BY <1>1
<1> HIDE DEF n
<1>5. /\ j \in Runs => RunsTaken' = RunsTaken \cup {n + 1}
      /\ j \notin Runs => RunsTaken' = RunsTaken
      /\ n + 1 \notin RunsTaken
  BY <1>2, <1>4 DEF RunsTaken, n
<1>6. IsFiniteSet(RunsTaken) /\ Cardinality(RunsTaken) \in Nat
  <2>1. RunsTaken \subseteq 1..n
    BY DEF RunsTaken, n
  <2> QED
    BY <1>1, <2>1, IndicesFinite
<1>8. NobodyLeaves'
  <2>1. CASE j \in Runs
    <3>1. Cardinality(RunsTaken') = Cardinality(RunsTaken) + 1
      BY <1>5, <1>6, <2>1, FS_AddElement
    <3>2. Cardinality(Serving') = Cardinality(Serving) + 1
      BY <2>1, ServingFinite, FS_AddElement
    <3>3. Cardinality(RunsTaken) <= Cardinality(Serving)
      BY DEF NobodyLeaves
    <3> QED
      BY <1>6, <3>1, <3>2, <3>3, ServingFinite DEF NobodyLeaves
  <2>2. CASE j \notin Runs
    BY <1>5, <2>2 DEF NobodyLeaves
  <2> QED
    BY <2>1, <2>2
<1>9. ASSUME NEW i \in 1..Len(taken'), taken'[i] \in Dispatches
      PROVE  Cardinality(RunsBefore(i)') < WorkerCount
  <2>1. CASE i \in 1..n
    <3>1. RunsBefore(i)' = RunsBefore(i) /\ taken'[i] = taken[i]
      <4>1. \A k \in 1..(i - 1) : k \in 1..n
        BY <1>1, <2>1
      <4> QED
        BY <1>2, <2>1, <4>1 DEF RunsBefore
    <3>2. Cardinality(RunsBefore(i)) \in Nat
      <4>1. RunsBefore(i) \subseteq 1..n
        BY <1>1, <2>1 DEF RunsBefore
      <4> QED
        BY <1>1, <4>1, IndicesFinite
    <3>3. ~(Cardinality(RunsBefore(i)) >= WorkerCount)
      BY <1>9, <2>1, <3>1 DEF DispatchWaitsForStop, n
    <3> QED
      BY <3>1, <3>2, <3>3, WorkerCountAssumption
  <2>2. CASE i = n + 1
    <3>1. RunsBefore(i)' = RunsTaken
      <4>1. i - 1 = n
        BY <1>1, <2>2
      <4> QED
        BY <1>2, <4>1 DEF RunsBefore, RunsTaken, n
    <3>2. Cardinality(RunsTaken) <= Cardinality(Serving)
      BY DEF NobodyLeaves
    <3>3. Cardinality(Serving) < WorkerCount
      BY OneOutside
    <3> QED
      BY <1>6, <3>1, <3>2, <3>3, ServingFinite, WorkerCountAssumption
  <2> QED
    BY <1>2, <1>4, <2>1, <2>2
<1>10. DispatchWaitsForStop'
  <2> SUFFICES ASSUME NEW i \in 1..Len(taken'), taken'[i] \in Dispatches,
                      Cardinality(RunsBefore(i)') >= WorkerCount
               PROVE  FALSE
    BY DEF DispatchWaitsForStop
  <2>1. Cardinality(RunsBefore(i)') < WorkerCount
    BY <1>9
  <2>2. Cardinality(RunsBefore(i)') \in Nat
    <3>1. RunsBefore(i)' \subseteq 1..(i - 1) /\ i - 1 \in Nat
      BY <1>1, <1>2 DEF RunsBefore
    <3> QED
      BY <3>1, IndicesFinite
  <2> QED
    BY <2>1, <2>2, WorkerCountAssumption
<1> QED
  BY <1>8, <1>10

LEMMA ServeInvKept ==
  ContextTypes /\ OwnerOK /\ ServeInv /\ [ContextNext]_allVars => ServeInv'
<1> SUFFICES ASSUME ContextTypes, OwnerOK, ServeInv, [ContextNext]_allVars PROVE ServeInv'
  OBVIOUS
<1> USE DEF contextVars, poolVars, jobVars, threadVars
<1>0. NobodyLeaves /\ DispatchWaitsForStop
  BY DEF ServeInv
<1>s. CASE stop'
  BY <1>s DEF ServeInv, NobodyLeaves, DispatchWaitsForStop
<1>a. SUFFICES ASSUME ~stop' PROVE NobodyLeaves' /\ DispatchWaitsForStop'
  BY <1>s DEF ServeInv
<1>t. TypeOfThreads /\ TypeOfJobs /\ TypeOfOwner /\ WorkerCount \in Nat
  BY TypeOKParts, WorkerCountAssumption DEF ContextTypes
<1>b. ~stop
  BY <1>a
  DEF ContextNext, allVars, ContextOwner, Construct, StartEnqueues, StartEnds,
      DestroyPool, StartBegins, StopContext, Destroy, Completes, Dispatch, ContextWork, Begins,
      TestStop, Dequeue, DispatchEnds, Timeout, DispatchThrows
<1>k. ASSUME taken' = taken, Serving' = Serving PROVE NobodyLeaves' /\ DispatchWaitsForStop'
  BY <1>0, <1>a, <1>b, <1>k, NothingTaken
<1>u. ASSUME UNCHANGED <<taken, worker, Functor>> PROVE NobodyLeaves' /\ DispatchWaitsForStop'
  BY <1>k, <1>u DEF Serving
<1>1. CASE UNCHANGED allVars
  BY <1>1, <1>u DEF allVars, vars
<1>2. CASE ContextOwner
  <2>1. CASE CreateThread
    <3>1. index \in Workers /\ worker[index] = "none"
      BY <1>t, <2>1 DEF CreateThread, Workers, OwnerOK, TypeOfOwner
    <3>2. Serving' = Serving /\ taken' = taken
      BY <1>t, <2>1, <3>1 DEF CreateThread, Goes, Serving, TypeOfThreads
    <3> QED
      BY <1>k, <3>2
  <2> QED
    BY <1>2, <1>u, <2>1
    DEF ContextOwner, Owner, Constructed, Join, Destroyed, Construct, StartEnqueues,
        EnqueueOne, EnqueueJob, Push, StartEnds, DestroyPool, ClearPool, vars
<1>3. CASE \/ CreateThreadFails /\ UNCHANGED contextVars
           \/ StartBegins \/ StopContext \/ Destroy \/ Completes \/ Dispatch
  BY <1>3, <1>u
  DEF CreateThreadFails, Terminate, StartBegins, StopContext, Destroy, Completes, Dispatch,
      EnqueueOne, EnqueueJob, Push, vars
<1>4. ASSUME NEW w \in Workers, TestFlag(w) \/ TestEmpty(w) \/ DispatchEnds(w)
      PROVE  NobodyLeaves' /\ DispatchWaitsForStop'
  <2>1. Serving' = Serving /\ taken' = taken
    BY <1>t, <1>4
    DEF TestFlag, TestEmpty, DispatchEnds, Dispatches, JobReturns, Goes, Serving, TypeOfThreads
  <2> QED
    BY <1>k, <2>1
<1>5. ASSUME NEW w \in Workers, TestStop(w) \/ Dequeue(w) \/ Timeout(w) \/ DispatchThrows(w)
      PROVE  NobodyLeaves' /\ DispatchWaitsForStop'
  BY <1>5, <1>b, <1>u DEF TestStop, Dequeue, Timeout, DispatchThrows, JobThrows, Terminate, vars
<1>6. ASSUME NEW w \in Workers, Begins(w) PROVE NobodyLeaves' /\ DispatchWaitsForStop'
  <2>1. Serving' = Serving /\ taken' = taken
    BY <1>t, <1>6 DEF Begins, Call, Goes, Serving, TypeOfThreads
  <2> QED
    BY <1>k, <2>1
<1>7. ASSUME NEW w \in Workers, TryPop(w) PROVE NobodyLeaves' /\ DispatchWaitsForStop'
  <2>1. worker[w] = "pop" /\ w \notin Serving
    BY <1>7 DEF TryPop, Serving
  <2>2. CASE PopFails(w)
    <3>1. Serving' = Serving /\ taken' = taken
      BY <1>t, <2>1, <2>2 DEF PopFails, Goes, Serving, TypeOfThreads
    <3> QED
      BY <1>k, <3>1
  <2>3. CASE PopSucceeds(w)
    <3> DEFINE j == Head(Queue)
    <3>1. j \in Jobs
      BY <1>t, <2>3, HeadTailProperties DEF PopSucceeds, TypeOfJobs
    <3>2. /\ worker' = [worker EXCEPT ![w] = "call"] /\ Functor' = [Functor EXCEPT ![w] = j]
          /\ taken' = Append(taken, j)
      BY <2>3 DEF PopSucceeds, Goes
    <3> HIDE DEF j
    <3>3. Serving' = IF j \in Runs THEN Serving \cup {w} ELSE Serving
      BY <1>t, <2>1, <3>2 DEF Serving, TypeOfThreads
    <3> QED
      BY <1>0, <1>a, <1>b, <2>1, <3>1, <3>2, <3>3, JobTaken
  <2> QED
    BY <1>7, <2>2, <2>3 DEF TryPop
<1> QED
  BY <1>1, <1>2, <1>3, <1>4, <1>5, <1>6, <1>7 DEF ContextNext, ContextWork, ContextOwner

LEMMA ServeInvInitially == ContextInit => ServeInv
<1> SUFFICES ASSUME ContextInit PROVE ServeInv
  OBVIOUS
<1>1. worker = [w \in Workers |-> "none"] /\ taken = <<>>
  BY DEF ContextInit, Init
<1>3. RunsTaken = {} /\ Serving = {}
  BY <1>1 DEF RunsTaken, Serving
<1>4. Cardinality({}) = 0
  BY FS_EmptySet
<1>5. Cardinality(RunsTaken) <= Cardinality(Serving)
  BY <1>3, <1>4
<1>6. DispatchWaitsForStop
  BY <1>1 DEF DispatchWaitsForStop
<1> QED
  BY <1>5, <1>6 DEF ServeInv, NobodyLeaves

\* Start fills the pool for good: no job that is queued behind as many copies of
\* WorkerRun as there are threads is taken before Stop.
THEOREM DispatchedJobsWait == ContextSpec => []DispatchWaitsForStop
<1>1. ServeInv => DispatchWaitsForStop
  BY DEF ServeInv
<1> QED
  BY <1>1, ServeInvInitially, ServeInvKept, ContextTypesAlways, PoolUsedProperly, OwnerAndThreads,
     PTL DEF ContextSpec
===============================================================================
