----------------------- MODULE IoContextThreadPoolProofs -----------------------
(***************************************************************************)
(* Theorems about IoContextThreadPool, for any number of workers and jobs.  *)
(*                                                                          *)
(* OwnerOK ties the phase of the owner to the threads: none runs before it  *)
(* is created nor after it is joined.  LateOK says which workers can still  *)
(* start a job after ClearFlag: those that are past the flag and have not.  *)
(* JobsApart keeps what was taken, what is queued and what is to come       *)
(* apart, so that no two workers hold the same job.  Each is inductive      *)
(* together with the types and OwnerOK.                                     *)
(***************************************************************************)
EXTENDS IoContextThreadPool, SequenceTheorems, TLAPS

Places == {"none", "flag", "empty", "pop", "call", "run", "returned"}

\* TypeOK, the parts that mix no Booleans with numbers.
TypeOfOwner == /\ phase \in {"constructing", "open", "joining", "destroyed"}
               /\ index \in 1..(WorkerCount + 1)
TypeOfThreads == /\ worker \in [Workers -> Places]
                 /\ Functor \in [Workers -> Jobs \cup {NULL}]
                 /\ \A w \in Workers : worker[w] = "call" => Functor[w] # NULL
TypeOfJobs == /\ Queue \in Seq(Jobs)
              /\ pushed \in Seq(Jobs) /\ taken \in Seq(Jobs)
              /\ started \in Seq(Jobs) /\ dropped \in Seq(Jobs)
TypeOfFlags == ClearFlag \in BOOLEAN /\ shouldContinue \in BOOLEAN /\ terminated \in BOOLEAN

LEMMA TypeOKParts == TypeOK <=> /\ TypeOfOwner /\ TypeOfThreads /\ TypeOfJobs /\ TypeOfFlags
                                /\ late \in [Workers -> Nat]
  BY DEF TypeOK, TypeOfOwner, TypeOfThreads, TypeOfJobs, TypeOfFlags, Places

LEMMA TypesInitially == Init => TypeOK
<1> SUFFICES ASSUME Init PROVE TypeOK
  OBVIOUS
<1>1. TypeOfOwner /\ late \in [Workers -> Nat]
  BY WorkerCountAssumption DEF Init, TypeOfOwner
<1>2. TypeOfThreads
  BY DEF Init, TypeOfThreads, Places
<1>3. TypeOfJobs
  BY DEF Init, TypeOfJobs
<1>4. TypeOfFlags
  BY DEF Init, TypeOfFlags
<1> QED
  BY <1>1, <1>2, <1>3, <1>4, TypeOKParts

LEMMA TypesKept == TypeOK /\ [Next]_vars => TypeOK'
<1> SUFFICES ASSUME TypeOK, [Next]_vars PROVE TypeOK'
  OBVIOUS
<1>0. TypeOfOwner /\ TypeOfThreads /\ TypeOfJobs /\ TypeOfFlags /\ late \in [Workers -> Nat]
  BY TypeOKParts
<1> USE <1>0 DEF TypeOfOwner, TypeOfThreads, TypeOfJobs, TypeOfFlags, Places,
                 poolVars, jobVars, threadVars
<1>q. ASSUME TypeOfOwner', TypeOfThreads', TypeOfJobs', TypeOfFlags', (late \in [Workers -> Nat])'
      PROVE  TypeOK'
  BY <1>q DEF TypeOK
<1>1. CASE UNCHANGED vars
  BY <1>1 DEF vars, TypeOK
<1>2. CASE Terminate
  BY <1>2, <1>q DEF Terminate
<1>3. CASE CreateThread
  <2>1. index \in Workers /\ TypeOfOwner'
    BY <1>3, WorkerCountAssumption DEF CreateThread, Workers
  <2> QED
    BY <1>3, <1>q, <2>1 DEF CreateThread, Goes
<1>4. CASE CreateThreadFails
  BY <1>2, <1>4, <1>q DEF CreateThreadFails
<1>5. CASE Constructed
  BY <1>5, <1>q DEF Constructed
<1>6. CASE ClearPool
  <2>1. TypeOfOwner'
    BY <1>6, WorkerCountAssumption DEF ClearPool
  <2> QED
    BY <1>6, <1>q, <2>1 DEF ClearPool
<1>7. CASE Join
  <2>1. TypeOfOwner'
    BY <1>7, WorkerCountAssumption DEF Join
  <2> QED
    BY <1>7, <1>q, <2>1 DEF Join
<1>8. CASE Destroyed
  BY <1>8, <1>q DEF Destroyed
<1>9. ASSUME NEW j \in Jobs, Push(j) PROVE TypeOK'
  BY <1>9, <1>q DEF Push
<1>10. ASSUME NEW w \in Workers, TestFlag(w) \/ TestEmpty(w) \/ JobReturns(w) PROVE TypeOK'
  BY <1>10, <1>q DEF TestFlag, TestEmpty, JobReturns, Goes
<1>11. ASSUME NEW w \in Workers, PopFails(w) PROVE TypeOK'
  BY <1>11, <1>q DEF PopFails, Goes
<1>12. ASSUME NEW w \in Workers, PopSucceeds(w) PROVE TypeOK'
  <2>1. Head(Queue) \in Jobs /\ Tail(Queue) \in Seq(Jobs)
    BY <1>12, HeadTailProperties DEF PopSucceeds
  <2>2. TypeOfThreads'
    BY <1>12, <2>1, NullAssumption DEF PopSucceeds, Goes
  <2>3. TypeOfOwner' /\ TypeOfFlags' /\ (late \in [Workers -> Nat])'
    BY <1>12 DEF PopSucceeds
  <2>4. TypeOfJobs'
    BY <1>12, <2>1 DEF PopSucceeds
  <2> QED
    BY <1>q, <2>2, <2>3, <2>4
<1>13. ASSUME NEW w \in Workers, Call(w) PROVE TypeOK'
  <2>1. Functor[w] \in Jobs
    BY <1>13 DEF Call
  <2>2. TypeOfOwner' /\ TypeOfThreads' /\ TypeOfJobs'
    BY <1>13, <2>1 DEF Call, Goes
  <2>3. TypeOfFlags' /\ (late \in [Workers -> Nat])'
    BY <1>13 DEF Call
  <2> QED
    BY <1>q, <2>2, <2>3
<1> QED
  BY <1>1, <1>2, <1>3, <1>4, <1>5, <1>6, <1>7, <1>8, <1>9, <1>10, <1>11, <1>12, <1>13
  DEF Next, Owner, Work, TryPop, EnqueueJob, JobEnqueues, JobThrows

\* Every index the constructor and the destructor use is that of a thread or one
\* past the last, and no thread is anywhere but in InnerWork.
THEOREM TypeCorrect == Spec => []TypeOK
  BY TypesInitially, TypesKept, PTL DEF Spec

-------------------------------------------------------------------------------
(* The threads and their owner.                                               *)

OwnerOK ==
    /\ phase = "constructing" =>
          /\ Queue = <<>>
          /\ \A w \in Workers : /\ worker[w] \notin {"call", "run"}
                                /\ w >= index => worker[w] = "none"
    /\ phase \in {"constructing", "open"} => ~ClearFlag
    /\ phase = "joining" => \A w \in Workers : w < index => worker[w] = "returned"
    /\ phase = "destroyed" => Queue = <<>> /\ \A w \in Workers : worker[w] \in {"none", "returned"}
    /\ phase # "destroyed" => dropped = <<>>

LEMMA OwnerOKKept == TypeOK /\ OwnerOK /\ [Next]_vars => OwnerOK'
<1> SUFFICES ASSUME TypeOK, OwnerOK, [Next]_vars PROVE OwnerOK'
  OBVIOUS
<1> USE DEF OwnerOK, poolVars, jobVars, threadVars, Workers
<1>0. /\ TypeOfOwner /\ TypeOfThreads /\ TypeOfJobs
      /\ WorkerCount \in Nat
  BY TypeOKParts, WorkerCountAssumption
<1>1. CASE UNCHANGED vars
  BY <1>1 DEF vars
<1>2. CASE Terminate
  BY <1>2 DEF Terminate
<1>3. CASE CreateThread
  BY <1>0, <1>3 DEF CreateThread, Goes, TypeOfThreads, TypeOfOwner
<1>4. CASE CreateThreadFails
  <2>1. CASE index = 1 /\ phase' = "destroyed" /\ UNCHANGED <<jobVars, threadVars>>
    <3>1. Queue = <<>> /\ \A w \in Workers : worker[w] = "none"
      BY <1>0, <1>4, <2>1 DEF CreateThreadFails
    <3> QED
      BY <2>1, <3>1
  <2> QED
    BY <1>2, <1>4, <2>1 DEF CreateThreadFails
<1>5. CASE Constructed
  BY <1>5 DEF Constructed
<1>6. CASE ClearPool
  BY <1>6 DEF ClearPool
<1>7. CASE Join
  BY <1>0, <1>7 DEF Join, TypeOfOwner
<1>8. CASE Destroyed
  BY <1>0, <1>8 DEF Destroyed, TypeOfOwner
<1>9. ASSUME NEW j \in Jobs, EnqueueJob(j) PROVE OwnerOK'
  BY <1>9 DEF EnqueueJob, Push
<1>10. ASSUME NEW w \in Workers, NEW j \in Jobs, JobEnqueues(w, j) PROVE OwnerOK'
  BY <1>10 DEF JobEnqueues, Push
<1>11. ASSUME NEW w \in Workers, TestFlag(w) \/ TestEmpty(w) \/ JobReturns(w) PROVE OwnerOK'
  BY <1>0, <1>11 DEF TestFlag, TestEmpty, JobReturns, Goes, TypeOfThreads
<1>12. ASSUME NEW w \in Workers, worker[w] = "pop", PopFails(w) PROVE OwnerOK'
  BY <1>0, <1>12 DEF PopFails, Goes, TypeOfThreads
<1>13. ASSUME NEW w \in Workers, worker[w] = "pop", PopSucceeds(w) PROVE OwnerOK'
  <2>1. phase \notin {"constructing", "destroyed"}
    BY <1>13 DEF PopSucceeds
  <2>2. \A v \in Workers : worker[v] = "returned" => worker'[v] = "returned"
    BY <1>0, <1>13 DEF PopSucceeds, Goes, TypeOfThreads
  <2> QED
    BY <1>13, <2>1, <2>2 DEF PopSucceeds
<1>14. ASSUME NEW w \in Workers, Call(w) PROVE OwnerOK'
  <2>1. phase \notin {"constructing", "destroyed"}
    BY <1>14 DEF Call
  <2>2. \A v \in Workers : worker[v] = "returned" => worker'[v] = "returned"
    BY <1>0, <1>14 DEF Call, Goes, TypeOfThreads
  <2> QED
    BY <1>14, <2>1, <2>2 DEF Call
<1> QED
  BY <1>1, <1>2, <1>3, <1>4, <1>5, <1>6, <1>7, <1>8, <1>9, <1>10, <1>11, <1>12, <1>13, <1>14
  DEF Next, Owner, Work, TryPop, JobThrows

THEOREM OwnerAndThreads == Spec => []OwnerOK
<1>1. Init => OwnerOK
  BY WorkerCountAssumption DEF Init, OwnerOK, Workers
<1> QED
  BY <1>1, OwnerOKKept, TypeCorrect, PTL DEF Spec

\* The destructor joins every thread before the members go.
THEOREM NobodyLeft == Spec => []NobodyInside
<1>1. OwnerOK => NobodyInside
  BY DEF OwnerOK, NobodyInside
<1> QED
  BY <1>1, OwnerAndThreads, PTL

-------------------------------------------------------------------------------
(* Jobs started after ClearFlag.                                              *)

LateOK == \A w \in Workers :
    /\ late[w] <= 1
    /\ ~ClearFlag => late[w] = 0
    /\ worker[w] \in {"empty", "pop", "call"} => late[w] = 0

LEMMA LateOKKept == TypeOK /\ OwnerOK /\ LateOK /\ [Next]_vars => LateOK'
<1> SUFFICES ASSUME TypeOK, OwnerOK, LateOK, [Next]_vars PROVE LateOK'
  OBVIOUS
<1> USE DEF LateOK, poolVars, jobVars, threadVars
<1>0. TypeOfThreads /\ TypeOfOwner /\ late \in [Workers -> Nat]
  BY TypeOKParts
<1>1. CASE UNCHANGED vars
  BY <1>1 DEF vars
<1>2. CASE Terminate
  BY <1>2 DEF Terminate
<1>3. CASE CreateThread
  BY <1>0, <1>3 DEF CreateThread, Goes, TypeOfThreads
<1>4. CASE CreateThreadFails
  BY <1>2, <1>4 DEF CreateThreadFails
<1>5. CASE Constructed \/ Join \/ Destroyed
  BY <1>5 DEF Constructed, Join, Destroyed
<1>6. CASE ClearPool
  BY <1>6 DEF ClearPool, OwnerOK
<1>7. ASSUME NEW j \in Jobs, Push(j) PROVE LateOK'
  BY <1>7 DEF Push
<1>8. ASSUME NEW w \in Workers, TestFlag(w) \/ TestEmpty(w) \/ JobReturns(w) PROVE LateOK'
  BY <1>0, <1>8 DEF TestFlag, TestEmpty, JobReturns, Goes, TypeOfThreads
<1>9. ASSUME NEW w \in Workers, TryPop(w) PROVE LateOK'
  BY <1>0, <1>9 DEF TryPop, PopFails, PopSucceeds, Goes, TypeOfThreads
<1>10. ASSUME NEW w \in Workers, Call(w) PROVE LateOK'
  <2>1. late[w] = 0 /\ ClearFlag' = ClearFlag
    BY <1>10 DEF Call
  <2>2. ~ClearFlag => late' = late
    BY <1>0, <1>10 DEF Call
  <2>3. ClearFlag => late' = [late EXCEPT ![w] = 1]
    BY <1>0, <1>10, <2>1 DEF Call
  <2>4. worker' = [worker EXCEPT ![w] = "run"]
    BY <1>10 DEF Call, Goes
  <2> QED
    BY <1>0, <2>1, <2>2, <2>3, <2>4 DEF TypeOfThreads
<1> QED
  BY <1>1, <1>2, <1>3, <1>4, <1>5, <1>6, <1>7, <1>8, <1>9, <1>10
  DEF Next, Owner, Work, EnqueueJob, JobEnqueues, JobThrows

\* A worker that had seen ClearFlag down takes one more job at most.
THEOREM OneLate == Spec => []OneLateJob
<1>1. Init => LateOK
  BY DEF Init, LateOK
<1>2. LateOK => OneLateJob
  BY DEF LateOK, OneLateJob
<1> QED
  BY <1>1, <1>2, LateOKKept, TypeCorrect, OwnerAndThreads, PTL DEF Spec

-------------------------------------------------------------------------------
(* The jobs.                                                                  *)

LEMMA HeadToFirst ==
  ASSUME NEW S, NEW s \in Seq(S), NEW q \in Seq(S), q # <<>>
  PROVE  Append(s, Head(q)) \o Tail(q) = s \o q
  OBVIOUS

\* What a push does to the elements of a queue without repetitions.
LEMMA OneMore ==
  ASSUME NEW S, NEW s \in Seq(S), NEW x \in S
  PROVE  /\ Range(Append(s, x)) = Range(s) \cup {x}
         /\ IsInjective(s) /\ x \notin Range(s) => IsInjective(Append(s, x))
<1>1. /\ Len(s) \in Nat /\ DOMAIN s = 1..Len(s) /\ DOMAIN Append(s, x) = 1..(Len(s) + 1)
      /\ \A i \in 1..Len(s) : Append(s, x)[i] = s[i]
      /\ Append(s, x)[Len(s) + 1] = x
  BY AppendProperties, LenProperties
<1>2. 1..(Len(s) + 1) = 1..Len(s) \cup {Len(s) + 1}
  BY <1>1
<1> DEFINE t == Append(s, x)
           n == Len(s)
<1> HIDE DEF t, n
<1>3. Range(t) = Range(s) \cup {x}
  BY <1>1, <1>2 DEF Range, t, n
<1>4. ASSUME IsInjective(s), x \notin Range(s) PROVE IsInjective(t)
  BY <1>1, <1>2, <1>4 DEF Range, IsInjective, t, n
<1> QED
  BY <1>3, <1>4 DEF t

\* What a pop does to them.
LEMMA OneFewer ==
  ASSUME NEW S, NEW q \in Seq(S), q # <<>>, IsInjective(q)
  PROVE  /\ Head(q) \in Range(q) /\ Range(Tail(q)) = Range(q) \ {Head(q)}
         /\ IsInjective(Tail(q))
<1>1. /\ Len(q) \in Nat \ {0} /\ DOMAIN q = 1..Len(q)
      /\ Head(q) = q[1] /\ Tail(q) \in Seq(S) /\ Len(Tail(q)) = Len(q) - 1
      /\ DOMAIN Tail(q) = 1..(Len(q) - 1)
      /\ \A i \in 1..(Len(q) - 1) : Tail(q)[i] = q[i + 1]
  BY HeadTailProperties, LenProperties, EmptySeq
<1> DEFINE t == Tail(q)
           n == Len(q)
<1> HIDE DEF t, n
<1>2. IsInjective(t)
  <2> SUFFICES ASSUME NEW i \in 1..(n - 1), NEW k \in 1..(n - 1), t[i] = t[k] PROVE i = k
    BY <1>1 DEF IsInjective, t, n
  <2>1. i + 1 \in 1..n /\ k + 1 \in 1..n
    BY <1>1 DEF n
  <2>2. q[i + 1] = q[k + 1]
    BY <1>1 DEF t, n
  <2>3. i + 1 = k + 1
    BY <1>1, <2>1, <2>2 DEF IsInjective, n
  <2> QED
    BY <2>3
<1>3. ASSUME NEW x \in Range(t) PROVE x \in Range(q) \ {q[1]}
  <2>1. PICK i \in 1..(n - 1) : x = t[i]
    BY <1>1, <1>3 DEF Range, t, n
  <2>2. i + 1 \in 1..n /\ 1 \in 1..n /\ i + 1 # 1 /\ x = q[i + 1]
    BY <1>1, <2>1 DEF t, n
  <2> QED
    BY <1>1, <2>2 DEF Range, IsInjective, n
<1>4. ASSUME NEW x \in Range(q) \ {q[1]} PROVE x \in Range(t)
  <2>1. PICK k \in 1..n : x = q[k] /\ k # 1
    BY <1>1, <1>4 DEF Range, n
  <2>2. k - 1 \in 1..(n - 1) /\ (k - 1) + 1 = k
    BY <1>1, <2>1 DEF n
  <2>3. t[k - 1] = x
    BY <1>1, <2>1, <2>2 DEF t, n
  <2> QED
    BY <1>1, <2>2, <2>3 DEF Range, t, n
<1>5. 1 \in 1..n
  BY <1>1 DEF n
<1>6. q[1] \in Range(q)
  BY <1>1, <1>5 DEF Range, n
<1> QED
  BY <1>1, <1>2, <1>3, <1>4, <1>6 DEF t

\* The jobs taken, queued and begun, as sets.
JobsApart ==
    /\ Range(taken) \cup Range(Queue) \subseteq Range(pushed)
    /\ Range(taken) \cap Range(Queue) = {} /\ IsInjective(Queue)
    /\ Range(taken) = Range(started) \cup InHand
    /\ Range(started) \cap InHand = {} /\ IsInjective(started)
    /\ \A v, w \in Workers :
          worker[v] = "call" /\ worker[w] = "call" /\ Functor[v] = Functor[w] => v = w

\* The worker of a step neither takes a job nor begins one.
LEMMA HandsKept ==
  ASSUME UNCHANGED <<Functor, pushed, taken, started>>,
         \/ UNCHANGED Queue
         \/ Queue' = <<>>,
         \A v \in Workers : worker'[v] = "call" <=> worker[v] = "call",
         JobsApart
  PROVE  JobsApart' /\ InHand' = InHand
<1>1. InHand' = InHand
  BY DEF InHand
<1>2. Range(<<>>) = {} /\ IsInjective(<<>>)
  BY DEF Range, IsInjective
<1> QED
  BY <1>1, <1>2 DEF JobsApart

LEMMA JobsApartKept == TypeOK /\ OwnerOK /\ JobsApart /\ [Next]_vars => JobsApart'
<1> SUFFICES ASSUME TypeOK, OwnerOK, JobsApart, [Next]_vars PROVE JobsApart'
  OBVIOUS
<1> USE DEF poolVars, jobVars, threadVars
<1>0. TypeOfThreads /\ TypeOfOwner /\ TypeOfJobs
  BY TypeOKParts
<1>1. CASE UNCHANGED vars
  BY <1>1, HandsKept DEF vars
<1>2. CASE Terminate
  BY <1>2, HandsKept DEF Terminate
<1>3. CASE CreateThread
  <2>1. index \in Workers /\ worker[index] = "none"
    BY <1>0, <1>3, WorkerCountAssumption DEF CreateThread, Workers, OwnerOK, TypeOfOwner
  <2> QED
    BY <1>0, <1>3, <2>1, HandsKept DEF CreateThread, Goes, TypeOfThreads
<1>4. CASE CreateThreadFails
  BY <1>2, <1>4, HandsKept DEF CreateThreadFails
<1>5. CASE Constructed \/ ClearPool \/ Join \/ Destroyed
  BY <1>5, HandsKept DEF Constructed, ClearPool, Join, Destroyed
<1>6. ASSUME NEW j \in Jobs, Push(j) PROVE JobsApart'
  <2>1. /\ Queue' = Append(Queue, j) /\ pushed' = Append(pushed, j)
        /\ UNCHANGED <<taken, started>> /\ InHand' = InHand
        /\ UNCHANGED <<worker, Functor>>
    BY <1>6 DEF Push, InHand
  <2>2. j \notin Range(pushed)
    BY <1>0, <1>6 DEF Push, Range, TypeOfJobs
  <2>3. /\ Range(Queue') = Range(Queue) \cup {j} /\ Range(pushed') = Range(pushed) \cup {j}
        /\ j \notin Range(Queue) /\ IsInjective(Queue')
    <3>1. j \notin Range(Queue) /\ IsInjective(Queue)
      BY <2>2 DEF JobsApart
    <3> QED
      BY <1>0, <2>1, <3>1, OneMore DEF TypeOfJobs
  <2> QED
    BY <2>1, <2>2, <2>3 DEF JobsApart
<1>7. ASSUME NEW w \in Workers, TestFlag(w) \/ TestEmpty(w) \/ JobReturns(w) PROVE JobsApart'
  BY <1>0, <1>7, HandsKept DEF TestFlag, TestEmpty, JobReturns, Goes, TypeOfThreads
<1>8. ASSUME NEW w \in Workers, worker[w] = "pop", PopFails(w) PROVE JobsApart'
  BY <1>0, <1>8, HandsKept DEF PopFails, Goes, TypeOfThreads
<1>9. ASSUME NEW w \in Workers, worker[w] = "pop", PopSucceeds(w) PROVE JobsApart'
  <2> DEFINE j == Head(Queue)
  <2>1. j \in Jobs /\ Queue # <<>>
    BY <1>0, <1>9, HeadTailProperties DEF PopSucceeds, TypeOfJobs
  <2>2. /\ j \in Range(Queue) /\ Range(Queue') = Range(Queue) \ {j} /\ IsInjective(Queue')
        /\ Range(taken') = Range(taken) \cup {j}
    <3>1. Queue' = Tail(Queue) /\ taken' = Append(taken, j) /\ IsInjective(Queue)
      BY <1>9 DEF PopSucceeds, JobsApart
    <3> QED
      BY <1>0, <2>1, <3>1, OneMore, OneFewer DEF TypeOfJobs
  <2>3. /\ UNCHANGED <<pushed, started>>
        /\ worker' = [worker EXCEPT ![w] = "call"] /\ Functor' = [Functor EXCEPT ![w] = j]
    BY <1>9 DEF PopSucceeds, Goes
  <2> HIDE DEF j
  <2>4. InHand' = InHand \cup {j}
    BY <1>0, <1>9, <2>3 DEF InHand, TypeOfThreads
  <2>5. j \notin Range(taken) /\ j \notin InHand /\ j \notin Range(started)
    BY <2>2 DEF JobsApart
  <2>6. \A u, v \in Workers :
           worker'[u] = "call" /\ worker'[v] = "call" /\ Functor'[u] = Functor'[v] => u = v
    BY <1>0, <2>3, <2>5 DEF JobsApart, InHand, TypeOfThreads
  <2> QED
    BY <2>2, <2>3, <2>4, <2>5, <2>6 DEF JobsApart
<1>10. ASSUME NEW w \in Workers, Call(w) PROVE JobsApart'
  <2> DEFINE j == Functor[w]
  <2>1. /\ worker[w] = "call" /\ j \in Jobs
        /\ UNCHANGED <<pushed, taken, Queue, Functor>> /\ started' = Append(started, j)
        /\ worker' = [worker EXCEPT ![w] = "run"]
    BY <1>0, <1>10 DEF Call, Goes, TypeOfThreads
  <2>2. j \in InHand /\ j \notin Range(started)
    BY <2>1 DEF InHand, JobsApart
  <2>3. InHand' = InHand \ {j}
    BY <1>0, <2>1 DEF InHand, JobsApart, TypeOfThreads
  <2>4. Range(started') = Range(started) \cup {j} /\ IsInjective(started')
    <3>1. IsInjective(started)
      BY DEF JobsApart
    <3> HIDE DEF j
    <3> QED
      BY <1>0, <2>1, <2>2, <3>1, OneMore DEF TypeOfJobs
  <2>5. \A u, v \in Workers :
           worker'[u] = "call" /\ worker'[v] = "call" /\ Functor'[u] = Functor'[v] => u = v
    BY <1>0, <2>1 DEF JobsApart, TypeOfThreads
  <2> HIDE DEF j
  <2> QED
    BY <2>1, <2>2, <2>3, <2>4, <2>5 DEF JobsApart
<1> QED
  BY <1>1, <1>2, <1>3, <1>4, <1>5, <1>6, <1>7, <1>8, <1>9, <1>10
  DEF Next, Owner, Work, TryPop, EnqueueJob, JobEnqueues, JobThrows

LEMMA JobsAlwaysApart == Spec => []JobsApart
<1>1. Init => JobsApart
  BY DEF Init, JobsApart, InHand, Range, IsInjective
<1> QED
  BY <1>1, JobsApartKept, TypeCorrect, OwnerAndThreads, PTL DEF Spec

\* Jobs pass the queue in the order they were handed in.
InOrder == pushed = taken \o Queue \o dropped

LEMMA InOrderKept == TypeOK /\ OwnerOK /\ InOrder /\ [Next]_vars => InOrder'
<1> SUFFICES ASSUME TypeOK, OwnerOK, InOrder, [Next]_vars PROVE InOrder'
  OBVIOUS
<1>0. TypeOfJobs
  BY TypeOKParts
<1>u. ASSUME UNCHANGED <<pushed, taken, Queue, dropped>> PROVE InOrder'
  BY <1>u DEF InOrder
<1>1. CASE Destroyed
  <2>1. dropped = <<>> /\ dropped' = Queue /\ Queue' = <<>> /\ UNCHANGED <<pushed, taken>>
    BY <1>1 DEF Destroyed, OwnerOK
  <2>2. taken \o Queue \o <<>> = taken \o <<>> \o Queue
    BY <1>0, ConcatEmptySeq, ConcatProperties DEF TypeOfJobs
  <2> QED
    BY <2>1, <2>2 DEF InOrder
<1>2. ASSUME NEW j \in Jobs, Push(j), phase # "destroyed" PROVE InOrder'
  <2>1. /\ dropped = <<>> /\ UNCHANGED <<taken, dropped>>
        /\ pushed' = Append(pushed, j) /\ Queue' = Append(Queue, j)
    BY <1>2 DEF Push, OwnerOK
  <2>2. pushed = taken \o Queue
    BY <1>0, <2>1, ConcatEmptySeq, ConcatProperties DEF TypeOfJobs, InOrder
  <2>3. Append(taken \o Queue, j) = taken \o Append(Queue, j)
    <3>1. taken \in Seq(Jobs) /\ Queue \in Seq(Jobs) /\ j \in Jobs
      BY <1>0 DEF TypeOfJobs
    <3> QED
      BY <3>1
  <2>4. Append(Queue, j) \in Seq(Jobs)
    BY <1>0 DEF TypeOfJobs
  <2>5. taken \o Append(Queue, j) \o <<>> = taken \o Append(Queue, j)
    BY <1>0, <2>4, ConcatEmptySeq, ConcatProperties DEF TypeOfJobs
  <2> QED
    BY <2>1, <2>2, <2>3, <2>5 DEF InOrder
<1>3. ASSUME NEW w \in Workers, PopSucceeds(w) PROVE InOrder'
  <2>1. /\ Queue # <<>> /\ UNCHANGED <<pushed, dropped>>
        /\ taken' = Append(taken, Head(Queue)) /\ Queue' = Tail(Queue)
    BY <1>3 DEF PopSucceeds
  <2>2. taken' \o Queue' = taken \o Queue
    BY <1>0, <2>1, HeadToFirst DEF TypeOfJobs
  <2> QED
    BY <2>1, <2>2 DEF InOrder
<1>4. ASSUME NEW w \in Workers, NEW j \in Jobs, JobEnqueues(w, j) PROVE phase # "destroyed"
  BY <1>4 DEF JobEnqueues, OwnerOK
<1> QED
  BY <1>u, <1>1, <1>2, <1>3, <1>4
  DEF Next, Owner, Work, TryPop, EnqueueJob, JobEnqueues, JobThrows, Terminate, CreateThread,
      CreateThreadFails, Constructed, ClearPool, Join, TestFlag, TestEmpty, JobReturns,
      PopFails, Call, vars, poolVars, jobVars

\* Whatever the workers do between empty(), try_pop() and the call, jobs leave
\* the queue in order, and each one taken is begun once or still in one hand.
THEOREM Accounted == Spec => []JobsAccounted
<1>1. Init => InOrder
  BY DEF Init, InOrder
<1>2. InOrder /\ JobsApart => JobsAccounted
  BY DEF InOrder, JobsApart, JobsAccounted
<1> QED
  BY <1>1, <1>2, InOrderKept, TypeCorrect, OwnerAndThreads, JobsAlwaysApart, PTL DEF Spec

\* The pool is the job service, up to the promise that jobs go on being taken
\* and begun, which is a liveness property.
THEOREM Implements == Spec => Service!SafeSpec
<1>1. Init => Service!Init
  BY DEF Init, Service!Init, InHand
<1>2. TypeOK /\ OwnerOK /\ JobsApart /\ [Next]_vars => [Service!Next]_(Service!vars)
  <2> SUFFICES ASSUME TypeOK, OwnerOK, JobsApart, [Next]_vars
               PROVE  Service!Next \/ UNCHANGED Service!vars
    OBVIOUS
  <2> USE DEF Service!Next, Service!vars
  <2>0. TypeOfThreads /\ TypeOfOwner
    BY TypeOKParts
  <2>u. ASSUME UNCHANGED <<phase, terminated, Queue, started, InHand>>
        PROVE  UNCHANGED Service!vars
    BY <2>u
  <2>h. ASSUME UNCHANGED Functor, \A v \in Workers : worker'[v] = "call" <=> worker[v] = "call"
        PROVE  UNCHANGED InHand
    BY <2>h DEF InHand
  <2>1. CASE UNCHANGED vars
    BY <2>1, <2>u, <2>h DEF vars, poolVars, jobVars, threadVars
  <2>a. SUFFICES ASSUME ~terminated, Next PROVE Service!Next \/ UNCHANGED Service!vars
    BY <2>1 DEF Next
  <2>2. ASSUME Terminate, phase # "destroyed" PROVE Service!Crash
    BY <2>a, <2>2 DEF Terminate, Service!Crash, jobVars, poolVars
  <2>n. ASSUME \A v \in Workers : worker[v] # "call" PROVE InHand = {}
    BY <2>n DEF InHand
  <2>3. CASE CreateThreadFails
    <3>1. /\ phase = "constructing" /\ Queue = <<>> /\ InHand = {}
      <4>1. phase = "constructing" /\ Queue = <<>> /\ \A v \in Workers : worker[v] # "call"
        BY <2>3 DEF CreateThreadFails, OwnerOK
      <4> QED
        BY <2>n, <4>1
    <3>2. CASE index = 1 /\ phase' = "destroyed" /\ UNCHANGED <<jobVars, threadVars, terminated>>
      <4>1. InHand' = InHand
        BY <3>2 DEF InHand, threadVars
      <4> QED
        BY <2>a, <3>1, <3>2, <4>1 DEF Service!Close, jobVars
    <3> QED
      BY <2>2, <2>3, <3>1, <3>2 DEF CreateThreadFails
  <2>4. CASE Constructed \/ ClearPool
    <3>1. UNCHANGED InHand
      BY <2>4, <2>h DEF Constructed, ClearPool, threadVars
    <3> QED
      BY <2>a, <2>4, <3>1 DEF Constructed, ClearPool, jobVars
  <2>5. CASE Destroyed
    <3>1. \A v \in Workers : worker[v] = "returned"
      <4>1. \A v \in Workers : v < index
        BY <2>0, <2>5, WorkerCountAssumption DEF Destroyed, TypeOfOwner, Workers
      <4> QED
        BY <2>5, <4>1 DEF Destroyed, OwnerOK
    <3>2. InHand = {} /\ InHand' = InHand
      BY <2>5, <2>n, <2>h, <3>1 DEF Destroyed, threadVars
    <3> QED
      BY <2>a, <2>5, <3>2 DEF Destroyed, Service!Close
  <2>6. ASSUME NEW j \in Jobs, Push(j), phase # "destroyed" PROVE Service!Submit(j)
    <3>1. UNCHANGED InHand
      BY <2>6, <2>h DEF Push, threadVars
    <3> QED
      BY <2>a, <2>6, <3>1 DEF Push, Service!Submit, poolVars
  <2>7. ASSUME NEW w \in Workers, worker[w] = "pop", PopSucceeds(w) PROVE Service!Take
    <3>1. InHand' = InHand \cup {Head(Queue)}
      BY <2>0, <2>7 DEF PopSucceeds, Goes, InHand, TypeOfThreads
    <3> QED
      BY <2>a, <2>7, <3>1 DEF PopSucceeds, OwnerOK, Service!Take, poolVars
  <2>8. ASSUME NEW w \in Workers, Call(w)
        PROVE  Functor[w] \in Jobs /\ Service!Start(Functor[w])
    <3>1. Functor[w] \in Jobs /\ Functor[w] \in InHand
      BY <2>0, <2>8 DEF Call, InHand, TypeOfThreads
    <3>2. InHand' = InHand \ {Functor[w]}
      BY <2>0, <2>8 DEF Call, Goes, InHand, JobsApart, TypeOfThreads
    <3> QED
      BY <2>a, <2>8, <3>1, <3>2 DEF Call, OwnerOK, Service!Start, poolVars
  <2>9. ASSUME NEW w \in Workers, worker[w] \in {"call", "run"} PROVE phase # "destroyed"
    BY <2>9 DEF OwnerOK
  <2>10. ASSUME NEW w \in Workers, TestFlag(w) \/ TestEmpty(w) \/ JobReturns(w) \/ 
                                   (worker[w] = "pop" /\ PopFails(w))
        PROVE  UNCHANGED Service!vars
    <3>1. UNCHANGED InHand
      BY <2>0, <2>10, <2>h DEF TestFlag, TestEmpty, JobReturns, PopFails, Goes, TypeOfThreads
    <3> QED
      BY <2>u, <2>10, <3>1 DEF TestFlag, TestEmpty, JobReturns, PopFails, poolVars, jobVars
  <2>11. CASE CreateThread \/ Join
    <3>1. UNCHANGED InHand
      <4>1. CASE CreateThread
        <5>1. index \in Workers /\ worker[index] = "none"
          BY <2>0, <4>1, WorkerCountAssumption DEF CreateThread, Workers, OwnerOK, TypeOfOwner
        <5> QED
          BY <2>0, <2>h, <4>1, <5>1 DEF CreateThread, Goes, TypeOfThreads
      <4>2. CASE Join
        BY <2>h, <4>2 DEF Join, threadVars
      <4> QED
        BY <2>11, <4>1, <4>2
    <3> QED
      BY <2>u, <2>11, <3>1 DEF CreateThread, Join, jobVars
  <2> QED
    BY <2>a, <2>2, <2>3, <2>4, <2>5, <2>6, <2>7, <2>8, <2>9, <2>10, <2>11
    DEF Next, Owner, Work, TryPop, EnqueueJob, JobEnqueues, JobThrows
<1> QED
  BY <1>1, <1>2, TypeCorrect, OwnerAndThreads, JobsAlwaysApart, PTL DEF Spec, Service!SafeSpec
===============================================================================
