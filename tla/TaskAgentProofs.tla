---------------------------- MODULE TaskAgentProofs ----------------------------
(***************************************************************************)
(* Theorems of TaskAgent, for any number of tasks, agents and checks: where *)
(* the tasks are, what CheckHang's answers are worth, and that no agent     *)
(* outlives its destructor to tell.  Every step of Next belongs to one of   *)
(* four actors, and changes the queues or the variables of its own; the     *)
(* lemmas go by actor.                                                      *)
(***************************************************************************)
EXTENDS TaskAgent, TLAPS

USE DEF vars, queueVars, ownerVars, threadVars, checkVars, hangVars

\* The queues and what was handed in.
QueuesOK ==
    /\ RequestQueue \in Seq(Tasks) /\ added \in Seq(Tasks) /\ removed \in Seq(Tasks)
    /\ Tasklist \in [Agents -> Seq(Tasks)]
    /\ asked \subseteq Tasks /\ refused \subseteq Tasks

\* Owner, agent's thread and monitor.
FlagsOK ==
    /\ owner \in {"free", "joining", "~TaskAgent", "~Runnable", "destroyed",
                  "flushing", "spinning"}
    /\ thread \in {"none", "pop", "count", "do", "complete", "load", "store", "returned"}
    /\ monitor \in {"out", "loaded", "compared"}
    /\ Stop \in BOOLEAN /\ misled \in BOOLEAN /\ moved \in BOOLEAN /\ terminated \in BOOLEAN
    /\ busy \subseteq BOOLEAN

\* The hang counters and the values read of them.
CountersOK ==
    /\ loaded \in Nat /\ CurrentHangCheck \in Nat /\ PrevHangCheck \in Nat
    /\ seen \in Nat /\ checks \in Nat

\* The thread's task: it has one from the moment it pops it.
TasksOK ==
    /\ task \in Tasks \cup {NULL}
    /\ thread \in {"count", "do", "complete", "load", "store"} => task \in Tasks
    /\ ran \in Seq(Tasks) /\ completed \in Seq(Tasks)

Typed == QueuesOK /\ FlagsOK /\ CountersOK /\ TasksOK

LEMMA TypedInit == Init => Typed
<1>1. Init => QueuesOK
  BY DEF Init, QueuesOK
<1>2. Init => FlagsOK
  BY DEF Init, FlagsOK
<1>3. Init => CountersOK
  BY DEF Init, CountersOK
<1>4. Init => TasksOK
  BY DEF Init, TasksOK
<1> QED
  BY <1>1, <1>2, <1>3, <1>4 DEF Typed

LEMMA QueuesStep == QueuesOK /\ [Next]_vars => QueuesOK'
<1> SUFFICES ASSUME QueuesOK, [Next]_vars
             PROVE  QueuesOK'
  OBVIOUS
<1> USE DEF QueuesOK
<1>1. CASE UNCHANGED vars
  BY <1>1
<1>2. ASSUME NEW t \in Tasks, AddTask(t) PROVE QueuesOK'
  BY <1>2 DEF AddTask, HandIn
<1>3. ASSUME NEW t \in Tasks, NEW n \in RandomAgent, AddTaskAgentid(t, n) PROVE QueuesOK'
  <2>1. Tasklist' \in [Agents -> Seq(Tasks)]
    <3>1. CASE n \in DOMAIN Tasklist /\ Tasklist' = [Tasklist EXCEPT ![n] = Append(@, t)]
      BY <3>1
    <3>2. CASE UNCHANGED Tasklist
      BY <3>2
    <3> QED
      BY <1>3, <3>1, <3>2 DEF AddTaskAgentid
  <2>2. asked' \subseteq Tasks /\ refused' \subseteq Tasks
    BY <1>3 DEF AddTaskAgentid, HandIn
  <2> QED
    BY <1>3, <2>1, <2>2 DEF AddTaskAgentid
<1>4. CASE Start \/ RaiseStop("joining") \/ RaiseStop("~TaskAgent") \/ Flush
           \/ DequeCompletedTask \/ DestroyTaskManager \/ LambdaThrows
  BY <1>4 DEF Start, RaiseStop, Flush, DequeCompletedTask, DestroyTaskManager, LambdaThrows,
              Terminate
<1>5. CASE Joins
  BY <1>5 DEF Joins, Join, Terminate
<1>6. ASSUME RequestQueue # <<>>, RequestQueue' = Tail(RequestQueue),
             removed' = Append(removed, Head(RequestQueue)),
             UNCHANGED <<Tasklist, asked, added, refused>>
      PROVE  QueuesOK'
  BY <1>6
<1>7. CASE Flushes
  BY <1>6, <1>7 DEF Flushes
<1>8. CASE TryPop
  BY <1>6, <1>8 DEF TryPop
<1>9. CASE Count \/ Do \/ CompleteDo \/ LoadPrev \/ StorePrev
  BY <1>9 DEF Count, Do, CompleteDo, LoadPrev, StorePrev
<1>10. CASE CheckHang \/ CompareHangCheck \/ StoreHangCheck
  BY <1>10 DEF CheckHang, CompareHangCheck, StoreHangCheck
<1> QED
  BY <1>1, <1>2, <1>3, <1>4, <1>5, <1>7, <1>8, <1>9, <1>10 DEF Next, DoWork

LEMMA FlagsStep == FlagsOK /\ [Next]_vars => FlagsOK'
<1> SUFFICES ASSUME FlagsOK, [Next]_vars
             PROVE  FlagsOK'
  OBVIOUS
<1> USE DEF FlagsOK
<1>1. CASE UNCHANGED vars
  BY <1>1
<1>2. ASSUME NEW t \in Tasks, AddTask(t) \/ \E n \in RandomAgent : AddTaskAgentid(t, n)
      PROVE  FlagsOK'
  BY <1>2 DEF AddTask, AddTaskAgentid
<1>3. CASE Start \/ RaiseStop("joining") \/ RaiseStop("~TaskAgent") \/ Flush
           \/ DequeCompletedTask \/ DestroyTaskManager \/ LambdaThrows
  BY <1>3 DEF Start, RaiseStop, Flush, DequeCompletedTask, DestroyTaskManager, LambdaThrows,
              Terminate, Owner
<1>4. CASE Joins
  BY <1>4 DEF Joins, Join, Terminate, Owner
<1>5. CASE Flushes
  BY <1>5 DEF Flushes, Owner
<1>6. CASE DoWork
  BY <1>6 DEF DoWork, TryPop, Count, Do, CompleteDo, LoadPrev, StorePrev, Goes
<1>7. CASE CheckHang
  <2>1. InTask \in BOOLEAN
    BY DEF InTask
  <2> QED
    BY <1>7, <2>1 DEF CheckHang
<1>8. CASE CompareHangCheck
  BY <1>8 DEF CompareHangCheck
<1>9. CASE StoreHangCheck
  BY <1>9 DEF StoreHangCheck
<1> QED
  BY <1>1, <1>2, <1>3, <1>4, <1>5, <1>6, <1>7, <1>8, <1>9 DEF Next

LEMMA CountersStep == CountersOK /\ [Next]_vars => CountersOK'
<1> SUFFICES ASSUME CountersOK, [Next]_vars
             PROVE  CountersOK'
  OBVIOUS
<1> USE DEF CountersOK
<1>1. CASE UNCHANGED vars
  BY <1>1
<1>2. ASSUME NEW t \in Tasks, AddTask(t) \/ \E n \in RandomAgent : AddTaskAgentid(t, n)
      PROVE  CountersOK'
  BY <1>2 DEF AddTask, AddTaskAgentid
<1>3. CASE Start \/ RaiseStop("joining") \/ RaiseStop("~TaskAgent") \/ Flush
           \/ DequeCompletedTask \/ DestroyTaskManager \/ LambdaThrows
  BY <1>3 DEF Start, RaiseStop, Flush, DequeCompletedTask, DestroyTaskManager, LambdaThrows,
              Terminate
<1>4. CASE Joins \/ Flushes
  BY <1>4 DEF Joins, Join, Terminate, Flushes
<1>5. CASE TryPop \/ Do \/ CompleteDo
  BY <1>5 DEF TryPop, Do, CompleteDo
<1>6. CASE Count
  BY <1>6 DEF Count
<1>7. CASE LoadPrev
  BY <1>7 DEF LoadPrev
<1>8. CASE StorePrev
  BY <1>8 DEF StorePrev
<1>9. CASE CheckHang \/ CompareHangCheck \/ StoreHangCheck
  BY <1>9 DEF CheckHang, CompareHangCheck, StoreHangCheck
<1> QED
  BY <1>1, <1>2, <1>3, <1>4, <1>5, <1>6, <1>7, <1>8, <1>9 DEF Next, DoWork

LEMMA TasksStep == QueuesOK /\ TasksOK /\ [Next]_vars => TasksOK'
<1> SUFFICES ASSUME QueuesOK, TasksOK, [Next]_vars
             PROVE  TasksOK'
  OBVIOUS
<1> USE DEF TasksOK
<1>1. CASE UNCHANGED vars
  BY <1>1
<1>2. ASSUME NEW t \in Tasks, AddTask(t) \/ \E n \in RandomAgent : AddTaskAgentid(t, n)
      PROVE  TasksOK'
  BY <1>2 DEF AddTask, AddTaskAgentid
<1>3. CASE Start \/ RaiseStop("joining") \/ RaiseStop("~TaskAgent") \/ Flush
           \/ DequeCompletedTask \/ DestroyTaskManager \/ LambdaThrows
  BY <1>3 DEF Start, RaiseStop, Flush, DequeCompletedTask, DestroyTaskManager, LambdaThrows,
              Terminate
<1>4. CASE Joins \/ Flushes
  BY <1>4 DEF Joins, Join, Terminate, Flushes
<1>5. CASE TryPop
  BY <1>5 DEF TryPop, Goes, QueuesOK
<1>6. CASE Count \/ LoadPrev \/ StorePrev
  BY <1>6 DEF Count, LoadPrev, StorePrev, Goes
<1>7. CASE Do
  <2>1. task \in Tasks /\ ran' = Append(ran, task) /\ UNCHANGED <<task, completed>>
    BY <1>7 DEF Do
  <2> QED
    BY <2>1
<1>8. CASE CompleteDo
  <2>1. task \in Tasks /\ completed' = Append(completed, task) /\ UNCHANGED <<task, ran>>
    BY <1>8 DEF CompleteDo
  <2> QED
    BY <2>1
<1>9. CASE CheckHang \/ CompareHangCheck \/ StoreHangCheck
  BY <1>9 DEF CheckHang, CompareHangCheck, StoreHangCheck
<1> QED
  BY <1>1, <1>2, <1>3, <1>4, <1>5, <1>6, <1>7, <1>8, <1>9 DEF Next, DoWork

LEMMA TypedStep == Typed /\ [Next]_vars => Typed'
BY QueuesStep, FlagsStep, CountersStep, TasksStep DEF Typed

\* The variables of the agents, their tasks and their threads keep to their types.
THEOREM AgentsTyped == Spec => []TypeOK
<1>1. Typed => TypeOK
  BY DEF Typed, QueuesOK, FlagsOK, CountersOK, TasksOK, TypeOK
<1> QED
  BY <1>1, TypedInit, TypedStep, PTL DEF Spec

-------------------------------------------------------------------------------
(* The destructor: after the first join nobody can start the thread again.   *)
Destroying == owner # "destroyed" /\ (owner = "~Runnable" => thread = "none")

LEMMA DestroyingStep == Destroying /\ [Next]_vars => Destroying'
<1> SUFFICES ASSUME Destroying, [Next]_vars
             PROVE  Destroying'
  OBVIOUS
<1> USE DEF Destroying
<1>1. CASE UNCHANGED vars
  BY <1>1
<1>2. ASSUME NEW t \in Tasks, AddTask(t) \/ \E n \in RandomAgent : AddTaskAgentid(t, n)
      PROVE  Destroying'
  BY <1>2 DEF AddTask, AddTaskAgentid
<1>3. CASE Start \/ RaiseStop("joining") \/ RaiseStop("~TaskAgent") \/ Flush
           \/ DequeCompletedTask \/ DestroyTaskManager \/ LambdaThrows
  BY <1>3 DEF Start, RaiseStop, Flush, DequeCompletedTask, DestroyTaskManager, LambdaThrows,
              Terminate, Owner
<1>4. CASE Joins
  BY <1>4 DEF Joins, Join, Terminate, Owner
<1>5. CASE Flushes
  BY <1>5 DEF Flushes, Owner
<1>6. CASE DoWork
  BY <1>6 DEF DoWork, TryPop, Count, Do, CompleteDo, LoadPrev, StorePrev, Goes
<1>7. CASE CheckHang \/ CompareHangCheck \/ StoreHangCheck
  BY <1>7 DEF CheckHang, CompareHangCheck, StoreHangCheck
<1> QED
  BY <1>1, <1>2, <1>3, <1>4, <1>5, <1>6, <1>7 DEF Next

\* No destructor of a TaskAgent comes to its end: Runnable's own destructor joins
\* a thread TaskAgent's has joined already, and the process ends.
THEOREM DestructorAlwaysEnds == Spec => []DestructorNeverReturns
<1>1. Init => Destroying
  BY DEF Init, Destroying
<1>2. Destroying => DestructorNeverReturns
  BY DEF Destroying, DestructorNeverReturns
<1> QED
  BY <1>1, <1>2, DestroyingStep, PTL DEF Spec

-------------------------------------------------------------------------------
(* CheckHang.  Until one of its calls has moved _PrevHangCheck, the two       *)
(* counters differ by one while a task runs and are equal otherwise; so what  *)
(* it loaded differs from what it compares with in a way that was right at    *)
(* some moment since.                                                         *)
Counted ==
    ~moved => /\ InTask => CurrentHangCheck = PrevHangCheck + 1
              /\ ~InTask => CurrentHangCheck = PrevHangCheck
              /\ thread = "store" => loaded = PrevHangCheck

WasBusy == TRUE \in busy
WasIdle == FALSE \in busy

\* What is so now was so, and so was what the loaded value still tells of.
Witnessed ==
    monitor = "loaded" =>
        /\ InTask => WasBusy
        /\ ~InTask => WasIdle
        /\ ~moved => \/ InTask /\ seen = PrevHangCheck + 1
                     \/ seen = PrevHangCheck /\ WasIdle
                     \/ seen < PrevHangCheck /\ WasBusy

HangInv == Counted /\ Witnessed /\ HangAnswered

LEMMA HangInit == Init => HangInv
BY DEF Init, HangInv, Counted, Witnessed, HangAnswered, InTask

\* What a step that touches neither the counters nor CheckHang must not do.
LEMMA HangElsewhere ==
    ASSUME HangInv, UNCHANGED hangVars, InTask' <=> InTask, thread' # "store"
    PROVE  HangInv'
BY DEF HangInv, Counted, Witnessed, WasBusy, WasIdle, HangAnswered

LEMMA HangThreadKept ==
    ASSUME HangInv, UNCHANGED <<hangVars, thread, loaded>>
    PROVE  HangInv'
BY DEF HangInv, Counted, Witnessed, WasBusy, WasIdle, HangAnswered, InTask

LEMMA HangStep == Typed /\ HangInv /\ [Next]_vars => HangInv'
<1> SUFFICES ASSUME Typed, HangInv, [Next]_vars
             PROVE  HangInv'
  OBVIOUS
<1>1. CASE UNCHANGED vars
  BY <1>1, HangThreadKept
<1>2. ASSUME NEW t \in Tasks, AddTask(t) \/ \E n \in RandomAgent : AddTaskAgentid(t, n)
      PROVE  HangInv'
  BY <1>2, HangThreadKept DEF AddTask, AddTaskAgentid
<1>3. CASE RaiseStop("joining") \/ RaiseStop("~TaskAgent") \/ Flush
           \/ DequeCompletedTask \/ DestroyTaskManager \/ LambdaThrows
  BY <1>3, HangThreadKept DEF RaiseStop, Flush, DequeCompletedTask, DestroyTaskManager,
                              LambdaThrows, Terminate
<1>4. CASE Start
  <2>1. CASE Terminate
    BY <2>1, HangThreadKept DEF Terminate
  <2>2. CASE thread = "none" /\ thread' = "pop" /\ UNCHANGED hangVars
    BY <2>2, HangElsewhere DEF InTask
  <2> QED
    BY <1>4, <2>1, <2>2 DEF Start
<1>5. ASSUME NEW from, NEW to, Join(from, to)
      PROVE  HangInv'
  <2>1. CASE UNCHANGED <<hangVars, thread, loaded>>
    BY <2>1, HangThreadKept
  <2>2. CASE thread = "returned" /\ thread' = "none" /\ UNCHANGED hangVars
    BY <2>2, HangElsewhere DEF InTask
  <2> QED
    BY <1>5, <2>1, <2>2 DEF Join, Terminate
<1>6. CASE Flushes
  BY <1>6, HangThreadKept DEF Flushes
<1>7. CASE TryPop
  BY <1>7, HangElsewhere DEF TryPop, Goes, InTask
<1>8. CASE Do
  <2>1. thread = "do" /\ thread' \in {"complete", "load"} /\ UNCHANGED hangVars
    BY <1>8 DEF Do, Goes
  <2> QED
    BY <2>1, HangElsewhere DEF InTask
<1>9. CASE CompleteDo
  BY <1>9, HangElsewhere DEF CompleteDo, Goes, InTask
<1>10. CASE LoadPrev
  BY <1>10 DEF LoadPrev, Goes, HangInv, Counted, Witnessed, WasBusy, WasIdle, HangAnswered,
               InTask
<1> USE DEF Typed, FlagsOK, CountersOK
<1>11. CASE Count
  <2>1. ~InTask /\ InTask'
    BY <1>11 DEF Count, Goes, InTask
  <2>2. /\ thread' # "store" /\ CurrentHangCheck' = CurrentHangCheck + 1
        /\ busy' = busy \cup {TRUE} /\ UNCHANGED <<PrevHangCheck, checkVars>>
    BY <1>11 DEF Count, Goes
  <2>3. Counted'
    BY <2>1, <2>2 DEF Counted, HangInv
  <2>4. WasBusy' /\ (WasIdle => WasIdle')
    BY <2>2 DEF WasBusy, WasIdle
  <2>5. Witnessed'
    BY <2>1, <2>2, <2>4 DEF Witnessed, HangInv
  <2> QED
    BY <2>2, <2>3, <2>5 DEF HangAnswered, HangInv
<1>12. CASE StorePrev
  <2>1. InTask /\ ~InTask' /\ thread = "store" /\ thread' = "pop"
    BY <1>12 DEF StorePrev, Goes, InTask
  <2>2. /\ PrevHangCheck' = loaded + 1
        /\ busy' = busy \cup {FALSE} /\ UNCHANGED <<CurrentHangCheck, checkVars>>
    BY <1>12 DEF StorePrev
  <2>3. Counted'
    BY <2>1, <2>2 DEF Counted, HangInv
  <2>4. WasIdle' /\ (WasBusy => WasBusy')
    BY <2>2 DEF WasBusy, WasIdle
  <2>5. ~moved => PrevHangCheck' = PrevHangCheck + 1
    BY <2>1, <2>2 DEF Counted, HangInv
  <2>6. Witnessed'
    BY <2>1, <2>2, <2>4, <2>5 DEF Witnessed, HangInv
  <2> QED
    BY <2>2, <2>3, <2>6 DEF HangAnswered, HangInv
<1>13. CASE CheckHang
  <2>1. /\ seen' = CurrentHangCheck /\ busy' = {InTask}
        /\ UNCHANGED <<thread, loaded, CurrentHangCheck, PrevHangCheck, misled, moved>>
    BY <1>13 DEF CheckHang
  <2>2. InTask' <=> InTask
    BY <2>1 DEF InTask
  <2>3. (InTask => WasBusy') /\ (~InTask => WasIdle')
    <3>1. InTask => InTask = TRUE
      BY DEF InTask
    <3>2. ~InTask => InTask = FALSE
      BY DEF InTask
    <3> QED
      BY <2>1, <3>1, <3>2, Zenon DEF WasBusy, WasIdle
  <2>4. Counted'
    BY <2>1, <2>2 DEF Counted, HangInv
  <2>5. Witnessed'
    BY <2>1, <2>2, <2>3 DEF Witnessed, Counted, HangInv
  <2> QED
    BY <2>1, <2>4, <2>5 DEF HangAnswered, HangInv
<1>14. CASE CompareHangCheck
  <2>1. /\ monitor = "loaded" /\ monitor' = "compared"
        /\ misled' = (misled \/ (seen # PrevHangCheck) \notin busy)
        /\ UNCHANGED <<thread, loaded, CurrentHangCheck, PrevHangCheck, moved>>
    BY <1>14 DEF CompareHangCheck
  <2>2. ~moved => (seen # PrevHangCheck) \in busy
    <3>1. CASE ~moved /\ seen = PrevHangCheck
      <4>1. WasIdle
        BY <2>1, <3>1 DEF HangInv, Witnessed
      <4> QED
        BY <3>1, <4>1 DEF WasIdle
    <3>2. CASE ~moved /\ seen # PrevHangCheck
      <4>1. WasBusy
        BY <2>1, <3>2 DEF HangInv, Witnessed
      <4> QED
        BY <3>2, <4>1 DEF WasBusy
    <3> QED
      BY <3>1, <3>2
  <2>3. HangAnswered'
    BY <2>1, <2>2 DEF HangInv, HangAnswered
  <2>4. InTask' <=> InTask
    BY <2>1 DEF InTask
  <2> QED
    BY <2>1, <2>3, <2>4 DEF HangInv, Counted, Witnessed
<1>15. CASE StoreHangCheck
  <2>1. /\ monitor' = "out" /\ moved' = (moved \/ PrevHangCheck' # PrevHangCheck)
        /\ UNCHANGED <<thread, loaded, CurrentHangCheck, misled>>
    BY <1>15 DEF StoreHangCheck
  <2>2. InTask' <=> InTask
    BY <2>1 DEF InTask
  <2>3. ~moved' => ~moved /\ PrevHangCheck' = PrevHangCheck
    BY <2>1
  <2> QED
    BY <2>1, <2>2, <2>3 DEF HangInv, Counted, Witnessed, HangAnswered
<1> QED
  BY <1>1, <1>2, <1>3, <1>4, <1>5, <1>6, <1>7, <1>8, <1>9, <1>10, <1>11, <1>12, <1>13, <1>14,
     <1>15 DEF Next, DoWork, Joins

\* CheckHang answers something that was so at some moment of the call, for as
\* long as none of its calls has moved _PrevHangCheck.
THEOREM HangAlwaysAnswered == Spec => []HangAnswered
<1>1. HangInv => HangAnswered
  BY DEF HangInv
<1>2. Spec => []Typed
  BY TypedInit, TypedStep, PTL DEF Spec
<1> QED
  BY <1>1, <1>2, HangInit, HangStep, PTL DEF Spec

-------------------------------------------------------------------------------
(* Where the tasks are.  Sequences that grow at their end by elements they do *)
(* not have keep order and distinctness.                                      *)
LEMMA InAppend ==
    ASSUME NEW S, NEW s \in Seq(S), NEW e \in S, NEW t
    PROVE  In(t, Append(s, e)) <=> In(t, s) \/ t = e
<1> DEFINE r == Append(s, e)
<1>1. Len(s) \in Nat /\ Len(r) = Len(s) + 1 /\ r[Len(s) + 1] = e
  OBVIOUS
<1>2. \A i \in 1..Len(s) : r[i] = s[i]
  OBVIOUS
<1> HIDE DEF r
<1>3. In(t, s) => In(t, r)
  BY <1>1, <1>2 DEF In
<1>4. In(e, r)
  BY <1>1 DEF In
<1>5. In(t, r) => In(t, s) \/ t = e
  <2> SUFFICES ASSUME NEW i \in 1..Len(r), r[i] = t
               PROVE  In(t, s) \/ t = e
    BY DEF In
  <2>1. i \in 1..Len(s) \/ i = Len(s) + 1
    BY <1>1
  <2> QED
    BY <2>1, <1>1, <1>2 DEF In
<1> QED
  BY <1>3, <1>4, <1>5 DEF r

LEMMA NoRepeatAppend ==
    ASSUME NEW S, NEW s \in Seq(S), NEW e \in S, NoRepeat(s), ~In(e, s)
    PROVE  NoRepeat(Append(s, e))
<1> DEFINE r == Append(s, e)
<1>1. Len(s) \in Nat /\ Len(r) = Len(s) + 1 /\ r[Len(s) + 1] = e
  OBVIOUS
<1>2. \A i \in 1..Len(s) : r[i] = s[i] /\ s[i] # e
  BY DEF In
<1> HIDE DEF r
<1>3. SUFFICES ASSUME NEW i \in 1..Len(r), NEW j \in 1..Len(r), r[i] = r[j]
               PROVE  i = j
  BY DEF NoRepeat, r
<1>4. (i \in 1..Len(s) \/ i = Len(s) + 1) /\ (j \in 1..Len(s) \/ j = Len(s) + 1)
  BY <1>1
<1> QED
  BY <1>1, <1>2, <1>3, <1>4 DEF NoRepeat

LEMMA BeforeAppend ==
    ASSUME NEW S, NEW s \in Seq(S), NEW e \in S, NEW t, NEW u
    PROVE  /\ Before(t, u, s) => Before(t, u, Append(s, e))
           /\ In(t, s) => Before(t, e, Append(s, e))
<1> DEFINE r == Append(s, e)
<1>1. Len(s) \in Nat /\ Len(r) = Len(s) + 1 /\ r[Len(s) + 1] = e
  OBVIOUS
<1>2. \A i \in 1..Len(s) : r[i] = s[i]
  OBVIOUS
<1> HIDE DEF r
<1>3. \A i \in 1..Len(s) : i \in 1..Len(r) /\ Len(s) + 1 \in 1..Len(r) /\ i < Len(s) + 1
  BY <1>1
<1>4. Before(t, u, s) => Before(t, u, r)
  BY <1>2, <1>3 DEF Before
<1>5. In(t, s) => Before(t, e, r)
  BY <1>1, <1>2, <1>3 DEF In, Before
<1> QED
  BY <1>4, <1>5 DEF r

\* The head of a queue goes over to what was taken from it.
LEMMA HeadMoves ==
    ASSUME NEW S, NEW r \in Seq(S), NEW q \in Seq(S), q # <<>>
    PROVE  /\ Head(q) \in S /\ Tail(q) \in Seq(S)
           /\ r \o q = Append(r, Head(q)) \o Tail(q)
           /\ NoRepeat(r \o q) => ~In(Head(q), r)
<1>1. Head(q) \in S /\ Tail(q) \in Seq(S)
  OBVIOUS
<1>2. r \o q = Append(r, Head(q)) \o Tail(q)
  OBVIOUS
<1>3. ASSUME NoRepeat(r \o q) PROVE ~In(Head(q), r)
  <2> DEFINE a == r \o q
  <2>1. Len(r) \in Nat /\ Len(q) \in Nat /\ Len(q) >= 1 /\ Len(a) = Len(r) + Len(q)
    OBVIOUS
  <2>2. a[Len(r) + 1] = Head(q) /\ \A i \in 1..Len(r) : a[i] = r[i]
    OBVIOUS
  <2>3. NoRepeat(a)
    BY <1>3
  <2> HIDE DEF a
  <2>4. Len(r) + 1 \in 1..Len(a) /\ \A i \in 1..Len(r) : i \in 1..Len(a) /\ i # Len(r) + 1
    BY <2>1
  <2> QED
    BY <2>2, <2>3, <2>4 DEF NoRepeat, In
<1> QED
  BY <1>1, <1>2, <1>3

\* What AddTask, AddTaskAgentid and HandIn have done with a task.
With(t, n) == In(t, Tasklist[n])

Placed == /\ NoRepeat(added)
          /\ \A t \in Tasks : In(t, added) \/ t \in refused => t \in asked
          /\ \A t \in Tasks, n \in Agents : With(t, n) => t \in asked

\* The task in hand was taken from the queue, and has not run before Do.
InHand == thread \in {"count", "do"} => In(task, removed) /\ ~In(task, ran)

AccountInv == Placed /\ InHand /\ TasksAccounted

LEMMA AccountInit == Init => AccountInv
<1> SUFFICES ASSUME Init PROVE AccountInv
  OBVIOUS
<1>1. /\ RequestQueue = <<>> /\ added = <<>> /\ removed = <<>> /\ ran = <<>> /\ completed = <<>>
      /\ Tasklist = [n \in Agents |-> <<>>] /\ asked = {} /\ refused = {} /\ thread = "none"
  BY DEF Init
<1>2. \A t : ~In(t, <<>>)
  BY DEF In
<1>3. NoRepeat(<<>>)
  BY DEF NoRepeat
<1>4. \A n \in Agents : Tasklist[n] = <<>>
  BY <1>1
<1>5. Placed /\ InHand
  BY <1>1, <1>2, <1>3, <1>4, Zenon DEF Placed, InHand, With
<1>6. QueueAccounted
  BY <1>1 DEF QueueAccounted
<1>7. RunAccounted
  BY <1>1, <1>2, <1>3, Zenon DEF RunAccounted
<1>8. CompletionAccounted
  <2>1. Completions = <<>>
    BY <1>1 DEF Completions
  <2>2. \A i \in 1..Len(<<>>) : FALSE
    OBVIOUS
  <2> QED
    BY <1>1, <1>2, <2>1, <2>2, Zenon DEF CompletionAccounted
<1>9. PlacesAccounted
  BY <1>1, <1>2, <1>4, Zenon DEF PlacesAccounted
<1> QED
  BY <1>5, <1>6, <1>7, <1>8, <1>9 DEF AccountInv, TasksAccounted

\* Steps of the owner and of CheckHang, and of the thread with no lambda to call.
LEMMA AccountKept ==
    ASSUME AccountInv, UNCHANGED <<queueVars, removed, thread, task, ran, completed>>
    PROVE  AccountInv'
BY DEF AccountInv, Placed, With, InHand, TasksAccounted, QueueAccounted, RunAccounted,
       CompletionAccounted, Completions, PlacesAccounted

LEMMA AccountElsewhere ==
    ASSUME AccountInv, UNCHANGED <<queueVars, removed, ran, completed>>,
           thread # "complete", thread' \notin {"count", "do", "complete"}
    PROVE  AccountInv'
<1>1. InHand'
  BY DEF InHand
<1>2. Completions' = Completions
  BY DEF Completions
<1> QED
  BY <1>1, <1>2 DEF AccountInv, Placed, With, TasksAccounted, QueueAccounted, RunAccounted,
                    CompletionAccounted, PlacesAccounted

\* A task popped, by Flush or by the thread, is one that was not popped before.
LEMMA TaskTaken ==
    ASSUME Typed, AccountInv, RequestQueue # <<>>, RequestQueue' = Tail(RequestQueue),
           removed' = Append(removed, Head(RequestQueue)),
           UNCHANGED <<Tasklist, asked, added, refused, ran>>
    PROVE  /\ Placed' /\ QueueAccounted' /\ RunAccounted' /\ PlacesAccounted'
           /\ In(Head(RequestQueue), removed') /\ ~In(Head(RequestQueue), ran)
           /\ \A t : In(t, removed) => In(t, removed')
<1>1. /\ removed \in Seq(Tasks) /\ RequestQueue \in Seq(Tasks)
      /\ Placed /\ QueueAccounted /\ RunAccounted /\ PlacesAccounted
  BY DEF Typed, QueuesOK, AccountInv, TasksAccounted
<1>2. /\ Head(RequestQueue) \in Tasks
      /\ removed \o RequestQueue = removed' \o RequestQueue'
      /\ NoRepeat(added) => ~In(Head(RequestQueue), removed)
  BY <1>1, HeadMoves DEF QueueAccounted
<1>3. \A t : In(t, removed') <=> In(t, removed) \/ t = Head(RequestQueue)
  BY <1>1, <1>2, InAppend
<1>4. Placed' /\ QueueAccounted' /\ PlacesAccounted'
  BY <1>1, <1>2 DEF Placed, With, QueueAccounted, PlacesAccounted
<1>5. RunAccounted'
  BY <1>1, <1>3 DEF RunAccounted
<1>6. ~In(Head(RequestQueue), ran)
  BY <1>1, <1>2 DEF RunAccounted, Placed
<1> QED
  BY <1>3, <1>4, <1>5, <1>6

LEMMA AccountAdd ==
    ASSUME Typed, AccountInv, NEW t \in Tasks, AddTask(t)
    PROVE  AccountInv'
<1>1. /\ removed \in Seq(Tasks) /\ RequestQueue \in Seq(Tasks) /\ added \in Seq(Tasks)
      /\ Tasklist \in [Agents -> Seq(Tasks)]
  BY DEF Typed, QueuesOK
<1>2. /\ t \notin asked /\ asked' = asked \cup {t}
      /\ RequestQueue' = Append(RequestQueue, t) /\ added' = Append(added, t)
      /\ UNCHANGED <<Tasklist, refused, removed, thread, task, ran, completed>>
  BY DEF AddTask, HandIn
<1>3. Placed /\ InHand /\ QueueAccounted /\ RunAccounted /\ CompletionAccounted /\ PlacesAccounted
  BY DEF AccountInv, TasksAccounted
<1>4. ~In(t, added) /\ t \notin refused /\ \A n \in Agents : ~With(t, n)
  BY <1>2, <1>3 DEF Placed
<1>5. \A u : In(u, added') <=> In(u, added) \/ u = t
  BY <1>1, <1>2, InAppend
<1>6. NoRepeat(added')
  BY <1>1, <1>2, <1>3, <1>4, NoRepeatAppend DEF Placed
<1>7. Placed'
  BY <1>2, <1>3, <1>5, <1>6 DEF Placed, With
<1>8. QueueAccounted'
  <2>1. removed \o Append(RequestQueue, t) = Append(removed \o RequestQueue, t)
    BY <1>1
  <2> QED
    BY <1>2, <1>3, <2>1 DEF QueueAccounted
<1>9. InHand' /\ RunAccounted' /\ CompletionAccounted'
  BY <1>2, <1>3 DEF InHand, RunAccounted, CompletionAccounted, Completions
<1>10. PlacesAccounted'
  <2>1. DOMAIN Tasklist = Agents
    BY <1>1
  <2> QED
    BY <1>2, <1>3, <1>4, <1>5, <2>1 DEF PlacesAccounted, With
<1> QED
  BY <1>7, <1>8, <1>9, <1>10 DEF AccountInv, TasksAccounted

LEMMA AccountRoute ==
    ASSUME Typed, AccountInv, NEW t \in Tasks, NEW n \in RandomAgent, AddTaskAgentid(t, n)
    PROVE  AccountInv'
<1>1. Tasklist \in [Agents -> Seq(Tasks)] /\ DOMAIN Tasklist = Agents
  BY DEF Typed, QueuesOK
<1>2. /\ t \notin asked /\ asked' = asked \cup {t}
      /\ UNCHANGED <<RequestQueue, added, removed, thread, task, ran, completed>>
  BY DEF AddTaskAgentid, HandIn
<1>3. Placed /\ InHand /\ QueueAccounted /\ RunAccounted /\ CompletionAccounted /\ PlacesAccounted
  BY DEF AccountInv, TasksAccounted
<1>4. ~In(t, added) /\ t \notin refused /\ \A m \in Agents : ~With(t, m)
  BY <1>2, <1>3 DEF Placed
<1>5. InHand' /\ QueueAccounted' /\ RunAccounted' /\ CompletionAccounted'
  BY <1>2, <1>3 DEF InHand, QueueAccounted, RunAccounted, CompletionAccounted, Completions
<1>6. CASE /\ n \in DOMAIN Tasklist /\ Tasklist' = [Tasklist EXCEPT ![n] = Append(@, t)]
           /\ UNCHANGED refused
  <2>1. /\ DOMAIN Tasklist' = Agents /\ Tasklist'[n] = Append(Tasklist[n], t)
        /\ \A m \in Agents : m # n => Tasklist'[m] = Tasklist[m]
    BY <1>1, <1>6
  <2>2. n \in Agents /\ Tasklist[n] \in Seq(Tasks)
    BY <1>1, <1>6
  <2>3. \A u : In(u, Tasklist'[n]) <=> In(u, Tasklist[n]) \/ u = t
    BY <2>1, <2>2, InAppend
  <2>4. \A u : \A m \in Agents : In(u, Tasklist'[m]) <=> In(u, Tasklist[m]) \/ (u = t /\ m = n)
    BY <2>1, <2>3
  <2>5. Placed'
    <3>1. \A u \in Tasks, m \in Agents : In(u, Tasklist'[m]) => u \in asked'
      BY <1>2, <1>3, <2>4 DEF Placed, With
    <3> QED
      BY <1>2, <1>3, <1>6, <3>1 DEF Placed, With
  <2>6. PlacesAccounted'
    <3>1. \A u \in asked' : \/ In(u, added) \/ u \in refused
                             \/ \E m \in Agents : In(u, Tasklist'[m])
      BY <1>1, <1>2, <1>3, <2>2, <2>4 DEF PlacesAccounted
    <3>2. \A u \in Tasks, m, k \in Agents :
             In(u, Tasklist'[m]) => /\ ~In(u, added) /\ u \notin refused
                                    /\ In(u, Tasklist'[k]) => m = k
      BY <1>1, <1>3, <1>4, <2>4 DEF PlacesAccounted, With
    <3> QED
      BY <1>2, <1>6, <2>1, <3>1, <3>2 DEF PlacesAccounted
  <2> QED
    BY <1>5, <2>5, <2>6 DEF AccountInv, TasksAccounted
<1>7. CASE refused' = refused \cup {t} /\ UNCHANGED Tasklist
  <2>1. Placed'
    BY <1>2, <1>3, <1>7 DEF Placed, With
  <2>2. PlacesAccounted'
    BY <1>1, <1>2, <1>3, <1>4, <1>7 DEF PlacesAccounted, With
  <2> QED
    BY <1>5, <2>1, <2>2 DEF AccountInv, TasksAccounted
<1> QED
  BY <1>6, <1>7 DEF AddTaskAgentid

LEMMA AccountDo ==
    ASSUME Typed, AccountInv, Do
    PROVE  AccountInv'
<1>1. /\ thread = "do" /\ ran' = Append(ran, task)
      /\ thread' = IF task \in WithCompletion THEN "complete" ELSE "load"
      /\ UNCHANGED <<queueVars, removed, task, completed>>
  BY DEF Do, Goes, IsEmptyCompleteLambda
<1>2. task \in Tasks /\ ran \in Seq(Tasks) /\ completed \in Seq(Tasks)
  BY <1>1 DEF Typed, TasksOK
<1>3. Placed /\ InHand /\ QueueAccounted /\ RunAccounted /\ CompletionAccounted /\ PlacesAccounted
  BY DEF AccountInv, TasksAccounted
<1>4. In(task, removed) /\ ~In(task, ran)
  BY <1>1, <1>3 DEF InHand
<1>5. \A t : In(t, ran') <=> In(t, ran) \/ t = task
  BY <1>1, <1>2, InAppend
<1>6. Placed' /\ QueueAccounted' /\ PlacesAccounted'
  BY <1>1, <1>3 DEF Placed, With, QueueAccounted, PlacesAccounted
<1>7. InHand'
  BY <1>1 DEF InHand
<1>8. RunAccounted'
  <2>1. NoRepeat(ran')
    BY <1>1, <1>2, <1>3, <1>4, NoRepeatAppend DEF RunAccounted
  <2> QED
    BY <1>1, <1>3, <1>4, <1>5, <2>1 DEF RunAccounted
<1>9. CompletionAccounted'
  <2>1. Completions = completed
    BY <1>1 DEF Completions
  <2>2. \A t, u : Before(t, u, ran) => Before(t, u, ran')
    BY <1>1, <1>2, BeforeAppend
  <2>3. CASE task \notin WithCompletion
    <3>1. Completions' = Completions
      BY <1>1, <2>1, <2>3 DEF Completions
    <3> QED
      BY <1>3, <1>5, <2>2, <2>3, <3>1 DEF CompletionAccounted
  <2>4. CASE task \in WithCompletion
    <3> DEFINE c == Completions
               d == Append(c, task)
    <3>1. Completions' = d
      BY <1>1, <2>1, <2>4 DEF Completions
    <3>2. c \in Seq(Tasks)
      BY <1>2, <2>1
    <3>3. \A t : In(t, d) <=> In(t, c) \/ t = task
      BY <1>2, <3>2, InAppend
    <3>4. Len(c) \in Nat /\ Len(d) = Len(c) + 1 /\ d[Len(c) + 1] = task
          /\ \A i \in 1..Len(c) : d[i] = c[i] /\ c[i] \in Tasks
      BY <1>2, <3>2
    <3>5. /\ \A t \in Tasks : In(t, c) <=> In(t, ran) /\ t \in WithCompletion
          /\ \A i, j \in 1..Len(c) : i < j => Before(c[i], c[j], ran)
      BY <1>3 DEF CompletionAccounted
    <3> HIDE DEF c, d
    <3>6. \A i \in 1..Len(c) : In(c[i], ran)
      BY <3>4, <3>5 DEF In
    <3>7. \A t : In(t, ran) => Before(t, task, ran')
      BY <1>1, <1>2, BeforeAppend
    <3>8. ASSUME NEW i \in 1..Len(d), NEW j \in 1..Len(d), i < j
          PROVE  Before(d[i], d[j], ran')
      <4>1. i \in 1..Len(c)
        BY <3>4, <3>8
      <4>2. CASE j \in 1..Len(c)
        BY <3>4, <3>5, <3>8, <4>1, <4>2, <2>2
      <4>3. CASE j = Len(c) + 1
        BY <3>4, <3>6, <3>7, <4>1, <4>3
      <4> QED
        BY <3>4, <4>2, <4>3
    <3> QED
      BY <1>5, <2>4, <3>1, <3>3, <3>5, <3>8 DEF CompletionAccounted
  <2> QED
    BY <2>3, <2>4
<1> QED
  BY <1>6, <1>7, <1>8, <1>9 DEF AccountInv, TasksAccounted

LEMMA AccountStep == Typed /\ AccountInv /\ [Next]_vars => AccountInv'
<1> SUFFICES ASSUME Typed, AccountInv, [Next]_vars
             PROVE  AccountInv'
  OBVIOUS
<1>1. CASE UNCHANGED vars
  BY <1>1, AccountKept
<1>2. ASSUME NEW t \in Tasks, AddTask(t) PROVE AccountInv'
  BY <1>2, AccountAdd
<1>3. ASSUME NEW t \in Tasks, NEW n \in RandomAgent, AddTaskAgentid(t, n) PROVE AccountInv'
  BY <1>3, AccountRoute
<1>4. CASE RaiseStop("joining") \/ RaiseStop("~TaskAgent") \/ Flush
           \/ DequeCompletedTask \/ DestroyTaskManager \/ LambdaThrows
  BY <1>4, AccountKept DEF RaiseStop, Flush, DequeCompletedTask, DestroyTaskManager,
                           LambdaThrows, Terminate
<1>5. CASE Start
  <2>1. CASE Terminate
    BY <2>1, AccountKept DEF Terminate
  <2>2. CASE thread = "none" /\ thread' = "pop" /\ UNCHANGED <<queueVars, removed, ran, completed>>
    BY <2>2, AccountElsewhere
  <2> QED
    BY <1>5, <2>1, <2>2 DEF Start
<1>6. ASSUME NEW from, NEW to, Join(from, to)
      PROVE  AccountInv'
  <2>1. CASE UNCHANGED <<queueVars, removed, threadVars>>
    BY <2>1, AccountKept
  <2>2. CASE /\ thread = "returned" /\ thread' = "none"
             /\ UNCHANGED <<queueVars, removed, ran, completed>>
    BY <2>2, AccountElsewhere
  <2> QED
    BY <1>6, <2>1, <2>2 DEF Join, Terminate
<1>7. CASE Flushes
  <2>1. CASE UNCHANGED <<queueVars, removed, threadVars>>
    BY <2>1, AccountKept
  <2>2. CASE /\ RequestQueue # <<>> /\ RequestQueue' = Tail(RequestQueue)
             /\ removed' = Append(removed, Head(RequestQueue))
             /\ UNCHANGED <<Tasklist, asked, added, refused, threadVars>>
    <3>1. /\ Placed' /\ QueueAccounted' /\ RunAccounted' /\ PlacesAccounted'
          /\ \A t : In(t, removed) => In(t, removed')
      BY <2>2, TaskTaken
    <3>2. InHand' /\ CompletionAccounted'
      BY <2>2, <3>1 DEF AccountInv, TasksAccounted, InHand, CompletionAccounted, Completions
    <3> QED
      BY <3>1, <3>2 DEF AccountInv, TasksAccounted
  <2> QED
    BY <1>7, <2>1, <2>2 DEF Flushes
<1>8. CASE TryPop
  <2>1. CASE /\ thread = "pop" /\ thread' = "returned"
             /\ UNCHANGED <<queueVars, removed, ran, completed>>
    BY <2>1, AccountElsewhere
  <2>2. CASE /\ thread = "pop" /\ thread' = "count" /\ task' = Head(RequestQueue)
             /\ RequestQueue # <<>> /\ RequestQueue' = Tail(RequestQueue)
             /\ removed' = Append(removed, Head(RequestQueue))
             /\ UNCHANGED <<Tasklist, asked, added, refused, ran, completed>>
    <3>1. /\ Placed' /\ QueueAccounted' /\ RunAccounted' /\ PlacesAccounted'
          /\ In(Head(RequestQueue), removed') /\ ~In(Head(RequestQueue), ran)
      BY <2>2, TaskTaken
    <3>2. InHand'
      BY <2>2, <3>1 DEF InHand
    <3>3. CompletionAccounted'
      BY <2>2 DEF AccountInv, TasksAccounted, CompletionAccounted, Completions
    <3> QED
      BY <3>1, <3>2, <3>3 DEF AccountInv, TasksAccounted
  <2> QED
    BY <1>8, <2>1, <2>2 DEF TryPop, Goes
<1>9. CASE Count
  <2>1. thread = "count" /\ thread' = "do" /\ UNCHANGED <<queueVars, removed, task, ran, completed>>
    BY <1>9 DEF Count, Goes
  <2> QED
    BY <2>1 DEF AccountInv, Placed, With, InHand, TasksAccounted, QueueAccounted, RunAccounted,
                CompletionAccounted, Completions, PlacesAccounted
<1>10. CASE Do
  BY <1>10, AccountDo
<1>11. CASE CompleteDo
  <2>1. /\ thread = "complete" /\ thread' = "load" /\ completed' = Append(completed, task)
        /\ UNCHANGED <<queueVars, removed, task, ran>>
    BY <1>11 DEF CompleteDo, Goes
  <2>2. Completions' = Completions
    BY <2>1 DEF Completions
  <2>3. InHand'
    BY <2>1 DEF InHand
  <2> QED
    BY <2>1, <2>2, <2>3 DEF AccountInv, Placed, With, TasksAccounted, QueueAccounted,
                            RunAccounted, CompletionAccounted, PlacesAccounted
<1>12. CASE LoadPrev \/ StorePrev
  BY <1>12, AccountElsewhere DEF LoadPrev, StorePrev, Goes
<1>13. CASE CheckHang \/ CompareHangCheck \/ StoreHangCheck
  BY <1>13, AccountKept DEF CheckHang, CompareHangCheck, StoreHangCheck
<1> QED
  BY <1>1, <1>2, <1>3, <1>4, <1>5, <1>6, <1>7, <1>8, <1>9, <1>10, <1>11, <1>12, <1>13
     DEF Next, DoWork, Joins

\* Every task handed in is in one place only, runs once at most and after it was
\* taken from the queue, and the complete lambdas are called for those tasks run
\* that have one, in the order they ran.
THEOREM TasksAlwaysAccounted == Spec => []TasksAccounted
<1>1. AccountInv => TasksAccounted
  BY DEF AccountInv
<1>2. Spec => []Typed
  BY TypedInit, TypedStep, PTL DEF Spec
<1> QED
  BY <1>1, <1>2, AccountInit, AccountStep, PTL DEF Spec
===============================================================================
