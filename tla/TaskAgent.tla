------------------------------- MODULE TaskAgent -------------------------------
(***************************************************************************)
(* Util::TaskAgent over Util::Runnable, the tasks it runs, and the          *)
(* TaskManager that routes tasks to agents by name.                         *)
(*                                                                          *)
(* One agent is in the hands of an owner, who starts, stops, flushes and    *)
(* destroys it; any thread may add a task, and one thread asks for hangs.   *)
(* The agents of TaskManager are private to it and nobody starts them, so   *)
(* of them only the queue matters.                                          *)
(*                                                                          *)
(* A step is one access to state the threads share.  The two hang counters  *)
(* are plain integers that both the agent's thread and CheckHang write: an  *)
(* increment is a load and a store, and CheckHang may store the value it    *)
(* has loaded or the one of now.  An exception from a task, from a join in  *)
(* a destructor, or a thread assigned over a joinable one ends the process. *)
(***************************************************************************)
EXTENDS Integers, Sequences

CONSTANTS Tasks,           \* each is handed in once at most
          WithCompletion,  \* those made with a complete lambda
          AgentCount,      \* 4 * hardware_concurrency()
          MaxChecks,       \* bound on the calls of CheckHang
          NULL

ASSUME TasksAssumption == WithCompletion \subseteq Tasks /\ NULL \notin Tasks
ASSUME AgentCountAssumption == AgentCount \in Nat
ASSUME MaxChecksAssumption == MaxChecks \in Nat

VARIABLES
    RequestQueue,       \* _RequestQueue of the owned agent
    Tasklist,           \* the queue of each agent of TaskManager
    owner,              \* what the owner is in the middle of
    Stop,               \* Runnable::_Stop, which DoWork never looks at
    thread,             \* where in DoWork the thread is, "none" if not joinable
    task, loaded,       \* DoWork's local; the value ++_PrevHangCheck has loaded
    CurrentHangCheck, PrevHangCheck,
    monitor, seen, checks,      \* where CheckHang is, the value it loaded, its calls
    asked,              \* history: the tasks handed in, to whomever
    added, removed,     \* history: tasks pushed to and popped from the owned agent
    ran, completed,     \* history: those whose lambda, complete lambda has run
    refused,            \* history: those TaskManager had no agent for
    busy,               \* history: whether a task ran, at each moment of the check
    misled,             \* history: CheckHang gave an answer true at no such moment
    moved,              \* history: CheckHang has changed _PrevHangCheck
    terminated

queueVars == <<RequestQueue, Tasklist, asked, added, refused>>
ownerVars == <<owner, Stop>>
threadVars == <<thread, task, loaded, ran, completed>>
checkVars == <<monitor, seen, checks, misled, moved>>
vars == <<queueVars, removed, ownerVars, threadVars, CurrentHangCheck, PrevHangCheck,
          checkVars, busy, terminated>>
hangVars == <<CurrentHangCheck, PrevHangCheck, checkVars, busy>>

\* TaskManager::CreateAgent, under a name made of the number.
Agents == 0..(AgentCount - 1)

Init == /\ RequestQueue = <<>> /\ Tasklist = [n \in Agents |-> <<>>]
        /\ owner = "free" /\ Stop = FALSE
        /\ thread = "none" /\ task = NULL /\ loaded = 0
        /\ CurrentHangCheck = 0 /\ PrevHangCheck = 0
        /\ monitor = "out" /\ seen = 0 /\ checks = 0
        /\ added = <<>> /\ removed = <<>> /\ ran = <<>> /\ completed = <<>>
        /\ asked = {} /\ refused = {} /\ busy = {} /\ misled = FALSE /\ moved = FALSE
        /\ terminated = FALSE

In(t, s) == \E i \in 1..Len(s) : s[i] = t

HandIn(t) == t \notin asked /\ asked' = asked \cup {t}

Terminate == /\ terminated' = TRUE
             /\ UNCHANGED <<queueVars, removed, ownerVars, threadVars, hangVars>>

-------------------------------------------------------------------------------
(* Handing tasks in.                                                          *)

AddTask(t) == /\ HandIn(t)
              /\ RequestQueue' = Append(RequestQueue, t) /\ added' = Append(added, t)
              /\ UNCHANGED <<Tasklist, refused, removed, ownerVars, threadVars, hangVars,
                             terminated>>

\* TaskManager::AddTask draws the number, its upper bound included; the Agent
\* macros name it.
\* (Mutant: a concurrent map indexed instead of searched makes the agent.)
AddTaskAgentidInserting(t, n) ==
    /\ HandIn(t)
    /\ IF n \in DOMAIN Tasklist
       THEN Tasklist' = [Tasklist EXCEPT ![n] = Append(@, t)]
       ELSE Tasklist' = [m \in DOMAIN Tasklist \cup {n} |-> <<>>]
    /\ UNCHANGED <<RequestQueue, added, refused, removed, ownerVars, threadVars, hangVars,
                   terminated>>

AddTaskAgentid(t, n) ==
    /\ HandIn(t)
    /\ \/ /\ n \in DOMAIN Tasklist
          /\ Tasklist' = [Tasklist EXCEPT ![n] = Append(@, t)]
          /\ UNCHANGED refused
       \/ /\ n \notin DOMAIN Tasklist
          /\ refused' = refused \cup {t}
          /\ UNCHANGED Tasklist
    /\ UNCHANGED <<RequestQueue, added, removed, ownerVars, threadVars, hangVars, terminated>>

RandomAgent == 0..AgentCount

-------------------------------------------------------------------------------
(* The owner.                                                                 *)

Owner(from, to) == owner = from /\ owner' = to

\* A new thread is assigned to _Thread.
Start == /\ owner = "free"
         /\ \/ thread # "none" /\ Terminate
            \/ /\ thread = "none" /\ thread' = "pop"
               /\ UNCHANGED <<queueVars, removed, ownerVars, task, loaded, ran, completed,
                              hangVars, terminated>>

\* Stop, or a destructor that begins with it, up to the join.
RaiseStop(where) == /\ Owner("free", where)
                    /\ Stop' = TRUE
                    /\ UNCHANGED <<queueVars, removed, threadVars, hangVars, terminated>>

\* (Mutant: the thread joined only if it is joinable.)
JoinIfJoinable(from, to) ==
    /\ thread \in {"none", "returned"} /\ Owner(from, to) /\ thread' = "none"
    /\ UNCHANGED <<queueVars, removed, Stop, task, loaded, ran, completed, hangVars,
                   terminated>>

\* join throws if there is no thread: out of Stop to its caller, out of a
\* destructor nowhere.
Join(from, to) ==
    \/ /\ thread = "returned" /\ Owner(from, to) /\ thread' = "none"
       /\ UNCHANGED <<queueVars, removed, Stop, task, loaded, ran, completed, hangVars,
                      terminated>>
    \/ /\ thread = "none" /\ from = "joining" /\ Owner(from, to)
       /\ UNCHANGED <<queueVars, removed, Stop, threadVars, hangVars, terminated>>
    \/ /\ thread = "none" /\ from # "joining" /\ owner = from
       /\ Terminate

\* ~TaskAgent stops, then the base ~Runnable stops once more.
Joins == \/ Join("joining", "free")
         \/ Join("~TaskAgent", "~Runnable")
         \/ Join("~Runnable", "destroyed")

\* clear() pops until it finds the queue empty.
Flush == /\ Owner("free", "flushing")
         /\ UNCHANGED <<queueVars, removed, Stop, threadVars, hangVars, terminated>>

Flushes == \/ /\ owner = "flushing" /\ RequestQueue # <<>>
              /\ RequestQueue' = Tail(RequestQueue)
              /\ removed' = Append(removed, Head(RequestQueue))
              /\ UNCHANGED <<Tasklist, asked, added, refused, ownerVars, threadVars, hangVars,
                             terminated>>
           \/ /\ RequestQueue = <<>> /\ Owner("flushing", "free")
              /\ UNCHANGED <<queueVars, removed, Stop, threadVars, hangVars, terminated>>

\* Nothing pushes a result: the caller spins for good.
DequeCompletedTask == /\ Owner("free", "spinning")
                      /\ UNCHANGED <<queueVars, removed, Stop, threadVars, hangVars, terminated>>

\* ~TaskManager drops its agents, whose threads were never started.
DestroyTaskManager == AgentCount > 0 /\ Terminate

-------------------------------------------------------------------------------
(* DoWork.                                                                    *)

InTask == thread \in {"do", "complete", "load", "store"}

Goes(where) == thread' = where

\* (Mutant: the loop looks at the flag.)
TryPopUnlessStopped ==
    /\ thread = "pop"
    /\ IF RequestQueue = <<>> \/ Stop
       THEN Goes("returned") /\ UNCHANGED <<RequestQueue, removed, task>>
       ELSE /\ task' = Head(RequestQueue) /\ RequestQueue' = Tail(RequestQueue)
            /\ removed' = Append(removed, Head(RequestQueue)) /\ Goes("count")
    /\ UNCHANGED <<Tasklist, asked, added, refused, ownerVars, loaded, ran, completed, hangVars,
                   terminated>>

TryPop ==
    /\ thread = "pop"
    /\ \/ /\ RequestQueue = <<>> /\ Goes("returned")
          /\ UNCHANGED <<RequestQueue, removed, task>>
       \/ /\ RequestQueue # <<>> /\ Goes("count")
          /\ task' = Head(RequestQueue) /\ RequestQueue' = Tail(RequestQueue)
          /\ removed' = Append(removed, Head(RequestQueue))
    /\ UNCHANGED <<Tasklist, asked, added, refused, ownerVars, loaded, ran, completed, hangVars,
                   terminated>>

Count == /\ thread = "count" /\ Goes("do")
         /\ CurrentHangCheck' = CurrentHangCheck + 1
         /\ busy' = busy \cup {TRUE}
         /\ UNCHANGED <<queueVars, removed, ownerVars, task, loaded, ran, completed,
                        PrevHangCheck, checkVars, terminated>>

\* (Mutant: it answers what its name says.)
IsEmptyCompleteLambdaAsNamed(t) == t \notin WithCompletion

IsEmptyCompleteLambda(t) == t \in WithCompletion

Do == /\ thread = "do"
      /\ ran' = Append(ran, task)
      /\ Goes(IF IsEmptyCompleteLambda(task) THEN "complete" ELSE "load")
      /\ UNCHANGED <<queueVars, removed, ownerVars, task, loaded, completed, hangVars, terminated>>

CompleteDo == /\ thread = "complete" /\ Goes("load")
              /\ completed' = Append(completed, task)
              /\ UNCHANGED <<queueVars, removed, ownerVars, task, loaded, ran, hangVars, terminated>>

LambdaThrows == thread \in {"do", "complete"} /\ Terminate

LoadPrev == /\ thread = "load" /\ Goes("store")
            /\ loaded' = PrevHangCheck
            /\ UNCHANGED <<queueVars, removed, ownerVars, task, ran, completed, hangVars, terminated>>

\* (Mutant: the end of a task not counted.)
StorePrevUncounted ==
    /\ thread = "store" /\ Goes("pop")
    /\ busy' = busy \cup {FALSE}
    /\ UNCHANGED <<queueVars, removed, ownerVars, task, loaded, ran, completed,
                   CurrentHangCheck, PrevHangCheck, checkVars, terminated>>

StorePrev == /\ thread = "store" /\ Goes("pop")
             /\ PrevHangCheck' = loaded + 1
             /\ busy' = busy \cup {FALSE}
             /\ UNCHANGED <<queueVars, removed, ownerVars, task, loaded, ran, completed,
                            CurrentHangCheck, checkVars, terminated>>

-------------------------------------------------------------------------------
(* CheckHang.                                                                 *)

CheckHang == /\ monitor = "out" /\ checks < MaxChecks
             /\ monitor' = "loaded" /\ checks' = checks + 1
             /\ seen' = CurrentHangCheck
             /\ busy' = {InTask}
             /\ UNCHANGED <<queueVars, removed, ownerVars, threadVars, CurrentHangCheck,
                            PrevHangCheck, misled, moved, terminated>>

CompareHangCheck == /\ monitor = "loaded" /\ monitor' = "compared"
                    /\ misled' = (misled \/ (seen # PrevHangCheck) \notin busy)
                    /\ UNCHANGED <<queueVars, removed, ownerVars, threadVars, CurrentHangCheck,
                                   PrevHangCheck, seen, checks, moved, busy, terminated>>

StoreHangCheck == /\ monitor = "compared" /\ monitor' = "out"
                  /\ PrevHangCheck' \in {seen, CurrentHangCheck}
                  /\ moved' = (moved \/ PrevHangCheck' # PrevHangCheck)
                  /\ UNCHANGED <<queueVars, removed, ownerVars, threadVars, CurrentHangCheck,
                                 seen, checks, misled, busy, terminated>>

-------------------------------------------------------------------------------
DoWork == TryPop \/ Count \/ Do \/ CompleteDo \/ LoadPrev \/ StorePrev

Next == /\ ~terminated
        /\ \/ \E t \in Tasks : AddTask(t) \/ \E n \in RandomAgent : AddTaskAgentid(t, n)
           \/ Start \/ RaiseStop("joining") \/ RaiseStop("~TaskAgent") \/ Joins
           \/ Flush \/ Flushes \/ DequeCompletedTask \/ DestroyTaskManager
           \/ DoWork \/ LambdaThrows
           \/ CheckHang \/ CompareHangCheck \/ StoreHangCheck

Spec == Init /\ [][Next]_vars

\* The agent's thread runs, and the lambdas of a task come to their end.
FairSpec == Spec /\ WF_vars(~terminated /\ DoWork)

-------------------------------------------------------------------------------
TypeOK == /\ RequestQueue \in Seq(Tasks) /\ added \in Seq(Tasks) /\ removed \in Seq(Tasks)
          /\ Tasklist \in [Agents -> Seq(Tasks)]
          /\ owner \in {"free", "joining", "~TaskAgent", "~Runnable", "destroyed",
                        "flushing", "spinning"}
          /\ Stop \in BOOLEAN
          /\ thread \in {"none", "pop", "count", "do", "complete", "load", "store", "returned"}
          /\ task \in Tasks \cup {NULL}
          /\ loaded \in Nat /\ CurrentHangCheck \in Nat /\ PrevHangCheck \in Nat
          /\ monitor \in {"out", "loaded", "compared"} /\ seen \in Nat /\ checks \in Nat
          /\ ran \in Seq(Tasks) /\ completed \in Seq(Tasks)
          /\ asked \subseteq Tasks /\ refused \subseteq Tasks /\ busy \subseteq BOOLEAN
          /\ misled \in BOOLEAN /\ moved \in BOOLEAN /\ terminated \in BOOLEAN

Before(t, u, s) == \E i, j \in 1..Len(s) : i < j /\ s[i] = t /\ s[j] = u
NoRepeat(s) == \A i, j \in 1..Len(s) : s[i] = s[j] => i = j

\* The complete lambdas called, the one being called included.
Completions == IF thread = "complete" THEN Append(completed, task) ELSE completed

QueueAccounted == added = removed \o RequestQueue

RunAccounted == NoRepeat(ran) /\ \A t \in Tasks : In(t, ran) => In(t, removed)

CompletionAccounted ==
    /\ \A t \in Tasks : In(t, Completions) <=> In(t, ran) /\ t \in WithCompletion
    /\ \A i, j \in 1..Len(Completions) : i < j => Before(Completions[i], Completions[j], ran)

PlacesAccounted ==
    /\ \A t \in asked : \/ In(t, added) \/ t \in refused
                        \/ \E n \in DOMAIN Tasklist : In(t, Tasklist[n])
    /\ \A t \in Tasks, n, m \in DOMAIN Tasklist :
          In(t, Tasklist[n]) => /\ ~In(t, added) /\ t \notin refused
                                /\ In(t, Tasklist[m]) => n = m

\* Every task handed in is in one place only: it was refused, it is with one of
\* TaskManager's agents, or it went through the owned agent's queue; a Flush
\* that races the agent's thread neither loses a task nor lets it run as well.
\* The complete lambda is called for the tasks that have one, in the order of
\* the tasks, and never for one whose own lambda has not run.
TasksAccounted == QueueAccounted /\ RunAccounted /\ CompletionAccounted /\ PlacesAccounted

\* CheckHang answers something that was so at some moment of the call: "hanging"
\* if a task was running, "not hanging" if none was.  It does so until one of its
\* own calls has moved _PrevHangCheck, which happens as soon as a call meets a
\* running task; then it may report an idle agent, or miss one that hangs.
HangAnswered == misled => moved

\* The destructor of an agent never comes to its end: the second of the two
\* joins, if not the first, finds no thread and the process ends.
DestructorNeverReturns == owner # "destroyed"

\* A task in the queue while the thread is in its loop is taken, by the thread
\* or by a Flush, also when the agent is being stopped: the loop ends only when
\* it finds the queue empty.  A task added after that waits for another Start.
TakenWhileServing ==
    \A t \in Tasks : In(t, RequestQueue) /\ thread \notin {"none", "returned"}
                        ~> terminated \/ ~In(t, RequestQueue)
===============================================================================
