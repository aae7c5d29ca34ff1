-------------------------- MODULE EpollContextProofs --------------------------
(***************************************************************************)
(* Theorems of EpollContext, for any number of descriptors, sockets and     *)
(* workers and any MaxEvents.                                               *)
(***************************************************************************)
EXTENDS EpollContext, FiniteSetTheorems, TLAPS

(* Layer 1: types, and what the loop knows between two of its steps.          *)
LoopOK ==
    /\ loop \in {"close", "del"} => descriptor \in Fds
    /\ loop = "enqueue" => DescriptorPtr # NULL
    /\ loop \in {"close", "del", "enqueue", "next"} =>
          counter \in Index /\ counter < EventCount

\* An object has its socket number from its creation on.
HasSocket == \A d \in Descriptors : client[d] # "none" => fdOf[d] \in Fds

\* Only what exists is disabled, and only the enabled is counted as disabled.
DisabledExist == /\ \A d \in disabling : client[d] # "none"
                 /\ \A d \in disabled : client[d] = "enabled"

Inv1 == TypeOK /\ LoopOK /\ HasSocket /\ DisabledExist

USE DEF clientVars, kernelVars, frameVars

LEMMA InitInv1 == Init => Inv1
<1> SUFFICES ASSUME Init
             PROVE  Inv1
  OBVIOUS
<1> USE DEF Init
<1>1. /\ fdOf \in [Descriptors -> Fds \cup {NULL}]
      /\ callback \subseteq Descriptors
      /\ client \in [Descriptors -> {"none", "created", "added", "enabled"}]
      /\ SocketMap \in [Fds -> Descriptors \cup {NULL}]
      /\ owner \in [Fds -> Descriptors \cup {NULL}]
      /\ interest \subseteq Fds /\ ready \subseteq interest /\ readable \subseteq Fds
      /\ disabling = {} /\ disabled = {}
  OBVIOUS
<1>2. /\ arrivals \in 0..MaxArrivals
      /\ EventCount \in 0..Failed /\ counter \in 0..Failed
  BY MaxEventsAssumption, MaxArrivalsAssumption DEF Failed
<1>3. epollEvents \in [Index -> [fd : Fds \cup {NULL}, events : SUBSET Bits,
                                source : Descriptors \cup {NULL}]]
  BY DEF Unfilled
<1>4. queue \in Seq(Descriptors)
  OBVIOUS
<1>5. worker \in [Workers -> [pc : {"idle", "call", "in", "disable", "del", "out", "err"},
                             index : 0..Failed, arg : Descriptors \cup {NULL},
                             for : Descriptors \cup {NULL}]]
  BY MaxEventsAssumption DEF Idle, Failed
<1> QED
  BY <1>1, <1>2, <1>3, <1>4, <1>5 DEF Inv1, TypeOK, LoopOK, HasSocket, DisabledExist

(* One lemma for each group of actions.                                       *)
LEMMA ClientInv1 ==
  ASSUME Inv1, NEW d \in Descriptors, ClientStep(d)
  PROVE  Inv1'
<1> USE DEF Inv1, TypeOK, LoopOK, HasSocket, DisabledExist
<1>1. ASSUME NEW f \in Fds, CreateDescriptor(d, f)
      PROVE  Inv1'
  <2>1. fdOf' \in [Descriptors -> Fds \cup {NULL}]
    BY <1>1 DEF CreateDescriptor
  <2>2. owner' \in [Fds -> Descriptors \cup {NULL}]
    BY <1>1 DEF CreateDescriptor
  <2>3. client' \in [Descriptors -> {"none", "created", "added", "enabled"}]
    BY <1>1 DEF CreateDescriptor
  <2> QED
    BY <1>1, <2>1, <2>2, <2>3 DEF CreateDescriptor
<1>2. CASE SetCallback(d)
  BY <1>2 DEF SetCallback
<1>3. CASE EnableAdd(d)
  <2>1. client' \in [Descriptors -> {"none", "created", "added", "enabled"}]
    BY <1>3 DEF EnableAdd
  <2>2. fdOf[d] \in Fds
    BY <1>3 DEF EnableAdd
  <2>3. /\ interest' \subseteq Fds /\ ready' \subseteq interest'
    BY <1>3, <2>2 DEF EnableAdd
  <2> QED
    BY <1>3, <2>1, <2>2, <2>3 DEF EnableAdd
<1>4. CASE EnableInsert(d)
  BY <1>4 DEF EnableInsert
<1>5. CASE DisableErase(d)
  BY <1>5 DEF DisableErase, EraseEntry, Disabled
<1>6. CASE DisableDel(d)
  BY <1>6 DEF DisableDel, Unregister
<1> QED
  BY <1>1, <1>2, <1>3, <1>4, <1>5, <1>6 DEF ClientStep

LEMMA EnvironmentInv1 ==
  ASSUME Inv1, Stop \/ (\E f \in Fds : Arrive(f)) \/ \E how \in
           {"overrun", "nullDescriptor", "nullCallback", "thrown", "frame"} : Die(how)
  PROVE  Inv1'
<1> USE DEF Inv1, TypeOK, LoopOK, HasSocket, DisabledExist
<1>1. CASE Stop
  BY <1>1 DEF Stop
<1>2. ASSUME NEW f \in Fds, Arrive(f)
      PROVE  Inv1'
  <2>1. arrivals' \in 0..MaxArrivals
    BY <1>2, MaxArrivalsAssumption DEF Arrive
  <2>2. readable' \subseteq Fds /\ ready' \subseteq interest'
    BY <1>2 DEF Arrive
  <2> QED
    BY <1>2, <2>1, <2>2 DEF Arrive
<1>3. ASSUME NEW how \in {"overrun", "nullDescriptor", "nullCallback", "thrown", "frame"},
             Die(how)
      PROVE  Inv1'
  BY <1>3 DEF Die
<1> QED
  BY <1>1, <1>2, <1>3

\* A batch has as many entries as there are ready sockets, at most MaxEvents,
\* and they are distinct.
LEMMA BatchType ==
  ASSUME Inv1, NEW batch \in Batches
  PROVE  /\ Len(batch) \in 0..MaxEvents
         /\ \A i \in 1..Len(batch) :
              /\ batch[i].fd \in ready /\ batch[i].events \in Reported
              /\ batch[i].source \in Descriptors /\ batch[i].source = owner[batch[i].fd]
              /\ batch[i] = [fd |-> batch[i].fd, events |-> batch[i].events,
                             source |-> batch[i].source]
         /\ \A i, j \in 1..Len(batch) : batch[i].fd = batch[j].fd => i = j
<1> DEFINE n == IF Cardinality(ready) < MaxEvents THEN Cardinality(ready) ELSE MaxEvents
<1>1. IsFiniteSet(ready) /\ Cardinality(ready) \in Nat
  BY FdsAssumption, FS_Subset, FS_CardinalityType DEF Inv1, TypeOK
<1>2. n \in 0..MaxEvents
  BY <1>1, MaxEventsAssumption
<1>3. /\ batch \in [1..n -> [fd : ready, events : Reported, source : Descriptors]]
      /\ \A i, j \in 1..n : batch[i].fd = batch[j].fd => i = j
      /\ \A i \in 1..n : batch[i].source = owner[batch[i].fd]
  BY DEF Batches
<1>4. Len(batch) = n
  BY <1>2, <1>3
<1> QED
  BY <1>2, <1>3, <1>4

LEMMA LoopInv1 ==
  ASSUME Inv1, LoopStep \/ WaitInterrupted
  PROVE  Inv1'
<1> USE DEF Inv1, TypeOK, LoopOK, HasSocket, DisabledExist, notLoop
<1>1. CASE LoopTop
  BY <1>1 DEF LoopTop
<1>2. CASE EpollWait
  <2>1. PICK batch \in Batches :
          /\ epollEvents' = [i \in Index |-> IF i < Len(batch) THEN batch[i + 1]
                                             ELSE epollEvents[i]]
          /\ EventCount' = Len(batch)
          /\ ready' = ready \ {batch[i].fd : i \in DOMAIN batch}
    BY <1>2 DEF EpollWait
  <2>2. EventCount' \in 0..Failed /\ counter' \in 0..Failed
    BY <1>2, <2>1, BatchType, MaxEventsAssumption DEF EpollWait, Failed
  <2>3. ASSUME NEW i \in Index
        PROVE  epollEvents'[i] \in [fd : Fds \cup {NULL}, events : SUBSET Bits,
                                    source : Descriptors \cup {NULL}]
    <3>1. CASE i < Len(batch)
      <4>1. i + 1 \in 1..Len(batch)
        BY <3>1, BatchType DEF Index
      <4>2. /\ batch[i + 1].fd \in Fds
            /\ batch[i + 1].events \in SUBSET Bits
            /\ batch[i + 1].source \in Descriptors
            /\ batch[i + 1] = [fd |-> batch[i + 1].fd, events |-> batch[i + 1].events,
                               source |-> batch[i + 1].source]
        <5>1. /\ batch[i + 1].fd \in ready /\ batch[i + 1].events \in Reported
              /\ batch[i + 1].source \in Descriptors
              /\ batch[i + 1] = [fd |-> batch[i + 1].fd, events |-> batch[i + 1].events,
                                 source |-> batch[i + 1].source]
          BY <4>1, BatchType
        <5>2. batch[i + 1].events \in SUBSET Bits
          BY <5>1 DEF Reported, Bits
        <5> QED
          BY <5>1, <5>2
      <4> QED
        BY <2>1, <3>1, <4>2
    <3>2. CASE ~(i < Len(batch))
      BY <2>1, <3>2
    <3> QED
      BY <3>1, <3>2
  <2>4. epollEvents' \in [Index -> [fd : Fds \cup {NULL}, events : SUBSET Bits,
                                    source : Descriptors \cup {NULL}]]
    BY <2>1, <2>3
  <2>5. ready' \subseteq interest'
    BY <1>2, <2>1 DEF EpollWait
  <2> QED
    BY <1>2, <2>2, <2>4, <2>5 DEF EpollWait
<1>3. CASE WaitInterrupted
  BY <1>3, MaxEventsAssumption DEF WaitInterrupted, Failed
<1>4. CASE Lookup /\ counter \in Index
  <2>1. ASSUME Die("overrun")
        PROVE  Inv1'
    BY <2>1, EnvironmentInv1
  <2>2. ASSUME NEW f \in SocketsOf(epollEvents[counter]),
               descriptor' = f, DescriptorPtr' = SocketMap[f],
               loop' = IF DescriptorPtr' = NULL THEN "close" ELSE "enqueue",
               UNCHANGED <<notLoop, ready, epollEvents, EventCount, counter, queue>>,
               counter < EventCount
        PROVE  Inv1'
    <3>1. f \in Fds
      BY <1>4, <2>2 DEF SocketsOf
    <3> QED
      BY <1>4, <2>2, <3>1
  <2> QED
    BY <1>4, <2>1, <2>2 DEF Lookup
<1>5. CASE Lookup /\ counter \notin Index
  BY <1>5, EnvironmentInv1 DEF Lookup
<1>6. CASE LoopClose
  <2>1. owner' \in [Fds -> Descriptors \cup {NULL}]
    BY <1>6 DEF LoopClose
  <2> QED
    BY <1>6, <2>1 DEF LoopClose
<1>7. CASE LoopDel
  BY <1>7 DEF LoopDel, Unregister
<1>8. CASE EnqueueJob
  <2>1. queue' \in Seq(Descriptors)
    BY <1>8 DEF EnqueueJob
  <2> QED
    BY <1>8, <2>1 DEF EnqueueJob
<1>9. CASE LoopNext
  <2>1. counter' \in 0..Failed
    BY <1>9, MaxEventsAssumption DEF LoopNext, Index, Failed
  <2> QED
    BY <1>9, <2>1 DEF LoopNext
<1>10. CASE LoopEnd
  BY <1>10 DEF LoopEnd
<1> QED
  BY <1>1, <1>2, <1>3, <1>4, <1>5, <1>6, <1>7, <1>8, <1>9, <1>10 DEF LoopStep

\* A worker's record keeps its type when its pc changes.
LEMMA BecomesType ==
  ASSUME Inv1, NEW w \in Workers, Becomes(w, "disable") \/ Becomes(w, "out") \/ Becomes(w, "err")
  PROVE  worker' \in [Workers -> [pc : {"idle", "call", "in", "disable", "del", "out", "err"},
                                  index : 0..Failed, arg : Descriptors \cup {NULL},
                                  for : Descriptors \cup {NULL}]]
<1> DEFINE Job == [pc : {"idle", "call", "in", "disable", "del", "out", "err"},
                   index : 0..Failed, arg : Descriptors \cup {NULL},
                   for : Descriptors \cup {NULL}]
<1>1. worker \in [Workers -> Job]
  BY DEF Inv1, TypeOK
<1>2. PICK p \in {"disable", "out", "err"} : worker' = [worker EXCEPT ![w].pc = p]
  BY DEF Becomes
<1>3. [worker[w] EXCEPT !.pc = p] \in Job
  BY <1>1
<1> QED
  BY <1>1, <1>2, <1>3

LEMMA WorkerInv1 ==
  ASSUME Inv1, NEW w \in Workers, WorkerStep(w)
  PROVE  Inv1'
<1> USE DEF notJob
<1>d. ASSUME NEW how \in {"nullDescriptor", "nullCallback", "thrown", "frame"}, Die(how)
      PROVE  Inv1'
  BY <1>d, EnvironmentInv1
<1>1. CASE TakeJob(w)
  <2>1. queue' \in Seq(Descriptors) /\ Head(queue) \in Descriptors
    BY <1>1 DEF TakeJob, Inv1, TypeOK
  <2>2. worker' \in [Workers -> [pc : {"idle", "call", "in", "disable", "del", "out", "err"},
                                 index : 0..Failed, arg : Descriptors \cup {NULL},
                                 for : Descriptors \cup {NULL}]]
    <3> DEFINE Job == [pc : {"idle", "call", "in", "disable", "del", "out", "err"},
                           index : 0..Failed, arg : Descriptors \cup {NULL},
                           for : Descriptors \cup {NULL}]
    <3>1. worker \in [Workers -> Job]
      BY DEF Inv1, TypeOK
    <3>2. \A j \in Job : [[j EXCEPT !.pc = "call"] EXCEPT !.for = Head(queue)] \in Job
      BY <2>1
    <3>3. worker' = [worker EXCEPT ![w] = [[@ EXCEPT !.pc = "call"] EXCEPT !.for = Head(queue)]]
      BY <1>1, <3>1 DEF TakeJob
    <3> QED
      BY <3>1, <3>2, <3>3
  <2> QED
    BY <1>1, <2>1, <2>2 DEF TakeJob, Inv1, TypeOK, LoopOK, HasSocket, DisabledExist
<1>2. CASE TestIn(w)
  <2>1. \/ Becomes(w, "out") /\ UNCHANGED <<notJob, disabled, SocketMap, kernelVars, queue>>
        \/ Becomes(w, "disable") /\ UNCHANGED <<notJob, disabled, SocketMap, kernelVars, queue>>
        \/ Die("nullDescriptor") \/ Die("nullCallback") \/ Die("thrown")
    BY <1>2 DEF TestIn
  <2> QED
    BY <2>1, <1>d, BecomesType DEF Inv1, TypeOK, LoopOK, HasSocket, DisabledExist
<1>3. CASE JobErase(w)
  <2>1. CASE Die("nullDescriptor")
    BY <2>1, <1>d
  <2>2. CASE ~Die("nullDescriptor")
    <3>1. worker' \in [Workers -> [pc : {"idle", "call", "in", "disable", "del", "out", "err"},
                                   index : 0..Failed, arg : Descriptors \cup {NULL},
                                   for : Descriptors \cup {NULL}]]
      <4> DEFINE Job == [pc : {"idle", "call", "in", "disable", "del", "out", "err"},
                         index : 0..Failed, arg : Descriptors \cup {NULL},
                         for : Descriptors \cup {NULL}]
      <4>1. worker \in [Workers -> Job] /\ DescriptorPtr \in Descriptors \cup {NULL}
        BY DEF Inv1, TypeOK
      <4>2. PICK p \in {"out", "del"} :
              worker' = [worker EXCEPT ![w].pc = p, ![w].arg = DescriptorPtr]
        BY <1>3, <2>2 DEF JobErase
      <4>3. \A j \in Job : [[j EXCEPT !.pc = p] EXCEPT !.arg = DescriptorPtr] \in Job
        BY <4>1
      <4>4. worker' = [worker EXCEPT ![w] = [[@ EXCEPT !.pc = p] EXCEPT !.arg = DescriptorPtr]]
        BY <4>1, <4>2
      <4> QED
        BY <4>1, <4>3, <4>4
    <3>2. SocketMap' \in [Fds -> Descriptors \cup {NULL}]
      BY <1>3, <2>2 DEF JobErase, EraseEntry, Inv1, TypeOK
    <3> QED
      BY <1>3, <2>2, <3>1, <3>2 DEF JobErase, Disabled, Inv1, TypeOK, LoopOK, HasSocket, DisabledExist
  <2> QED
    BY <2>1, <2>2
<1>4. CASE JobDel(w)
  BY <1>4, BecomesType DEF JobDel, Unregister, Inv1, TypeOK, LoopOK, HasSocket, DisabledExist
<1>5. CASE TestOut(w)
  <2>1. \/ Becomes(w, "err") /\ UNCHANGED <<notJob, disabled, SocketMap, kernelVars, queue>>
        \/ Die("nullDescriptor")
    BY <1>5 DEF TestOut
  <2> QED
    BY <2>1, <1>d, BecomesType DEF Inv1, TypeOK, LoopOK, HasSocket, DisabledExist
<1>6. CASE TestErr(w)
  <2>1. CASE Die("nullDescriptor") \/ Die("thrown")
    BY <2>1, <1>d
  <2>2. CASE worker' = [worker EXCEPT ![w] = Idle]
             /\ UNCHANGED <<notJob, disabled, SocketMap, kernelVars, queue>>
    <3>1. Idle \in [pc : {"idle", "call", "in", "disable", "del", "out", "err"},
                    index : 0..Failed, arg : Descriptors \cup {NULL},
                    for : Descriptors \cup {NULL}]
      BY MaxEventsAssumption DEF Idle, Failed
    <3> QED
      BY <2>2, <3>1 DEF Inv1, TypeOK, LoopOK, HasSocket, DisabledExist
  <2> QED
    BY <1>6, <2>1, <2>2 DEF TestErr
<1>7. CASE FrameGone(w)
  BY <1>7, <1>d DEF FrameGone
<1>8. CASE JobBegins(w)
  <2>1. worker' \in [Workers -> [pc : {"idle", "call", "in", "disable", "del", "out", "err"},
                                 index : 0..Failed, arg : Descriptors \cup {NULL},
                                 for : Descriptors \cup {NULL}]]
    <3> DEFINE Job == [pc : {"idle", "call", "in", "disable", "del", "out", "err"},
                           index : 0..Failed, arg : Descriptors \cup {NULL},
                           for : Descriptors \cup {NULL}]
    <3>1. worker \in [Workers -> Job] /\ counter \in 0..Failed
      BY DEF Inv1, TypeOK
    <3>2. \A j \in Job : [[j EXCEPT !.pc = "in"] EXCEPT !.index = counter] \in Job
      BY <3>1
    <3>3. worker' = [worker EXCEPT ![w] = [[@ EXCEPT !.pc = "in"] EXCEPT !.index = counter]]
      BY <1>8, <3>1 DEF JobBegins
    <3> QED
      BY <3>1, <3>2, <3>3
  <2> QED
    BY <1>8, <2>1 DEF JobBegins, Inv1, TypeOK, LoopOK, HasSocket, DisabledExist
<1> QED
  BY <1>1, <1>2, <1>3, <1>4, <1>5, <1>6, <1>7, <1>8 DEF WorkerStep

LEMMA StepInv1 == Inv1 /\ [Next]_vars => Inv1'
<1> SUFFICES ASSUME Inv1, [Next]_vars
             PROVE  Inv1'
  OBVIOUS
<1>1. CASE UNCHANGED vars
  BY <1>1 DEF vars, Inv1, TypeOK, LoopOK, HasSocket, DisabledExist
<1> QED
  BY <1>1, ClientInv1, EnvironmentInv1, LoopInv1, WorkerInv1 DEF Next

LEMMA Layer1 == Spec => []Inv1
<1> QED
  BY InitInv1, StepInv1, PTL DEF Spec

\* Every variable keeps its type; in particular no job is ever queued for a null
\* descriptor, and only registered sockets are ever reported.
THEOREM TypeCorrect == Spec => []TypeOK
<1>1. Inv1 => TypeOK
  BY DEF Inv1
<1> QED
  BY <1>1, Layer1, PTL

-------------------------------------------------------------------------------
(* Layer 2: the map, the interest list and who is on the way between them.    *)
(* The two invariants of the runs need to know that whatever object a thread  *)
(* has in its hands has a socket, and that an entry is filed under its own.   *)
UnbornHasNone == \A d \in Descriptors : client[d] = "none" => fdOf[d] = NULL

FiledUnderOwnSocket == \A f \in Fds : SocketMap[f] # NULL => fdOf[SocketMap[f]] = f

InHandHasSocket ==
    /\ DescriptorPtr # NULL => fdOf[DescriptorPtr] \in Fds
    /\ \A w \in Workers : worker[w].pc = "del" =>
          worker[w].arg \in Descriptors /\ fdOf[worker[w].arg] \in Fds

Inv2 == /\ UnbornHasNone /\ FiledUnderOwnSocket /\ InHandHasSocket
        /\ RegisteredIsFindable /\ ClosedIsUnmapped

LEMMA InitInv2 == Init => Inv2
  BY DEF Init, Inv2, UnbornHasNone, FiledUnderOwnSocket, InHandHasSocket,
         RegisteredIsFindable, ClosedIsUnmapped, Idle

LEMMA UntouchedInv2 ==
  ASSUME Inv2, UNCHANGED <<fdOf, client, disabling, disabled, SocketMap, interest, DescriptorPtr, worker>>
  PROVE  Inv2'
  BY DEF Inv2, UnbornHasNone, FiledUnderOwnSocket, InHandHasSocket,
         RegisteredIsFindable, ClosedIsUnmapped, InTransit

LEMMA EnvironmentInv2 ==
  ASSUME Inv2, Stop \/ (\E f \in Fds : Arrive(f)) \/ \E how \in STRING : Die(how)
  PROVE  Inv2'
  BY UntouchedInv2 DEF Stop, Arrive, Die

LEMMA ClientInv2 ==
  ASSUME Inv1, Inv2, NEW d \in Descriptors, ClientStep(d)
  PROVE  Inv2'
<1> USE NullAssumption DEF Inv1, TypeOK, HasSocket, DisabledExist, Inv2
<1>1. ASSUME NEW f \in Fds, CreateDescriptor(d, f)
      PROVE  Inv2'
  <2>1. /\ fdOf' = [fdOf EXCEPT ![d] = f] /\ client' = [client EXCEPT ![d] = "created"]
        /\ client[d] = "none" /\ fdOf[d] = NULL
        /\ UNCHANGED <<disabling, disabled, SocketMap, interest, DescriptorPtr, worker>>
    BY <1>1 DEF CreateDescriptor, UnbornHasNone
  <2>2. UnbornHasNone'
    BY <2>1 DEF UnbornHasNone
  <2>3. FiledUnderOwnSocket'
    BY <2>1 DEF FiledUnderOwnSocket
  <2>4. InHandHasSocket'
    BY <2>1 DEF InHandHasSocket
  <2>5. \A g \in Fds : InTransit(g) => InTransit(g)'
    BY <2>1 DEF InTransit, InHandHasSocket
  <2>6. RegisteredIsFindable'
    BY <2>1, <2>5 DEF RegisteredIsFindable
  <2>7. ClosedIsUnmapped'
    BY <2>1 DEF ClosedIsUnmapped
  <2> QED
    BY <2>2, <2>3, <2>4, <2>6, <2>7
<1>2. CASE SetCallback(d)
  BY <1>2, UntouchedInv2 DEF SetCallback
<1>3. CASE EnableAdd(d)
  <2>1. /\ client[d] = "created" /\ fdOf[d] \in Fds
        /\ \/ client' = [client EXCEPT ![d] = "added"] /\ interest' = interest \cup {fdOf[d]}
           \/ client' = [client EXCEPT ![d] = "enabled"] /\ interest' = interest
        /\ UNCHANGED <<fdOf, disabling, disabled, SocketMap, DescriptorPtr, worker>>
    BY <1>3 DEF EnableAdd
  <2>2. UnbornHasNone' /\ FiledUnderOwnSocket' /\ InHandHasSocket'
    BY <2>1 DEF UnbornHasNone, FiledUnderOwnSocket, InHandHasSocket
  <2>3. \A g \in Fds : InTransit(g) => InTransit(g)'
    BY <2>1 DEF InTransit
  <2>4. client'[d] = "added" => InTransit(fdOf[d])'
    BY <2>1 DEF InTransit
  <2>5. RegisteredIsFindable'
    BY <2>1, <2>3, <2>4 DEF RegisteredIsFindable
  <2>6. ClosedIsUnmapped'
    BY <2>1 DEF ClosedIsUnmapped
  <2> QED
    BY <2>2, <2>5, <2>6
<1>4. CASE EnableInsert(d)
  <2>1. /\ client[d] = "added" /\ fdOf[d] \in Fds
        /\ SocketMap' = [SocketMap EXCEPT ![fdOf[d]] = d]
        /\ client' = [client EXCEPT ![d] = "enabled"]
        /\ UNCHANGED <<fdOf, disabling, disabled, interest, DescriptorPtr, worker>>
    BY <1>4 DEF EnableInsert
  <2>2. UnbornHasNone' /\ FiledUnderOwnSocket' /\ InHandHasSocket'
    BY <2>1 DEF UnbornHasNone, FiledUnderOwnSocket, InHandHasSocket
  <2>3. \A g \in Fds : g # fdOf[d] /\ InTransit(g) => InTransit(g)'
    BY <2>1 DEF InTransit
  <2>4. RegisteredIsFindable'
    BY <2>1, <2>3 DEF RegisteredIsFindable
  <2>5. ClosedIsUnmapped'
    BY <2>1 DEF ClosedIsUnmapped
  <2> QED
    BY <2>2, <2>4, <2>5
<1>5. CASE DisableErase(d)
  <2>1. /\ fdOf[d] \in Fds
        /\ SocketMap' = [SocketMap EXCEPT ![fdOf[d]] = NULL]
        /\ disabling' = IF SocketMap[fdOf[d]] = NULL THEN disabling ELSE disabling \cup {d}
        /\ disabled' \subseteq disabled \cup {d} /\ d \in Descriptors
        /\ UNCHANGED <<fdOf, client, interest, DescriptorPtr, worker>>
    BY <1>5 DEF DisableErase, EraseEntry, Disabled
  <2>2. UnbornHasNone' /\ FiledUnderOwnSocket' /\ InHandHasSocket'
    BY <2>1 DEF UnbornHasNone, FiledUnderOwnSocket, InHandHasSocket
  <2>3. \A g \in Fds : InTransit(g) => InTransit(g)'
    BY <2>1 DEF InTransit
  <2>4. SocketMap[fdOf[d]] # NULL => InTransit(fdOf[d])'
    BY <2>1 DEF InTransit
  <2>5. RegisteredIsFindable'
    BY <2>1, <2>3, <2>4 DEF RegisteredIsFindable
  <2>6. ClosedIsUnmapped'
    BY <2>1 DEF ClosedIsUnmapped
  <2> QED
    BY <2>2, <2>5, <2>6
<1>6. CASE DisableDel(d)
  <2>1. /\ fdOf[d] \in Fds
        /\ interest' = interest \ {fdOf[d]}
        /\ disabling' = disabling \ {d}
        /\ UNCHANGED <<fdOf, client, disabled, SocketMap, DescriptorPtr, worker>>
    BY <1>6 DEF DisableDel, Unregister
  <2>2. UnbornHasNone' /\ FiledUnderOwnSocket' /\ InHandHasSocket'
    BY <2>1 DEF UnbornHasNone, FiledUnderOwnSocket, InHandHasSocket
  <2>3. \A g \in Fds : g # fdOf[d] /\ InTransit(g) => InTransit(g)'
    BY <2>1 DEF InTransit
  <2>4. RegisteredIsFindable'
    BY <2>1, <2>3 DEF RegisteredIsFindable
  <2>5. ClosedIsUnmapped'
    BY <2>1 DEF ClosedIsUnmapped
  <2> QED
    BY <2>2, <2>4, <2>5
<1> QED
  BY <1>1, <1>2, <1>3, <1>4, <1>5, <1>6 DEF ClientStep

LEMMA LoopInv2 ==
  ASSUME Inv1, Inv2, LoopStep \/ WaitInterrupted
  PROVE  Inv2'
<1> USE NullAssumption DEF Inv1, TypeOK, HasSocket, DisabledExist, Inv2, notLoop
<1>1. CASE LoopTop \/ EpollWait \/ WaitInterrupted \/ EnqueueJob \/ LoopNext \/ LoopEnd
  BY <1>1, UntouchedInv2
  DEF LoopTop, EpollWait, WaitInterrupted, EnqueueJob, LoopNext, LoopEnd
<1>2. CASE Lookup
  <2>1. CASE Die("overrun")
    BY <2>1, UntouchedInv2 DEF Die
  <2>2. ASSUME NEW f \in Fds, DescriptorPtr' = SocketMap[f],
               UNCHANGED <<fdOf, client, disabling, disabled, SocketMap, interest, worker>>
        PROVE  Inv2'
    <3>1. InHandHasSocket'
      BY <2>2 DEF InHandHasSocket, FiledUnderOwnSocket
    <3> QED
      BY <2>2, <3>1 DEF UnbornHasNone, FiledUnderOwnSocket, RegisteredIsFindable,
                        ClosedIsUnmapped, InTransit
  <2>3. \A i \in Index : SocketsOf(epollEvents[i]) \subseteq Fds
    BY DEF SocketsOf
  <2> QED
    BY <1>2, <2>1, <2>2, <2>3 DEF Lookup
<1>3. CASE LoopClose \/ LoopDel
  <2>1. /\ interest' = interest \ {descriptor}
        /\ UNCHANGED <<fdOf, client, disabling, disabled, SocketMap, DescriptorPtr, worker>>
    BY <1>3 DEF LoopClose, LoopDel, Unregister
  <2> QED
    BY <2>1 DEF UnbornHasNone, FiledUnderOwnSocket, InHandHasSocket, RegisteredIsFindable,
                ClosedIsUnmapped, InTransit
<1> QED
  BY <1>1, <1>2, <1>3 DEF LoopStep

\* A worker that moves between pcs other than "del" disturbs nothing.
LEMMA BecomesInv2 ==
  ASSUME Inv1, Inv2, NEW w \in Workers, NEW r, r.pc # "del", worker[w].pc # "del",
         worker' = [worker EXCEPT ![w] = r],
         UNCHANGED <<fdOf, client, disabling, disabled, SocketMap, interest, DescriptorPtr>>
  PROVE  Inv2'
<1>1. \A v \in Workers : \/ worker'[v] = worker[v]
                         \/ worker[v].pc # "del" /\ worker'[v].pc # "del"
  BY DEF Inv1, TypeOK
<1>2. \A g \in Fds : InTransit(g) => InTransit(g)'
  BY <1>1 DEF InTransit
<1>3. InHandHasSocket'
  BY <1>1 DEF Inv2, InHandHasSocket
<1>4. RegisteredIsFindable'
  BY <1>2 DEF Inv1, TypeOK, Inv2, RegisteredIsFindable
<1> QED
  BY <1>3, <1>4 DEF Inv2, UnbornHasNone, FiledUnderOwnSocket, ClosedIsUnmapped

LEMMA WorkerInv2 ==
  ASSUME Inv1, Inv2, NEW w \in Workers, WorkerStep(w)
  PROVE  Inv2'
<1>d. ASSUME NEW how, Die(how)
      PROVE  Inv2'
  BY <1>d, UntouchedInv2 DEF Die
<1>b. ASSUME NEW p, Becomes(w, p), p # "del", worker[w].pc # "del",
             UNCHANGED <<fdOf, client, disabling, disabled, SocketMap, interest, DescriptorPtr>>
      PROVE  Inv2'
  <2>1. worker' = [worker EXCEPT ![w] = [worker[w] EXCEPT !.pc = p]]
    BY <1>b DEF Becomes
  <2>2. [worker[w] EXCEPT !.pc = p].pc = p
    BY DEF Inv1, TypeOK
  <2> QED
    BY <1>b, <2>1, <2>2, BecomesInv2
<1>1. CASE TakeJob(w)
  <2>1. worker' = [worker EXCEPT ![w] = [[worker[w] EXCEPT !.pc = "call"]
                                                    EXCEPT !.for = Head(queue)]]
    BY <1>1 DEF TakeJob, Inv1, TypeOK
  <2>2. [[worker[w] EXCEPT !.pc = "call"] EXCEPT !.for = Head(queue)].pc # "del"
    BY DEF Inv1, TypeOK
  <2> QED
    BY <1>1, <2>1, <2>2, BecomesInv2 DEF TakeJob, notJob
<1>2. CASE TestIn(w)
  <2>1. \/ (Becomes(w, "out") \/ Becomes(w, "disable"))
             /\ UNCHANGED <<fdOf, client, disabling, disabled, SocketMap, interest, DescriptorPtr>>
        \/ Die("nullDescriptor") \/ Die("nullCallback") \/ Die("thrown")
    BY <1>2 DEF TestIn, notJob
  <2>2. worker[w].pc # "del"
    BY <1>2 DEF TestIn
  <2> QED
    BY <2>1, <2>2, <1>d, <1>b
<1>3. CASE JobErase(w) /\ ~Die("nullDescriptor")
  <2> DEFINE d == DescriptorPtr
  <2>1. /\ d \in Descriptors /\ fdOf[d] \in Fds /\ worker[w].pc # "del"
        /\ SocketMap' = [SocketMap EXCEPT ![fdOf[d]] = NULL]
        /\ worker' = [worker EXCEPT ![w].pc = IF SocketMap[fdOf[d]] = NULL THEN "out" ELSE "del",
                                    ![w].arg = d]
        /\ disabled' \subseteq disabled \cup {d}
        /\ UNCHANGED <<fdOf, client, disabling, interest, DescriptorPtr>>
    BY <1>3 DEF JobErase, EraseEntry, Disabled, notJob, Inv1, TypeOK, Inv2, InHandHasSocket
  <2>2. \A v \in Workers : v # w => worker'[v] = worker[v]
    BY <2>1 DEF Inv1, TypeOK
  <2>3. worker'[w].arg = d /\ worker'[w].pc = IF SocketMap[fdOf[d]] = NULL THEN "out" ELSE "del"
    BY <2>1 DEF Inv1, TypeOK
  <2>4. InHandHasSocket'
    BY <2>1, <2>2, <2>3 DEF Inv2, InHandHasSocket
  <2>5. \A g \in Fds : InTransit(g) => InTransit(g)'
    BY <2>1, <2>2 DEF InTransit
  <2>6. SocketMap[fdOf[d]] # NULL => InTransit(fdOf[d])'
    BY <2>1, <2>3 DEF InTransit
  <2>7. RegisteredIsFindable'
    BY <2>1, <2>5, <2>6 DEF Inv1, TypeOK, Inv2, RegisteredIsFindable
  <2>8. UnbornHasNone' /\ FiledUnderOwnSocket'
    BY <2>1, NullAssumption DEF Inv1, TypeOK, Inv2, UnbornHasNone, FiledUnderOwnSocket
  <2>9. ClosedIsUnmapped'
    <3>1. \A e \in disabled : e \in Descriptors /\ fdOf[e] \in Fds
      BY DEF Inv1, TypeOK, HasSocket, DisabledExist
    <3> QED
      BY <2>1, <3>1, NullAssumption DEF Inv1, TypeOK, Inv2, ClosedIsUnmapped
  <2> QED
    BY <2>4, <2>7, <2>8, <2>9 DEF Inv2
<1>4. CASE JobDel(w)
  <2> DEFINE f == fdOf[worker[w].arg]
  <2>1. /\ interest' = interest \ {f} /\ f \in Fds /\ worker[w].pc = "del"
        /\ worker' = [worker EXCEPT ![w].pc = "out"]
        /\ UNCHANGED <<fdOf, client, disabling, disabled, SocketMap, DescriptorPtr>>
    BY <1>4 DEF JobDel, Unregister, Becomes, notJob, Inv2, InHandHasSocket
  <2>2. \A v \in Workers : v # w => worker'[v] = worker[v]
    BY <2>1 DEF Inv1, TypeOK
  <2>3. worker'[w].pc = "out"
    BY <2>1 DEF Inv1, TypeOK
  <2>4. InHandHasSocket'
    BY <2>1, <2>2, <2>3 DEF Inv2, InHandHasSocket
  <2>5. \A g \in Fds : g # f /\ InTransit(g) => InTransit(g)'
    BY <2>1, <2>2 DEF InTransit
  <2>6. RegisteredIsFindable'
    BY <2>1, <2>5 DEF Inv1, TypeOK, Inv2, RegisteredIsFindable
  <2> QED
    BY <2>1, <2>4, <2>6 DEF Inv2, UnbornHasNone, FiledUnderOwnSocket, ClosedIsUnmapped
<1>5. CASE TestOut(w)
  <2>1. \/ Becomes(w, "err") /\ UNCHANGED <<fdOf, client, disabling, disabled, SocketMap, interest, DescriptorPtr>>
        \/ Die("nullDescriptor")
    BY <1>5 DEF TestOut, notJob
  <2>2. worker[w].pc # "del"
    BY <1>5 DEF TestOut
  <2> QED
    BY <2>1, <2>2, <1>d, <1>b
<1>6. CASE TestErr(w)
  <2>1. \/ worker' = [worker EXCEPT ![w] = Idle]
             /\ UNCHANGED <<fdOf, client, disabling, disabled, SocketMap, interest, DescriptorPtr>>
        \/ Die("nullDescriptor") \/ Die("thrown")
    BY <1>6 DEF TestErr, notJob
  <2>2. worker[w].pc # "del" /\ Idle.pc # "del"
    BY <1>6 DEF TestErr, Idle
  <2> QED
    BY <2>1, <2>2, <1>d, BecomesInv2
<1>7. CASE FrameGone(w)
  BY <1>7, <1>d DEF FrameGone
<1>8. CASE JobBegins(w)
  <2>1. worker' = [worker EXCEPT ![w] = [[worker[w] EXCEPT !.pc = "in"]
                                                    EXCEPT !.index = counter]]
    BY <1>8 DEF JobBegins, Inv1, TypeOK
  <2>2. [[worker[w] EXCEPT !.pc = "in"] EXCEPT !.index = counter].pc # "del"
    BY DEF Inv1, TypeOK
  <2> QED
    BY <1>8, <2>1, <2>2, BecomesInv2 DEF JobBegins, notJob
<1> QED
  BY <1>1, <1>2, <1>3, <1>4, <1>5, <1>6, <1>7, <1>8, <1>d DEF WorkerStep

LEMMA StepInv2 == Inv1 /\ Inv2 /\ [Next]_vars => Inv2'
<1> SUFFICES ASSUME Inv1, Inv2, [Next]_vars
             PROVE  Inv2'
  OBVIOUS
<1>1. CASE UNCHANGED vars
  BY <1>1, UntouchedInv2 DEF vars
<1> QED
  BY <1>1, ClientInv2, EnvironmentInv2, LoopInv2, WorkerInv2 DEF Next

LEMMA Layer2 == Spec => []Inv2
<1> QED
  BY InitInv2, StepInv2, Layer1, PTL DEF Spec

\* However Enable, Disable, the jobs and the loop interleave, a registered socket
\* is in the map or some thread is about to file it or to unregister it.
THEOREM Findable == Spec => []RegisteredIsFindable
<1>1. Inv2 => RegisteredIsFindable
  BY DEF Inv2
<1> QED
  BY <1>1, Layer2, PTL

\* An object of which a Disable has come after its Enable never comes back into
\* the map; one disabled between the halves of Enable may.
THEOREM Unmapped == Spec => []ClosedIsUnmapped
<1>1. Inv2 => ClosedIsUnmapped
  BY DEF Inv2
<1> QED
  BY <1>1, Layer2, PTL

-------------------------------------------------------------------------------
(* Layer 3: the part of the batch still to come names open sockets, each once,*)
(* and the objects that had opened them when the batch was taken.             *)
PendingFrom == IF loop \in {"del", "next"} THEN counter + 1 ELSE counter

InBatch == loop \in {"for", "close", "del", "enqueue", "next"} /\ EventCount # Failed

Pending == {i \in Index : PendingFrom <= i /\ i < EventCount}

BatchOK ==
    InBatch =>
      /\ \A i \in Pending : /\ epollEvents[i].fd \in Fds /\ epollEvents[i].source # NULL
                            /\ owner[epollEvents[i].fd] = epollEvents[i].source
      /\ \A i, j \in Pending : epollEvents[i].fd = epollEvents[j].fd => i = j
      /\ loop = "close" => descriptor = epollEvents[counter].fd

RegisteredIsOpen == \A f \in interest : owner[f] # NULL

Inv3 == BatchOK /\ RegisteredIsOpen

LEMMA InitInv3 == Init => Inv3
  BY DEF Init, Inv3, BatchOK, InBatch, RegisteredIsOpen

LEMMA UntouchedInv3 ==
  ASSUME Inv3, UNCHANGED <<loop, EventCount, counter, descriptor, epollEvents, owner>>,
         interest' \subseteq interest
  PROVE  Inv3'
  BY DEF Inv3, BatchOK, InBatch, Pending, PendingFrom, RegisteredIsOpen

LEMMA EnvironmentInv3 ==
  ASSUME Inv3, Stop \/ (\E f \in Fds : Arrive(f)) \/ \E how \in STRING : Die(how)
  PROVE  Inv3'
  BY UntouchedInv3 DEF Stop, Arrive, Die

LEMMA WorkerInv3 ==
  ASSUME Inv3, NEW w \in Workers, WorkerStep(w)
  PROVE  Inv3'
  BY UntouchedInv3
  DEF WorkerStep, TakeJob, JobBegins, TestIn, JobErase, JobDel, TestOut, TestErr, FrameGone, Die,
      Unregister, notJob

LEMMA ClientInv3 ==
  ASSUME Inv1, Inv3, NEW d \in Descriptors, ClientStep(d)
  PROVE  Inv3'
<1>1. ASSUME NEW f \in Fds, CreateDescriptor(d, f)
      PROVE  Inv3'
  <2>1. /\ owner[f] = NULL /\ owner' = [owner EXCEPT ![f] = d]
        /\ UNCHANGED <<loop, EventCount, counter, descriptor, epollEvents, interest>>
    BY <1>1 DEF CreateDescriptor
  <2>2. RegisteredIsOpen'
    BY <2>1, NullAssumption DEF Inv1, TypeOK, Inv3, RegisteredIsOpen
  <2>3. BatchOK'
    BY <2>1 DEF Inv1, TypeOK, Inv3, BatchOK, InBatch, Pending, PendingFrom
  <2> QED
    BY <2>2, <2>3 DEF Inv3
<1>2. CASE EnableAdd(d)
  <2>1. /\ \/ interest' = interest
           \/ interest' = interest \cup {fdOf[d]} /\ owner[fdOf[d]] # NULL
        /\ UNCHANGED <<loop, EventCount, counter, descriptor, epollEvents, owner>>
    BY <1>2 DEF EnableAdd
  <2> QED
    BY <2>1 DEF Inv3, BatchOK, InBatch, Pending, PendingFrom, RegisteredIsOpen
<1>3. CASE SetCallback(d) \/ EnableInsert(d) \/ DisableErase(d) \/ DisableDel(d)
  BY <1>3, UntouchedInv3
  DEF SetCallback, EnableInsert, DisableErase, DisableDel, Unregister
<1> QED
  BY <1>1, <1>2, <1>3 DEF ClientStep

LEMMA LoopInv3 ==
  ASSUME Inv1, Inv3, LoopStep \/ WaitInterrupted
  PROVE  Inv3'
<1> USE DEF notLoop
<1>c. counter \in Nat /\ EventCount \in Nat
  BY MaxEventsAssumption DEF Inv1, TypeOK, Failed
<1>1. CASE LoopTop \/ WaitInterrupted \/ LoopEnd
  BY <1>1 DEF LoopTop, WaitInterrupted, LoopEnd, Inv3, BatchOK, InBatch, RegisteredIsOpen
<1>2. CASE EpollWait
  <2>1. PICK batch \in Batches :
          /\ epollEvents' = [i \in Index |-> IF i < Len(batch) THEN batch[i + 1]
                                             ELSE epollEvents[i]]
          /\ EventCount' = Len(batch)
    BY <1>2 DEF EpollWait
  <2>2. counter' = 0 /\ loop' = "for" /\ UNCHANGED <<owner, interest>>
    BY <1>2 DEF EpollWait
  <2>3. ASSUME NEW i \in Index, i < Len(batch)
        PROVE  /\ i + 1 \in 1..Len(batch) /\ epollEvents'[i] = batch[i + 1]
               /\ batch[i + 1].fd \in Fds /\ batch[i + 1].source # NULL
               /\ owner[batch[i + 1].fd] = batch[i + 1].source
    <3>1. i + 1 \in 1..Len(batch)
      BY <2>3, BatchType DEF Index
    <3>2. /\ batch[i + 1].fd \in ready /\ batch[i + 1].source \in Descriptors
          /\ batch[i + 1].source = owner[batch[i + 1].fd]
      BY <3>1, BatchType
    <3> QED
      BY <2>1, <2>3, <3>1, <3>2, NullAssumption DEF Inv1, TypeOK
  <2>4. \A i \in Pending' : i \in Index /\ i < Len(batch)
    BY <2>1 DEF Pending
  <2>5. ASSUME NEW i \in Pending', NEW j \in Pending', epollEvents'[i].fd = epollEvents'[j].fd
        PROVE  i = j
    <3>1. i \in Nat /\ j \in Nat
      BY <2>4 DEF Index
    <3>2. i + 1 = j + 1
      BY <2>3, <2>4, <2>5, BatchType
    <3> QED
      BY <3>1, <3>2
  <2>6. BatchOK'
    BY <2>2, <2>3, <2>4, <2>5 DEF BatchOK
  <2> QED
    BY <2>2, <2>6 DEF Inv3, RegisteredIsOpen
<1>3. CASE Lookup
  <2>1. CASE Die("overrun")
    BY <2>1, UntouchedInv3 DEF Die
  <2>2. CASE ~Die("overrun")
    <3>1. /\ loop = "for" /\ counter < EventCount /\ counter \in Index
          /\ loop' \in {"close", "enqueue"}
          /\ descriptor' \in SocketsOf(epollEvents[counter])
          /\ UNCHANGED <<owner, interest, epollEvents, EventCount, counter>>
      BY <1>3, <2>2 DEF Lookup
    <3>2. Pending' = Pending /\ (InBatch' => InBatch)
      BY <3>1 DEF Pending, PendingFrom, InBatch
    <3>3. InBatch => counter \in Pending
      BY <3>1, <1>c DEF Pending, PendingFrom
    <3>4. InBatch => epollEvents[counter].fd \in Fds
      BY <3>1, <3>3 DEF Inv3, BatchOK
    <3>5. InBatch => descriptor' = epollEvents[counter].fd
      BY <3>1, <3>4, NullAssumption DEF SocketsOf
    <3> QED
      BY <3>1, <3>2, <3>5 DEF Inv3, BatchOK, RegisteredIsOpen
  <2> QED
    BY <2>1, <2>2
<1>4. CASE LoopClose
  <2>1. /\ loop = "close" /\ loop' = "del"
        /\ owner' = [owner EXCEPT ![descriptor] = NULL]
        /\ interest' = interest \ {descriptor}
        /\ UNCHANGED <<epollEvents, EventCount, counter>>
    BY <1>4 DEF LoopClose
  <2>2. counter \in Index /\ counter < EventCount
    BY <2>1 DEF Inv1, LoopOK
  <2>3. Pending' \subseteq Pending /\ counter \in Pending /\ counter \notin Pending'
    BY <2>1, <2>2, <1>c DEF Pending, PendingFrom, Index
  <2>4. ASSUME InBatch
        PROVE  \A i \in Pending' : epollEvents[i].fd # descriptor
    BY <2>1, <2>3, <2>4 DEF Inv3, BatchOK
  <2>5. BatchOK'
    BY <2>1, <2>3, <2>4 DEF Inv1, TypeOK, Inv3, BatchOK, InBatch
  <2>6. RegisteredIsOpen'
    BY <2>1 DEF Inv1, TypeOK, Inv3, RegisteredIsOpen
  <2> QED
    BY <2>5, <2>6 DEF Inv3
<1>5. CASE LoopDel \/ EnqueueJob \/ LoopNext
  <2>1. /\ loop \in {"del", "enqueue", "next"} /\ loop' \in {"for", "next"}
        /\ interest' \subseteq interest
        /\ UNCHANGED <<owner, epollEvents, EventCount>>
    BY <1>5 DEF LoopDel, EnqueueJob, LoopNext, Unregister
  <2>2. PendingFrom <= PendingFrom' /\ PendingFrom' \in Nat /\ PendingFrom \in Nat
    BY <1>5, <1>c DEF LoopDel, EnqueueJob, LoopNext, PendingFrom
  <2>3. Pending' \subseteq Pending
    BY <2>1, <2>2, <1>c DEF Pending, Index
  <2> QED
    BY <2>1, <2>3 DEF Inv3, BatchOK, InBatch, RegisteredIsOpen
<1> QED
  BY <1>1, <1>2, <1>3, <1>4, <1>5 DEF LoopStep

LEMMA StepInv3 == Inv1 /\ Inv3 /\ [Next]_vars => Inv3'
<1> SUFFICES ASSUME Inv1, Inv3, [Next]_vars
             PROVE  Inv3'
  OBVIOUS
<1>1. CASE UNCHANGED vars
  BY <1>1, UntouchedInv3 DEF vars
<1> QED
  BY <1>1, ClientInv3, EnvironmentInv3, LoopInv3, WorkerInv3 DEF Next

\* While it goes through a batch the loop closes only sockets that are still the
\* ones reported, never one that was opened under the same number since.
THEOREM ClosesReported == Spec => []ClosesWhatWasReported
<1>1. Inv1 /\ Inv3 => ClosesWhatWasReported
  <2> SUFFICES ASSUME Inv1, Inv3, loop = "close", EventCount # Failed
               PROVE  owner[descriptor] = epollEvents[counter].source
    BY DEF ClosesWhatWasReported
  <2>1. counter \in Pending /\ InBatch
    BY MaxEventsAssumption DEF Inv1, LoopOK, Pending, PendingFrom, InBatch, Index
  <2> QED
    BY <2>1 DEF Inv3, BatchOK
<1> QED
  BY <1>1, InitInv3, StepInv3, Layer1, PTL DEF Spec
===============================================================================
