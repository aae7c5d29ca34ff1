----------------------------- MODULE EpollContext -----------------------------
(***************************************************************************)
(* EventLoop::EpollContextImpl: the event loop, the jobs it hands to the    *)
(* thread pool, and the Enable and Disable calls that clients and jobs make *)
(* concurrently with it.                                                    *)
(*                                                                          *)
(* A step is what one thread does between two points where another can      *)
(* interfere: a locked section on _SocketMap, a system call, or an access   *)
(* to a variable of DoWork's frame that the jobs capture by reference.      *)
(* Those variables keep their last value when they go out of scope, which   *)
(* is what a stack slot does until DoWork returns; `descriptor', which no   *)
(* job sees, is forgotten.                                                  *)
(*                                                                          *)
(* No descriptor is deleted: the one `delete' of the source is of a         *)
(* connection turned away before Enable, in a callback that _Read, which    *)
(* only ever calls _ExceptCallback, never reaches.                          *)
(*                                                                          *)
(* The kernel is modelled by what the code asks of it: descriptor numbers   *)
(* that close() frees and a later socket reuses, an interest list, and an   *)
(* edge-triggered ready list.  No byte is ever read (_Read asks for none),  *)
(* so a socket stays readable once something has arrived.                   *)
(***************************************************************************)
EXTENDS Integers, Sequences, FiniteSets

CONSTANTS Descriptors,  \* IDescriptor objects
          Listeners,    \* those owned by a ListenerComponent
          Fds,          \* socket numbers
          Workers,      \* threads of the pool
          MaxEvents,    \* MAX_EVENTS
          MaxArrivals,  \* bound on the packets the peers send
          NULL

ASSUME ListenersAssumption == Listeners \subseteq Descriptors
ASSUME FdsAssumption == IsFiniteSet(Fds)
ASSUME MaxEventsAssumption == MaxEvents \in Nat \ {0}
ASSUME MaxArrivalsAssumption == MaxArrivals \in Nat
ASSUME NullAssumption == NULL \notin Descriptors \cup Fds

VARIABLES
    fdOf,           \* _descriptor of each object, NULL until it is created
    callback,       \* the objects whose SetCallback has been called
    client,         \* how far the thread that opens and enables each object is
    disabling,      \* objects a client's Disable of which has still to unregister
    disabled,       \* history: objects disabled after their Enable was through
    SocketMap,      \* _SocketMap: the object registered under a socket
    owner,          \* kernel: the object that opened the socket, NULL when free
    interest,       \* kernel: sockets registered with the epoll handle
    ready,          \* kernel: registered sockets with an edge to report
    readable,       \* kernel: sockets with something to read
    arrivals,       \* packets sent so far
    loop,           \* where the thread in DoWork stands
    stop,           \* Runnable::_Stop
    epollEvents,    \* epoll_events
    EventCount,
    counter,
    descriptor,
    DescriptorPtr,
    queue,          \* the pool's jobs, each with the object it was made for
    worker,         \* what each thread of the pool is doing
    fault           \* how the process died

clientVars == <<fdOf, callback, client, disabling, disabled>>
kernelVars == <<owner, interest, ready, readable>>
frameVars == <<epollEvents, EventCount, counter, descriptor, DescriptorPtr>>
vars == <<clientVars, SocketMap, kernelVars, arrivals, loop, stop, frameVars,
          queue, worker, fault>>

Bits == {"IN", "OUT", "ERR"}

\* Enable asks for EPOLLIN only; on a stream socket an error sets it as well.
Reported == {{"IN"}, {"IN", "ERR"}}

Index == 0..(MaxEvents - 1)
Unfilled == [fd |-> NULL, events |-> {}, source |-> NULL]
Idle == [pc |-> "idle", index |-> 0, arg |-> NULL, for |-> NULL]

\* EventCount is unsigned, so the -1 of a failed epoll_wait is larger than any
\* index: one past the array stands for it.
Failed == MaxEvents + 1

Init == /\ fdOf = [d \in Descriptors |-> NULL]
        /\ callback = {}
        /\ client = [d \in Descriptors |-> "none"]
        /\ disabling = {} /\ disabled = {}
        /\ SocketMap = [f \in Fds |-> NULL]
        /\ owner = [f \in Fds |-> NULL]
        /\ interest = {} /\ ready = {} /\ readable = {}
        /\ arrivals = 0
        /\ loop = "top" /\ stop = FALSE
        /\ epollEvents = [i \in Index |-> Unfilled]
        /\ EventCount = 0 /\ counter = 0
        /\ descriptor = NULL /\ DescriptorPtr = NULL
        /\ queue = <<>>
        /\ worker = [w \in Workers |-> Idle]
        /\ fault = "none"

Die(how) == /\ fault' = how
            /\ UNCHANGED <<clientVars, SocketMap, kernelVars, arrivals, loop, stop,
                           frameVars, queue, worker>>

\* (Mutant: EPOLL_CTL_DEL left out.)
UnregisterNothing(f) == UNCHANGED kernelVars

\* EPOLL_CTL_DEL.
Unregister(f) == /\ interest' = interest \ {f} /\ ready' = ready \ {f}
                 /\ UNCHANGED <<owner, readable>>

\* (Mutant: the entry left in the map.)
EraseNothing(d) == UNCHANGED SocketMap

\* The locked half of Disable: the entry erased is the one of the socket,
\* whichever object it holds.
EraseEntry(d) == SocketMap' = [SocketMap EXCEPT ![fdOf[d]] = NULL]

Disabled(d) == disabled' = IF client[d] = "enabled" THEN disabled \cup {d} ELSE disabled

-------------------------------------------------------------------------------
(* Clients.  One thread opens an object and enables it, once; TCPLinkImpl     *)
(* calls SetCallback after Enable, the listener component before it.  Another *)
(* thread may disable it meanwhile: a link can be closed by whoever holds it. *)
(* One client at a time is inside Disable of an object; jobs may be as well.  *)

CreateDescriptor(d, f) ==
    /\ client[d] = "none" /\ owner[f] = NULL
    /\ fdOf' = [fdOf EXCEPT ![d] = f]
    /\ owner' = [owner EXCEPT ![f] = d]
    /\ client' = [client EXCEPT ![d] = "created"]
    /\ UNCHANGED <<callback, disabling, disabled, SocketMap, interest, ready, readable,
                   arrivals, loop, stop, frameVars, queue, worker, fault>>

SetCallback(d) ==
    /\ d \notin callback
    /\ client[d] = IF d \in Listeners THEN "created" ELSE "enabled"
    /\ callback' = callback \cup {d}
    /\ UNCHANGED <<fdOf, client, disabling, disabled, SocketMap, kernelVars, arrivals, loop,
                   stop, frameVars, queue, worker, fault>>

\* EPOLL_CTL_ADD: refused for a socket that is closed or already registered;
\* otherwise reports at once what is there to read.
EnableAdd(d) ==
    LET f == fdOf[d]
        added == owner[f] # NULL /\ f \notin interest IN
    /\ client[d] = "created"
    /\ d \in Listeners => d \in callback
    /\ client' = [client EXCEPT ![d] = IF added THEN "added" ELSE "enabled"]
    /\ interest' = IF added THEN interest \cup {f} ELSE interest
    /\ ready' = IF added /\ f \in readable THEN ready \cup {f} ELSE ready
    /\ UNCHANGED <<fdOf, callback, disabling, disabled, SocketMap, owner, readable, arrivals,
                   loop, stop, frameVars, queue, worker, fault>>

EnableInsert(d) ==
    /\ client[d] = "added"
    /\ SocketMap' = [SocketMap EXCEPT ![fdOf[d]] = d]
    /\ client' = [client EXCEPT ![d] = "enabled"]
    /\ UNCHANGED <<fdOf, callback, disabling, disabled, kernelVars, arrivals, loop, stop,
                   frameVars, queue, worker, fault>>

\* Close and Shutdown both call Disable, at any time and more than once.  Between
\* the two halves of Enable it finds nothing and returns.
DisableErase(d) ==
    /\ client[d] # "none" /\ d \notin disabling
    /\ EraseEntry(d)
    /\ disabling' = IF SocketMap[fdOf[d]] = NULL THEN disabling ELSE disabling \cup {d}
    /\ Disabled(d)
    /\ UNCHANGED <<fdOf, callback, client, kernelVars, arrivals, loop, stop, frameVars, queue,
                   worker, fault>>

DisableDel(d) ==
    /\ d \in disabling
    /\ Unregister(fdOf[d])
    /\ disabling' = disabling \ {d}
    /\ UNCHANGED <<fdOf, callback, client, disabled, SocketMap, arrivals, loop, stop,
                   frameVars, queue, worker, fault>>

\* Runnable::Stop raises the flag and waits in join for the loop to return.
Stop == /\ ~stop
        /\ stop' = TRUE
        /\ UNCHANGED <<clientVars, SocketMap, kernelVars, arrivals, loop, frameVars, queue,
                       worker, fault>>

Arrive(f) ==
    /\ owner[f] # NULL /\ arrivals < MaxArrivals
    /\ arrivals' = arrivals + 1
    /\ readable' = readable \cup {f}
    /\ ready' = IF f \in interest THEN ready \cup {f} ELSE ready
    /\ UNCHANGED <<clientVars, SocketMap, owner, interest, loop, stop, frameVars, queue,
                   worker, fault>>

-------------------------------------------------------------------------------
(* The thread in DoWork.                                                      *)

notLoop == <<clientVars, SocketMap, owner, interest, readable, arrivals, stop, worker, fault>>

\* (Mutant: IsStop() not asked.)
LoopTopIgnoringStop ==
    /\ loop = "top"
    /\ loop' = "wait"
    /\ UNCHANGED <<notLoop, ready, frameVars, queue>>

LoopTop ==
    /\ loop = "top"
    /\ loop' = IF stop THEN "returned" ELSE "wait"
    /\ UNCHANGED <<notLoop, ready, frameVars, queue>>

\* The ready sockets, in any order, as many as the array holds.
Batches ==
    LET n == IF Cardinality(ready) < MaxEvents THEN Cardinality(ready) ELSE MaxEvents IN
    {b \in [1..n -> [fd : ready, events : Reported, source : Descriptors]] :
        /\ \A i, j \in 1..n : b[i].fd = b[j].fd => i = j
        /\ \A i \in 1..n : b[i].source = owner[b[i].fd]}

EpollWait ==
    /\ loop = "wait" /\ ready # {}
    /\ \E batch \in Batches :
         /\ epollEvents' = [i \in Index |-> IF i < Len(batch) THEN batch[i + 1]
                                            ELSE epollEvents[i]]
         /\ EventCount' = Len(batch)
         /\ ready' = ready \ {batch[i].fd : i \in DOMAIN batch}
    /\ counter' = 0
    /\ loop' = "for"
    /\ UNCHANGED <<notLoop, descriptor, DescriptorPtr, queue>>

\* A signal: `EventCount < 0' never holds, and the entries of earlier batches
\* are gone through again.
WaitInterrupted ==
    /\ loop = "wait"
    /\ EventCount' = Failed
    /\ counter' = 0
    /\ loop' = "for"
    /\ UNCHANGED <<notLoop, ready, epollEvents, descriptor, DescriptorPtr, queue>>

\* An entry never filled in holds any number.
SocketsOf(entry) == IF entry.fd = NULL THEN Fds ELSE {entry.fd}

\* (Mutant: the pointer found not tested.)
LookupUntested ==
    /\ loop = "for" /\ counter < EventCount /\ counter \in Index
    /\ \E f \in SocketsOf(epollEvents[counter]) :
         descriptor' = f /\ DescriptorPtr' = SocketMap[f]
    /\ loop' = "enqueue"
    /\ UNCHANGED <<notLoop, ready, epollEvents, EventCount, counter, queue>>

Lookup ==
    /\ loop = "for" /\ counter < EventCount
    /\ \/ counter \notin Index /\ Die("overrun")
       \/ /\ counter \in Index
          /\ \E f \in SocketsOf(epollEvents[counter]) :
               /\ descriptor' = f
               /\ DescriptorPtr' = SocketMap[f]
          /\ loop' = IF DescriptorPtr' = NULL THEN "close" ELSE "enqueue"
          /\ UNCHANGED <<notLoop, ready, epollEvents, EventCount, counter, queue>>

LoopClose ==
    /\ loop = "close"
    /\ owner' = [owner EXCEPT ![descriptor] = NULL]
    /\ interest' = interest \ {descriptor} /\ ready' = ready \ {descriptor}
    /\ readable' = readable \ {descriptor}
    /\ loop' = "del"
    /\ UNCHANGED <<clientVars, SocketMap, arrivals, stop, frameVars, queue, worker, fault>>

LoopDel ==
    /\ loop = "del"
    /\ Unregister(descriptor)
    /\ descriptor' = NULL
    /\ loop' = "next"
    /\ UNCHANGED <<clientVars, SocketMap, arrivals, stop, epollEvents, EventCount, counter,
                   DescriptorPtr, queue, worker, fault>>

EnqueueJob ==
    /\ loop = "enqueue"
    /\ queue' = Append(queue, DescriptorPtr)
    /\ descriptor' = NULL
    /\ loop' = "next"
    /\ UNCHANGED <<notLoop, ready, epollEvents, EventCount, counter, DescriptorPtr>>

\* (Mutant: the entry gone through again.)
LoopNextInPlace ==
    /\ loop = "next"
    /\ loop' = "for"
    /\ UNCHANGED <<notLoop, ready, frameVars, queue>>

LoopNext ==
    /\ loop = "next"
    /\ counter' = counter + 1
    /\ loop' = "for"
    /\ UNCHANGED <<notLoop, ready, epollEvents, EventCount, descriptor, DescriptorPtr, queue>>

LoopEnd ==
    /\ loop = "for" /\ counter >= EventCount
    /\ loop' = "top"
    /\ UNCHANGED <<notLoop, ready, frameVars, queue>>

LoopStep == LoopTop \/ EpollWait \/ Lookup \/ LoopClose \/ LoopDel \/ EnqueueJob
              \/ LoopNext \/ LoopEnd

-------------------------------------------------------------------------------
(* The pool's threads, running DispatchEvent: every access to counter,        *)
(* epoll_events or DescriptorPtr is to DoWork's frame as it is by then.       *)

notJob == <<fdOf, callback, client, disabling, arrivals, loop, stop, frameVars, fault>>

Becomes(w, pc) == worker' = [worker EXCEPT ![w].pc = pc]

\* Whether the bit is set in the job's entry; past the array, or where no batch
\* has reached, it can be either.
Tests(w, bit) == LET i == worker[w].index IN
    IF i \in Index /\ epollEvents[i].fd # NULL
    THEN {bit \in epollEvents[i].events} ELSE BOOLEAN

\* A job that outlives DoWork touches a dead frame.
FrameGone(w) == /\ loop = "returned"
                /\ worker[w].pc \in {"call", "in", "disable", "out", "err"}
                /\ Die("frame")

\* (Mutant: the last job left in the queue.)
TakeJobButLast(w) ==
    /\ worker[w].pc = "idle" /\ Len(queue) > 1
    /\ queue' = Tail(queue)
    /\ worker' = [worker EXCEPT ![w].pc = "call", ![w].for = Head(queue)]
    /\ UNCHANGED <<notJob, disabled, SocketMap, kernelVars>>

TakeJob(w) ==
    /\ worker[w].pc = "idle" /\ queue # <<>>
    /\ queue' = Tail(queue)
    /\ worker' = [worker EXCEPT ![w].pc = "call", ![w].for = Head(queue)]
    /\ UNCHANGED <<notJob, disabled, SocketMap, kernelVars>>

\* The job begins; its entry is the one of the counter as it is now.
JobBegins(w) ==
    /\ worker[w].pc = "call" /\ loop # "returned"
    /\ worker' = [worker EXCEPT ![w].pc = "in", ![w].index = counter]
    /\ UNCHANGED <<notJob, disabled, SocketMap, kernelVars, queue>>

\* _Read reads zero bytes, which it takes for the end of the connection, so it
\* always calls _ExceptCallback and answers false.  A listener's callback throws.
TestIn(w) ==
    /\ worker[w].pc = "in" /\ loop # "returned"
    /\ \E set \in Tests(w, "IN") :
         \/ ~set /\ Becomes(w, "out") /\ UNCHANGED <<notJob, disabled, SocketMap, kernelVars, queue>>
         \/ set /\ DescriptorPtr = NULL /\ Die("nullDescriptor")
         \/ /\ set /\ DescriptorPtr # NULL
            /\ \/ DescriptorPtr \notin callback /\ Die("nullCallback")
               \/ DescriptorPtr \in callback \cap Listeners /\ Die("thrown")
               \/ /\ DescriptorPtr \in callback \ Listeners
                  /\ Becomes(w, "disable")
                  /\ UNCHANGED <<notJob, disabled, SocketMap, kernelVars, queue>>

\* Disable copies DescriptorPtr as it is now.  A null pointer is built into an
\* exception that is never thrown, and then dereferenced.
JobErase(w) ==
    /\ worker[w].pc = "disable" /\ loop # "returned"
    /\ \/ DescriptorPtr = NULL /\ Die("nullDescriptor")
       \/ /\ DescriptorPtr # NULL
          /\ EraseEntry(DescriptorPtr) /\ Disabled(DescriptorPtr)
          /\ worker' = [worker EXCEPT
               ![w].pc = IF SocketMap[fdOf[DescriptorPtr]] = NULL THEN "out" ELSE "del",
               ![w].arg = DescriptorPtr]
          /\ UNCHANGED <<notJob, kernelVars, queue>>

JobDel(w) ==
    /\ worker[w].pc = "del"
    /\ Unregister(fdOf[worker[w].arg])
    /\ Becomes(w, "out")
    /\ UNCHANGED <<notJob, disabled, SocketMap, queue>>

\* EPOLLOUT is never asked for, so only an unfilled entry can show it; _Write
\* finds nothing buffered and returns true.
TestOut(w) ==
    /\ worker[w].pc = "out" /\ loop # "returned"
    /\ \E set \in Tests(w, "OUT") :
         \/ set /\ DescriptorPtr = NULL /\ Die("nullDescriptor")
         \/ ~(set /\ DescriptorPtr = NULL) /\ Becomes(w, "err")
              /\ UNCHANGED <<notJob, disabled, SocketMap, kernelVars, queue>>

TestErr(w) ==
    /\ worker[w].pc = "err" /\ loop # "returned"
    /\ \E set \in Tests(w, "ERR") :
         \/ set /\ DescriptorPtr = NULL /\ Die("nullDescriptor")
         \/ set /\ DescriptorPtr \in callback \cap Listeners /\ Die("thrown")
         \/ /\ set => DescriptorPtr \notin (callback \cap Listeners) \cup {NULL}
            /\ worker' = [worker EXCEPT ![w] = Idle]
            /\ UNCHANGED <<notJob, disabled, SocketMap, kernelVars, queue>>

WorkerStep(w) == TakeJob(w) \/ JobBegins(w) \/ TestIn(w) \/ JobErase(w) \/ JobDel(w)
                   \/ TestOut(w) \/ TestErr(w) \/ FrameGone(w)

-------------------------------------------------------------------------------
ClientStep(d) == \/ \E f \in Fds : CreateDescriptor(d, f)
                 \/ SetCallback(d) \/ EnableAdd(d) \/ EnableInsert(d)
                 \/ DisableErase(d) \/ DisableDel(d)

Next == /\ fault = "none"
        /\ \/ \E d \in Descriptors : ClientStep(d)
           \/ \E f \in Fds : Arrive(f)
           \/ Stop
           \/ LoopStep \/ WaitInterrupted
           \/ \E w \in Workers : WorkerStep(w)

\* The loop and the pool run when they can.  Nothing is asked of a client, not
\* even to come out of a call, of a peer, or of a signal.
Fairness == /\ WF_vars(fault = "none" /\ LoopStep)
            /\ \A w \in Workers : WF_vars(fault = "none" /\ WorkerStep(w))

Spec == Init /\ [][Next]_vars

FairSpec == Spec /\ Fairness

-------------------------------------------------------------------------------
TypeOK ==
    /\ fdOf \in [Descriptors -> Fds \cup {NULL}]
    /\ callback \subseteq Descriptors
    /\ client \in [Descriptors -> {"none", "created", "added", "enabled"}]
    /\ disabling \subseteq Descriptors /\ disabled \subseteq Descriptors
    /\ SocketMap \in [Fds -> Descriptors \cup {NULL}]
    /\ owner \in [Fds -> Descriptors \cup {NULL}]
    /\ interest \subseteq Fds /\ ready \subseteq interest /\ readable \subseteq Fds
    /\ arrivals \in 0..MaxArrivals
    /\ loop \in {"top", "wait", "for", "close", "del", "enqueue", "next", "returned"}
    /\ stop \in BOOLEAN
    /\ epollEvents \in [Index -> [fd : Fds \cup {NULL}, events : SUBSET Bits,
                                  source : Descriptors \cup {NULL}]]
    /\ EventCount \in 0..Failed /\ counter \in 0..Failed
    /\ descriptor \in Fds \cup {NULL}
    /\ DescriptorPtr \in Descriptors \cup {NULL}
    /\ queue \in Seq(Descriptors)
    /\ worker \in [Workers -> [pc : {"idle", "call", "in", "disable", "del", "out", "err"},
                               index : 0..Failed, arg : Descriptors \cup {NULL},
                               for : Descriptors \cup {NULL}]]
    /\ fault \in {"none", "overrun", "nullDescriptor", "nullCallback", "thrown", "frame"}

\* Whoever is between the two halves of Enable or of Disable on this socket.
InTransit(f) ==
    \/ \E d \in Descriptors : fdOf[d] = f /\ (client[d] = "added" \/ d \in disabling)
    \/ \E w \in Workers : worker[w].pc = "del" /\ fdOf[worker[w].arg] = f

\* A socket the kernel reports is in the map, or some thread is still between
\* epoll_ctl and the map in Enable or Disable of it: however the calls of
\* clients, jobs and the loop interleave, and although Disable erases by socket
\* number, no registration is left behind that nobody will complete or remove.
RegisteredIsFindable == \A f \in interest : SocketMap[f] = NULL => InTransit(f)

\* A Disable that comes after Enable has returned, be it a client's or a job's, is
\* final: the object is out of the map for good, and whatever the loop looks up
\* later is another object.  A Disable between the halves of Enable is not: it
\* finds nothing, and the object is inserted behind it.
ClosedIsUnmapped == \A d \in disabled : SocketMap[fdOf[d]] # d

\* Unless the batch is the leftover of a failed wait, the socket the loop
\* closes is still the one that reported the event and not a later one that got
\* the same number: only the loop closes sockets, one entry after the other.
ClosesWhatWasReported ==
    loop = "close" /\ EventCount # Failed =>
        owner[descriptor] = epollEvents[counter].source

\* Every job handed to the pool is taken, unless the process dies first.
JobsDrain == queue # <<>> ~> queue = <<>> \/ fault # "none"

\* After Stop the loop finishes its batch and returns.  Only if it already was in
\* epoll_wait, which has no timeout, can it stay there, with nothing to wake it,
\* and Stop wait for it.
StopReachesLoop ==
    /\ stop /\ loop # "wait" ~> loop = "returned" \/ fault # "none"
    /\ stop ~> \/ loop = "returned"
               \/ loop = "wait" /\ ready = {}
               \/ fault # "none"

\* A job notifies the object it was made for: what _ThreadPool is there for,
\* `Using For Notify Completion'.
ReadsItsDescriptor ==
    [][\A w \in Workers :
         worker[w].pc = "in" /\ worker'[w].pc = "disable" => DescriptorPtr = worker[w].for]_vars
===============================================================================
