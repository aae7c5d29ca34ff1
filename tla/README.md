# A verification project for Mutes-Network-Libs

Mutes-Network-Libs is a C++17 network library in its "experimental level" (its
own README): sockets with callbacks over epoll or I/O completion ports, a pool
of worker threads, and the buffers and streams underneath. This directory holds
TLA+ modules for the parts of it that are hard to get right, the TLC
configurations that check them on small instances, and TLAPS proofs for every
instance of what matters most. Paths such as `CircularBuffer.cpp:53` are
relative to `src/src/`.

## 1. The system

### Components

| Component | State | Operations | Modelled |
|---|---|---|---|
| `Util::CircularBuffer` | `Front`, `Rear`, the cells | put, get, peek, move a position, segments for scatter/gather I/O | `CircularBuffer` |
| `EventLoop::EpollContextImpl` | `_SocketMap`, the epoll handle, DoWork's frame | Enable, Disable, DoWork, the jobs it dispatches, Stop | `EpollContext` |
| `EventLoop::IOContextThreadPool` | job queue, `_ClearFlag`, threads | construct, EnqueueJob, InnerWork, destroy | `IoContextThreadPool` |
| `Util::Event` | a flag, a mutex, a condition variable | Wait, timed Wait, Set, SetAll | `Event` |
| `EventLoop::IDescriptor`, `UnixLikeDescriptor` | socket, callbacks, a read and a write ring | `_Read`, `_Write`, Write, GetReadBuffer, SetCallback | `Descriptor` (the write path); what a job sees of `_Read`, in `EpollContext` |
| `TCPLinkImpl`, `ServerHandleImpl`, `LikeUnixListenerComponent` | links, handles, listeners | Listen, Accept, Connect, Enable, Close, Free | `ServerHandle`; Connect in `HostnameLookup`; Enable and Disable in `EpollContext` |
| `Util::Runnable` | a thread, `_Stop` | Start, Stop, destroy | in `TaskAgent` and, seen from its loop, `EpollContext` |
| `Task`, `TaskAgent`, `TaskManager` | request and result queues, hang counters, agents by name | AddTask, DoWork, CheckHang, Flush | `TaskAgent` |
| `IocpContextImpl` | completion port, workers that never leave the pool | Start, WorkerRun, Stop, destroy | `IocpContext` on `IoContextThreadPool` |
| `WinSocketDescriptor` | reference counter, two OVERLAPPED | Read, Write, IOCompletion, IOError, Enable | `WinDescriptor` |
| `NetworkHelpers` | resolver jobs | ParseSockaddrPort, lookups | `HostnameLookup` |
| `MemoryStream` and its two views | bytes, `_Head`, `_Tail` | Serialize, Read, Write | as a frame, in `Descriptor` |
| `Win32ListenerComponent` | a listener with AcceptEx | | no, see section 6 |
| `SharedPool`, kqueue and select contexts, facade, headers | | | no, see section 6 |

### How they interact

A client owns a `TCPLinkImpl` or a `ServerHandleImpl`. Either calls the context
(`Enable`, `Disable`) from any thread, through the facade `IOContextEvent`; a link
may be closed while another thread is still enabling it. The context maps sockets to descriptors (`_SocketMap`, under a shared mutex) and one
thread runs `DoWork`: it waits in epoll, looks up the descriptor of each event,
and hands a job to the pool. A worker runs the job: `_Read` or `_Write` of the
descriptor, which call the callbacks, and `Disable` when they fail. The
descriptor buffers bytes in two rings. Stop raises a flag and joins the loop.

So five parties interleave: clients, the loop, the workers, the kernel (which
reuses a socket number as soon as it is closed) and whoever stops or destroys.
What is shared is the map, the interest list, the pool's queue and, because a
job captures `DoWork`'s locals by reference, the loop's own stack frame.

A `ServerHandleImpl` keeps itself alive from Listen on (`_Self`) and its listener
points back at it; the listener's Accept dispatches closures that outlive its
frames. A `TCPLinkImpl` connects from inside the callbacks of a lookup, which run
on a thread of std::async. On Windows the context's workers are jobs of the pool
that never end, and each dequeued packet runs a handler of the descriptor, which
counts the operations in flight. Task agents are apart from all this: a thread, a
queue, and whoever asks whether the thread hangs.

### What makes them correct

- Ring: no copy leaves the allocation, no put overwrites an unread byte, bytes
  come out in the order they went in, sizes add up, a byte stays blank.
- Epoll context: a registered socket can be found or is about to be settled; an
  object disabled after its Enable does not come back; the loop closes only what
  reported the event; a job notifies the object it was made for; jobs are taken;
  Stop works.
- Pool: jobs are taken in order and each begun once, or dropped with the pool;
  destruction stops the work and terminates; no thread outlives the members.
- Event: one wait per signal, no wake-up lost.
- Write path: the ring gives up what the socket took; no byte twice, none late.
- Windows descriptor: the counter is the references in use, its return to 0 is
  reported, one receive at a time uses its OVERLAPPED if Enable is called once.
- IOCP context: jobs get a worker; the destructor comes to its end.
- Task agents: a task runs at most once, in order, with its complete lambda; a
  hang is told from idleness; a queue that is served empties.
- Lookups: one last callback, the right one; one connection.
- Server handle: nobody points at what is gone; no socket is lost or closed twice.

The hazards behind these, each at its line, are in `PROJECT.json`. A hazard is
paired with a property only if the property would show it go wrong. Cases in which the
code does go wrong, and which a property names as its exception or the model dies of,
are in the hazard's note.

## 2. The modules

| Module | Stands for |
|---|---|
| `ByteQueue` | what a caller expects of a ring: a bounded FIFO of bytes |
| `CircularBuffer` | the ring as it is: positions, cells, size checks, `throw;` |
| `EpollContext` | the loop, clients, jobs and kernel |
| `JobService` | what a context expects of the pool |
| `IoContextThreadPool` | the pool as it is |
| `Event` | the auto-reset event |
| `Descriptor` | `Write` and `_Write` of the POSIX descriptor; instantiates `CircularBuffer` |
| `WinDescriptor` | the Windows descriptor and its counter |
| `IocpContext` | the Windows context; extends `IoContextThreadPool` |
| `TaskAgent` | `Runnable`, `TaskAgent`, `TaskManager` |
| `HostnameLookup` | the lookups, the address parser, Connect |
| `ServerHandle` | the server handle and its POSIX listener |
| `Totals` | the sum of a function as a number of pairs, which the provers can reason about |
| `MC*` | instances for TLC |
| `CircularBufferProofs`, `EpollContextProofs`, `IoContextThreadPoolProofs`, `EventProofs`, `DescriptorProofs` (of `Descriptor` and `WinDescriptor`), `IocpContextProofs`, `TaskAgentProofs`, `NetworkProofs` (of `HostnameLookup` and `ServerHandle`) | theorems |

Names are the source's where TLA+ allows it. Definitions marked "Mutant" are
plausible mistakes in the definition below them: substituted for it they break
the property that `PROJECT.json` pairs them with.

**CircularBuffer.** One action per member; a call is atomic since the class has
no lock. `Front` and `Rear` are the source's, each in `0..BufferSize`: both may
rest one past the last cell, and only `MoveReadPostion` folds that position to 0
(`CircularBuffer.cpp:263`). The two memcpy calls of a copy are the cell functions
`PutCell` and `TakeCell`. A size the code rejects with `throw;` outside a handler
ends the process (`terminated`). `io` is what the call copied from or to its
caller. `Segments` is the pair of pointers and lengths for scatter/gather I/O, an
unsigned length taken modulo `UIntMod`. `Spec` lets callers do anything;
`ReservedSpec` is the discipline under which the ring is a queue: reserve the
blank byte, ask only for what is there, and do not drain with `MoveReadPostion` a
ring whose `Rear` is at the end.

**EpollContext.** A step is what one thread does between two points where another
can interfere: a section under `_SocketMap`'s lock, a system call, one access to
a captured variable. Clients open a descriptor, call Enable in two steps
(`epoll_ctl`, then the map, `EpollContextImpl.cpp:63-74`) and Disable in two
(`:86-99`); a link calls SetCallback after Enable (`TCPLinkImpl.cpp:203-205`), a
listener before. Disable may come from another thread at any time after the object
was made: `disabling` holds the objects whose Disable is halfway, apart from `client`,
how far Enable is. Between the halves of Enable it finds no entry and returns, and
Enable then inserts the object behind it; so `ClosedIsUnmapped` is of the objects
disabled after Enable has returned (`disabled`, history). One client at a time is
inside Disable of an object; jobs may be as well. Disable erases by socket number,
whatever object is there. The
loop is `LoopTop`, `EpollWait` or `WaitInterrupted`, then per event `Lookup`,
either `LoopClose`/`LoopDel` or `EnqueueJob`, and `LoopNext`. A worker takes a job
and begins it in two steps (`TakeJob`, `JobBegins`), and the job reads `counter`,
`epollEvents` and `DescriptorPtr` as the loop has left them by then.
The last value of a variable out of scope is kept, as the stack slot keeps it;
that the standard allows anything is bounded this way. The job records in `for`
the object it was made for (history only). A few facts of the code shape the
model: `_Read` asks for zero bytes, so it always reports the end of the connection
and answers false (`Descriptor.cpp:47-63`), and no byte reaches a ring; EPOLLOUT
is never registered; the one `delete` of a descriptor (`ServerHandleImpl.cpp:170`, a
connection turned away before Enable) sits in a callback the loop never reaches, so
only the loop closes sockets; EventCount is unsigned, so a failed wait runs past the array.
`TCPLinkImpl` never assigns its `_DescriptorPtr` and nothing calls `Start`; the
model is of a program that does what these two plainly intend. Ways to die
(`fault`): the array overrun, a null descriptor, a null callback, a listener's
callback that throws, a job on a dead frame.

**IoContextThreadPool.** The owner constructs thread by thread (one may fail to
start), may destroy, joins in order; each worker loops through flag, `empty`,
`try_pop`, the call, and the job's end. `try_pop` and the call are two steps
(`IoContextThreadPool.cpp:22` and `:27`): a worker can be preempted with a job in hand
while others take and begin later ones, so the order of `taken` is that of `pushed`
and the order of `started` is anybody's. `Functor` keeps the last job, as the local
does. A job may hand in others, return, or throw. `pushed`, `taken`, `started`,
`dropped` and `late` are history. `JobService` has the same two steps: Take, in
order, and Start of any job in hand.

**Event.** Wait and the timed Wait up to the first test, then sleeping, woken or
expired, then the test again; Set and SetAll raise under the lock and notify
after it. `signals` and `passes` are history.

**Descriptor.** The ring is an instance of `CircularBuffer`, so the ring's own
`throw;` and its ambiguous positions are here too. A worker in `_Write` goes through
copy (under the lock: frame header plus the unbroken part of what is unread),
`write()` (all, part, nothing now, or an error), and move (under the lock). Each
byte is the place it has in all that was written, and each byte of a frame's length
prefix is `Header`, so `wire` shows what the peer gets. `MoveReadPostion` is given
what `write()` returned, prefix and -1 included (`Descriptor.cpp:115`). The epoll
context asks for EPOLLIN only, so its jobs never call `_Write`; whoever does gets
this.

**WinDescriptor.** A thread inside the descriptor has a program, the steps it has
left: post, decrease the counter, test it, report. Decrease and test are two steps
(`WinDescriptor.cpp:182`). Operations in flight are counted (`recvs`, `sends`); each
completes once. A client enables its descriptor once, as `TCPLinkImpl::Enable` would;
the code does not check it (`WinDescriptor.cpp:119`), and a second Enable would post a
second receive, so `OneReceive` rests on it. `start` is what the counter's memory held, since its
constructor sets nothing. An operation refused with WSAEWOULDBLOCK leaves its reference behind
(`leaked`).

**IocpContext.** The pool's jobs are `Threads + 1` copies of WorkerRun and whatever
is dispatched. A worker in a copy alternates between the test of `stop` and
GetQueuedCompletionStatus, which returns a packet, a timeout, or waits. The
destructor posts packets and joins. The source passes a null key, so no packet
reaches a descriptor's handler; the run is about threads, not handlers.

**TaskAgent.** The owner starts, stops, flushes and destroys; the agent's thread
goes through pop, count, lambda, complete lambda, and the second counter as a load
and a store; CheckHang goes through load, compare, store. `Stop` is raised and never
read by `DoWork`. The complete lambda is called if IsEmptyCompleteLambda answers true,
which it does when there is one. `~TaskAgent` joins, then `~Runnable` joins again and
throws in a destructor: the process ends. TaskManager draws a number from a closed
interval (`TaskManager.cpp:58`), so one draw in `AgentCount + 1` finds no agent.
History: where each task went, whether a task ran at each moment of a check
(`busy`), a wrong answer (`misled`).

**HostnameLookup.** The caller waits on a future that is destroyed at once; the
lookup walks the resolver's list, one callback a step, any of which may throw. The
parser works on texts over nine symbols: what it searches for, a dotted quad, text of
no meaning, and three that stand for the digits of 1, 65535 and 65536. These make
ports below, at and above both ends of the range that is tested
(`NetworkHelpers.cpp:79`), also with the 255 a quad begins with. `Atoi` gives the
number atoi reads; all above 65535 are one, since of those that overflow an int none
comes out as a port, whether they wrap or saturate. The grammar describes ports by
their form (`PortText`), not by `Atoi`. Left out: numbers with other digits, a sign,
leading zeroes or spaces, and the buffer of 128 bytes, which only a zone of a hundred
digits overruns (it is refused). What `inet_pton` takes is modelled from its groups and gaps. Formatting
the address is abstracted (the IPv6 branch formats with AF_INET,
`NetworkHelpers.cpp:345`).

**ServerHandle.** The handle (`_Self`, `_Listener`, `_isListening`), its listener, the
backlog, the loop as one listening socket sees it, the frames of Accept on each
worker's stack, and the jobs Accept dispatched. The loop goes through `EpollWait`,
`Lookup` and `EnqueueJob` (`EpollContextImpl.cpp:111`, `:133`, `:167`), and a worker
later runs the job (`Event`); Close and Free may come between any two. A job asks the
descriptor the last lookup found (`found`), which may be none by then; and a listener
disabled between event and lookup has its socket closed by the loop (`LoopClose`).
Two builds of an assertion and two contexts are initial states: the library's
contexts call `_Read` on the listening socket, whose callback throws out of the
worker (`context = "reads"`), and none calls `ReadCallback`; everything in Accept is
therefore reached only with a context that would (`"calls"`). Ways to die: that
exception, the assertion, Accept's recursion overflowing the stack, a freed listener,
Free of `client_addr` after `accept()` has written an address over it, and the null
`_DescriptorPtr` that the constructor of an accepted link dereferences. A job reads
its socket from a dead frame of Accept: its own, another's, or none. `ListenerOutlived`
names the ways a freed listener is used: a second Close, or one Close while the loop
had found the listener, a job of an event was queued, or Accept ran (`busyAtClose`).
Nothing but the loop's `LoopClose` closes the listening socket, and since `_Self` is never reset a
handle that once listened is there for good.

## 3. What the runs check

| Run | Question | Bounds, and why they are enough |
|---|---|---|
| `ring` | every sequence of legal and illegal calls: bounds, overwriting, segments, sizes | 4 cells, 2 byte values: every order of the positions and both ends, with a cell between any two |
| `ring_as_queue` | disciplined callers see a bounded FIFO queue (refinement) | the same |
| `ring_blank_byte` | is a byte kept blank? **No** (finding) | the same |
| `epoll_safety` | registrations, objects disabled, closing the right socket | 2 objects, 2 sockets, 1 worker, batches of 2, 2 arrivals: reuse of a number while another call on it is halfway, Disable between the halves of Enable, and an entry of a batch that goes stale |
| `epoll_progress` | jobs are taken; Stop gets through unless the loop is asleep | a listener and a link, 1 socket, 1 worker, 2 arrivals |
| `epoll_notify` | does a job notify its own object? **No** (finding) | as `epoll_safety` |
| `pool` | jobs, destruction, refinement of `JobService` with its liveness | 2 workers, 3 jobs: a race for a job with an older one still in `Functor`, a job in hand while a later one begins, and one left to drop |
| `event` | signals and wake-ups | 3 threads, 3 signals: two waiters to one setter and the reverse, with a late notification |
| `descriptors` | does a POSIX ring give up what the socket took, is a byte sent twice or late; counter, end and receive of a Windows descriptor | a ring of 4, 6 bytes written, 8 on the wire, a header of 1, 2 workers: wrapping, exact fills, partial writes, two threads in `_Write`; 3 Windows threads, a receive and 2 writes, so that three completions end together |
| `iocp` | dispatched jobs and the destructor of the Windows context | 2 workers, 3 copies of WorkerRun (one always queued), 2 dispatched jobs, 1 completion to take a packet of the destructor |
| `agents` | tasks, completions, hang checks, destructor, a served queue empties | 2 tasks, 1 with a complete lambda, 1 agent in TaskManager, 3 checks: one that moves the counter, one it misleads, one after |
| `network` | which callback of a lookup comes last, is a link connected once, which texts are accepted; does anybody point at a handle or listener that is gone, where is every accepted socket | 3 addresses, one of each family in every order; texts of 6 symbols, enough for a port after `[::]:` and for ports of up to four digits after a quad; 3 connections, 2 workers, 4 frames of Accept, 3 calls of Close: all connections lost in one call, one read by another's job while a third waits, two jobs of events in the queue when the listener is freed |

`descriptors` and `network` hold two components each, which do not interact; a
behaviour is of one of them.

All passing runs explore their state spaces completely. Bounded by hand:
`MaxArrivals` (packets), `MaxSignals` (rises of the flag), `Jobs` and `Tasks` (each
handed in at most once), `Data` (up to `BufferSize + 1` bytes in a put), `MaxBytes` and
`MaxWire` (written and sent), `MaxWrites`, `MaxCompletions`, `MaxChecks` and `MaxCloses`
(calls), `MaxFrames` (Accept's recursion, past which the stack counts as overrun),
`MaxAddresses` and `MaxText` (inputs of a lookup). Deadlock is not
checked where the model really stops: a process that has died, a pool destroyed,
a bound reached. `epoll_safety` uses the symmetry of objects and sockets, sound
for invariants.

Some properties say less than one might expect, because the code does less:
`SizeAccounting` lists the two positions that read both as full and as empty;
`WriteSegmentsAgree` excludes the positions for which the segments are wrong
(`Front` 0, or `Rear` before `Front`, where the second segment reaches unread
cells); `StopReachesLoop` admits a loop asleep in an epoll_wait without timeout;
`ClosedIsUnmapped` leaves out a Disable between the halves of Enable, and
`ClosesWhatWasReported` the leftover batch of a failed wait;
`JobsAccounted` and `JobService` say nothing of the order in which jobs begin;
`ListenerOutlived` admits a freed listener used after a single Close that met an
event on its way;
most progress properties admit the process dying. Likewise `OnceUnlessOverlapping`
holds only for one writer at a time and a ring outside its ambiguous positions;
`WireConserved` says that a frame's header costs as many bytes of data, which leave
the ring unsent; `EndNotMissed` admits an end reported twice, and excludes a
counter whose memory held less than 0, since that is back at 0 while references are
still in use; `DispatchWaitsForStop`
and `DestructorNeverReturns` state what does not happen; `HangAnswered` ends with
the first store of CheckHang that changes the counter it shares with the thread;
`SocketsAccounted` stops at a closure that has read another's socket.

**Findings.** (1) `GetFreeSize` counts the blank byte as free, so an exact fill
makes the ring read as empty, although `BLANK_BUFFER` and `GetBufferSize` promise
a byte less. (2) A job reads `DescriptorPtr` by reference: it notifies, and
disables, whichever descriptor the loop has reached.

**Fairness.** Weak fairness on each thread that is inside a call: the loop, each
worker, the pool's owner in its constructor or destructor, a thread that has been
notified or is to notify. `JobService` is fair to Take and to the Start of each job in
hand, which `pool` shows from the fairness of the workers.
Operating systems schedule runnable threads. No fairness on clients of
the epoll context, not even to come out of a call, on calls nobody has to make, on packets, signals, spurious wake-ups, timeouts. `pool` also assumes that
jobs end; EpollContextImpl's are straight-line code. `agents`: the agent's thread, and
the lambdas of its tasks end. `iocp`: the owner inside the constructor or the
destructor, and each worker; no timeout is counted on.

## 4. What is proved

For every value of the constants (any buffer size; any number of objects,
sockets, events per batch, workers, jobs, threads), from the assumptions named
beside the constants and nothing else:

- `CircularBufferProofs`: `TypeCorrect`, `InBounds`, `UnreadSpared`,
  `SizesAccounted`, `ReadSegmentsCorrect` and `WriteSegmentsCorrect`. The type
  invariant is inductive and the rest follows from it by arithmetic on the two
  positions; for the segments, `CellsTwo` says what cells two in a row name. Then
  `BlankByte` and `Implements`: disciplined callers never fill the ring, and each of
  their calls is a step of `ByteQueue` on the bytes from `Front` to `Rear`
  (`PutAppends`, and its counterparts for get and move).
- `EpollContextProofs`: `TypeCorrect`, `Findable`, `Unmapped`, `ClosesReported`.
  The invariant grows in three layers. First the types, where the loop stands
  relative to its counter, and that an object past creation has a socket. Then:
  an object is in the map only under its own socket, an object disabled after its
  Enable is not in it, and a registered socket is in the map or in transit. Then: until the
  loop closes it, the socket of an unvisited event is owned by the object that
  reported it, because only the loop closes sockets and it visits each once. None
  of the stated properties is inductive alone: each needs to know who else is
  halfway through a call on the same socket.
- `IoContextThreadPoolProofs`: `TypeCorrect`, `NobodyLeft`, `OneLate`,
  `Accounted`, `Implements` (the safety part of `JobService`). `OwnerOK` ties the
  owner's phase to the threads; `LateOK` says a worker past the flag has not yet
  used its one late job; `Accounted` keeps the jobs in hand apart from those begun and
  from each other.
- `EventProofs`: `TypeCorrect`, `Conserved`, `NoneLost`; each inductive given the
  types.
- `DescriptorProofs`, POSIX: `DescriptorTypeCorrect`, `WireAlwaysConserved`,
  `OnceAndInOrder`. `WireConserved` is inductive given the types, for any number of
  writers: a step changes one worker's term of `Pending` (`PendingChange`), and the
  ring's use by what `RingPut` and `RingMove` say. `OnceUnlessOverlapping` is not: `PosixInv` adds
  that the ring holds the last bytes written in order (`InOrder`), that without
  overlap one worker is inside (`Alone`) and its frame is a header and the next bytes
  of the ring (`Framed`), and that no byte is earlier on the wire than where it was
  written (`OnWire`), since a header takes the place of data but adds none.
- `DescriptorProofs`, Windows: `CounterAlwaysExact`, `EndNeverMissed`,
  `OneReceiveAtATime`. What a thread still has to do is one of twelve programs
  (`ProgramOK`), and of each step it is known what it does to the references held and
  to the receives to come; the counter is then a sum over threads of which a step
  changes one term (`Totals`). An end is not missed because a thread that decreases
  still has a test before it, and a step that leaves a thread outside without one has
  just posted an operation or left a reference behind, so the counter is above its
  start.
- `IocpContextProofs`: `PoolUsedProperly` (a behaviour of the context is one of the
  pool, so the pool's theorems hold here), `ContextTypeCorrect`, `DispatchedJobsWait`.
  The last by `NobodyLeaves`: until Stop, each copy of WorkerRun taken is the job of
  a worker of its own, so with as many as there are workers nobody is left to take
  another job.
- `TaskAgentProofs`: `AgentsTyped`, `DestructorAlwaysEnds`, `HangAlwaysAnswered`,
  `TasksAlwaysAccounted`. `HangAlwaysAnswered` needs `Counted` (until a check has moved
  it, the thread's second counter is one behind while a task runs and equal
  otherwise) and `Witnessed` (what the check loaded is one ahead, equal or behind,
  and for each of these the answer it leads to was true at some moment since).
  `TasksAlwaysAccounted` needs `Placed` (no task is anywhere before it is handed in, and
  none is queued twice) and `InHand` (the task popped was taken from the queue and has
  not run), which together make the head of the queue a task that never ran.
- `NetworkProofs`, lookups: `LookupEndsOnce`, `LookupConnectsOnce`, for resolver lists of
  any length; `LookupInv` says what can still come: while the lookup walks, there is
  an answer if and only if one was resolved or a known family is in the rest.
  `ParserAlwaysExact`, for texts of any length: the texts `Port` takes are those of
  `PortText` (`PortExact`), an address has no bracket and no
  percent sign, an IPv6 address two colons at least (`TwoColons`, from its gap or its
  eight groups) and a quad none, so each search of the parser finds the one place
  where the grammar splits the text.
- `NetworkProofs`, handle: `HandleTyped`, `OutlivedAlways`, `AccountedAlways`. `Held` says
  who holds whom (a handle that listens holds itself; a freed listener is registered
  nowhere, so no later lookup finds it, and whoever is on the way to it was so at a
  Close); `Apart` keeps the backlog apart from what was
  accepted, without which a connection could be counted twice.

Every invariant that a passing run checks is thus also proved. Some definitions are written for
that: sums are cardinalities of sets of pairs (`Totals`) and orders and searches
are quantified, since the provers have no induction over data for folds, SelectSeq
or the least element of a set. A strengthened invariant was first checked by TLC on
the run of its component.

Only model-checked: all liveness (`JobsDrain`, `StopReachesLoop`, `SignalTaken`,
`DestructorReturns`, `TakenWhileServing`, `DestructorReturnsIfStopped`, the liveness part
of `ImplementsService`), which TLAPS cannot do without ENABLED.

## 5. Plan

Done, in the order of what every program built on the library runs first: ring,
pool, event, epoll context; then the write path, task agents, the Windows descriptor
and context, server handle, lookups. Left:

1. An abstract byte stream for `Descriptor`, which it would implement for one writer
   once the header no longer costs data.
2. Teardown of a whole program: context, pool, handles and links in one behaviour.

## 6. Not modelled, and why

- The facade (`IOContextEvent`, `IOContextImpl`) forwards calls.
- `KQueueIOContextImpl` and `SelectIOContext` are unfinished: neither compiles, and
  the first registers no socket.
- `Win32ListenerComponent` never posts its first AcceptEx, so nothing ever completes
  on it; what is left is a constructor and a destructor that closes its socket twice.
  The lookup of Winsock's extension functions is a series of OS calls.
- `WinSocketDescriptor::_Read` is declared and never defined, so the Windows side does
  not link; in `WinDescriptor` it may answer anything.
- `GetReadBuffer`, and with it `InputMemoryStream`: on POSIX `_Read` puts no byte in the
  ring it reads, and its cast is to the wrong class.
- Accepted links: the constructor uses a null pointer, so none lives.
- `Suspend`, `Resume`, socket options and address formatting are plain OS calls.
- `SharedPool` has no user.

## 7. Running

    tlc -workers 2 -config MCCircularBuffer.cfg MCCircularBuffer
    tlapm CircularBufferProofs.tla

`epoll_safety` and `epoll_progress` take about two and a half minutes each, `iocp` and
`network` about one and a half, `descriptors` less than one, everything else seconds.
