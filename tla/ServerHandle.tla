----------------------------- MODULE ServerHandle -----------------------------
(***************************************************************************)
(* MuteNet::ServerHandleImpl and the listener it opens on POSIX,            *)
(* EventLoop::LikeUnixListenerComponent: a handle that listens, the sockets *)
(* it accepts, and who frees what.                                          *)
(*                                                                          *)
(* The job of an event on the listening socket calls _Read of its           *)
(* descriptor, as of any other (context = "reads"): reading a listening     *)
(* socket brings nothing, and the listener's ExceptCallback throws out of   *)
(* the worker.  So nothing in the library reaches ReadCallback, the one way *)
(* to Accept; a context that calls the callback it was given is the other   *)
(* value of context.  Assertions are left in or out when it is built.       *)
(*                                                                          *)
(* The loop is EpollContext's, as one listening socket sees it: it waits,   *)
(* looks the socket up and hands a job to the pool, and a job that runs     *)
(* asks for what the last lookup found.  Signals, other sockets and Stop    *)
(* are left to that module.                                                 *)
(*                                                                          *)
(* A step is a call of the user, of the kernel, or of a pool thread between *)
(* two system calls.  In Accept every failure is a call of Accept again, at *)
(* most MaxFrames deep.  A fault is undefined behaviour or an exception     *)
(* nobody catches, and the process's last step.                             *)
(***************************************************************************)
EXTENDS Integers

CONSTANTS Workers,      \* threads of the context's pool
          Clients,      \* sockets of incoming connections
          MaxFrames,    \* bound on the frames of Accept a stack holds
          MaxCloses,    \* bound on the calls of Close
          L,            \* the listening socket
          NoSocket      \* a number that is no open socket

ASSUME SocketsAssumption == L \notin Clients /\ NoSocket \notin Clients \cup {L}
ASSUME BoundsAssumption == MaxFrames \in Nat \ {0} /\ MaxCloses \in Nat

VARIABLES context, assertions,   \* the build, see above
          result,       \* what Listen came to
          held,         \* the user holds a pointer to the handle
          Self,         \* _Self holds one
          alive,        \* the handle exists
          Listener,     \* the LikeUnixListenerComponent
          isListening,
          registered,   \* the context knows the listening socket
          open,         \* sockets open in this process
          backlog, edge,          \* connections nobody has accepted; a fresh one
          loop,         \* "wait", or what the loop is about to do of an event
          found,        \* DoWork's DescriptorPtr is the listener's, not null
          events,       \* jobs of events in the pool's queue
          accepting,    \* frames of Accept on each pool thread's stack
          accepted,     \* all that accept() returned: it has written client_addr
          jobs,         \* Dispatch closures in that queue, by their connection
          reported,     \* OnError was called
          dropped,      \* history: connections the user did not want
          lost,         \* history: accepted, and returned from without a job
          stale,        \* history: a closure read another connection's socket
          closes,       \* history: the user's calls of Close
          busyAtClose,  \* history: a job was on the way at one of them
          fault

handleVars == <<result, held, Self, alive, isListening, reported, closes, busyAtClose>>
loopVars == <<edge, loop, found, events>>
listenVars == <<backlog, loopVars, accepting, accepted, jobs>>
vars == <<context, assertions, handleVars, Listener, registered, open, listenVars, dropped, lost,
          stale, fault>>

Init == /\ context \in {"reads", "calls"} /\ assertions \in BOOLEAN
        /\ result = "none" /\ held = FALSE /\ Self = FALSE /\ alive = FALSE
        /\ Listener = "none" /\ registered = FALSE
        /\ isListening \in BOOLEAN   \* no constructor sets it
        /\ open = {} /\ backlog = {} /\ edge = FALSE /\ accepting = [w \in Workers |-> 0]
        /\ loop = "wait" /\ found = FALSE /\ events = 0 /\ accepted = {}
        /\ jobs = {} /\ reported = FALSE /\ dropped = {} /\ lost = {} /\ stale = FALSE
        /\ closes = 0 /\ busyAtClose = FALSE /\ fault = "none"

Faults(what) == fault' = what
Accepting == \E w \in Workers : accepting[w] > 0

\* Somebody is on the way to the listener: the loop with the entry it has found,
\* a job of an event, or Accept.
Busy == (loop = "enqueue" /\ found) \/ events > 0 \/ Accepting

-------------------------------------------------------------------------------
(* ServerHandleImpl.                                                         *)

\* Listen when no socket is to be had, or when a later call on it fails: the
\* user gets a handle that does not listen, and nobody closes the socket.
ListenFails ==
    /\ result = "none" /\ result' = "failed"
    /\ held' = TRUE /\ alive' = TRUE /\ reported' = TRUE /\ Self' = FALSE
    /\ open' \in {{}, {L}}
    /\ UNCHANGED <<context, assertions, Listener, isListening, registered, listenVars, dropped,
                   lost, stale, closes, busyAtClose, fault>>

\* The listener's constructor throws: the handle keeps itself.
ListenThrows ==
    /\ result = "none" /\ result' = "threw"
    /\ alive' = TRUE /\ Self' = TRUE /\ open' = {L}
    /\ UNCHANGED <<context, assertions, held, reported, Listener, isListening, registered,
                   listenVars, dropped, lost, stale, closes, busyAtClose, fault>>

\* What Enable answers the listener's constructor is not looked at.  A connection
\* that comes before Enable has filed the socket makes the loop close it.
Listens ==
    /\ result = "none" /\ result' = "listening"
    /\ held' = TRUE /\ alive' = TRUE /\ Self' = TRUE /\ isListening' = TRUE
    /\ Listener' = "live" /\ registered' \in BOOLEAN
    /\ open' = {L} \/ (registered' /\ open' = {})
    /\ UNCHANGED <<context, assertions, reported, listenVars, dropped, lost, stale, closes,
                   busyAtClose, fault>>

\* Disable, and Free: Disable again and delete.  The destructor frees
\* client_addr, which accept() has written an address over; and the pointer
\* _Listener keeps what it pointed to.
FreeListener ==
    \/ /\ Listener = "none"
       /\ UNCHANGED <<Listener, registered, fault>>
    \/ /\ Listener = "live" /\ Listener' = "freed" /\ registered' = FALSE
       /\ IF accepted = {} THEN UNCHANGED fault ELSE Faults("address")
    \/ /\ Listener = "freed" /\ Faults("freed")
       /\ UNCHANGED <<Listener, registered>>

\* (Mutant: a handle that is closed lets itself go.)
CloseForgetting ==
    /\ held /\ closes < MaxCloses /\ closes' = closes + 1
    /\ busyAtClose' = (busyAtClose \/ Busy)
    /\ FreeListener /\ isListening' = FALSE /\ Self' = FALSE
    /\ UNCHANGED <<context, assertions, result, held, alive, reported, open, listenVars, dropped,
                   lost, stale>>

Close ==
    /\ held /\ closes < MaxCloses /\ closes' = closes + 1
    /\ busyAtClose' = (busyAtClose \/ Busy)
    /\ FreeListener /\ isListening' = FALSE
    /\ UNCHANGED <<context, assertions, result, held, Self, alive, reported, open, listenVars,
                   dropped, lost, stale>>

\* The user lets go; the destructor closes.
Release ==
    /\ held /\ held' = FALSE
    /\ IF Self THEN UNCHANGED <<alive, isListening, Listener, registered, fault>>
               ELSE alive' = FALSE /\ isListening' = FALSE /\ FreeListener
    /\ UNCHANGED <<context, assertions, result, Self, reported, closes, busyAtClose, open,
                   listenVars, dropped, lost, stale>>

-------------------------------------------------------------------------------
(* LikeUnixListenerComponent.                                                *)

Connects(c) ==
    /\ L \in open /\ result = "listening" /\ c \notin backlog \cup accepted
    /\ backlog' = backlog \cup {c} /\ edge' = registered
    /\ UNCHANGED <<context, assertions, handleVars, Listener, registered, open, loop, found,
                   events, accepting, accepted, jobs, dropped, lost, stale, fault>>

notLoop == <<context, assertions, handleVars, Listener, registered, backlog, accepting, accepted,
             jobs, dropped, lost, stale, fault>>

\* Only a fresh connection is an edge, however many wait.
EpollWait ==
    /\ loop = "wait" /\ registered /\ edge
    /\ edge' = FALSE /\ loop' = "lookup"
    /\ UNCHANGED <<notLoop, open, found, events>>

Lookup ==
    /\ loop = "lookup" /\ loop' = "enqueue"
    /\ found' = registered
    /\ UNCHANGED <<notLoop, open, edge, events>>

EnqueueJob ==
    /\ loop = "enqueue" /\ found
    /\ events' = events + 1 /\ loop' = "wait"
    /\ UNCHANGED <<notLoop, open, edge, found>>

\* The listener was disabled after the event: the loop closes its socket.
LoopClose ==
    /\ loop = "enqueue" /\ ~found
    /\ open' = open \ {L} /\ edge' = FALSE /\ loop' = "wait"
    /\ UNCHANGED <<notLoop, found, events>>

\* A job asks the descriptor that was found last, if it was one.  ReadCallback
\* asserts that the descriptor is not the listener's, which it is.
Event(w) ==
    /\ accepting[w] = 0 /\ events > 0 /\ events' = events - 1
    /\ \/ ~found /\ Faults("nullptr") /\ UNCHANGED accepting
       \/ found /\ context = "reads" /\ Faults("threw") /\ UNCHANGED accepting
       \/ /\ found /\ context = "calls" /\ assertions
          /\ Faults(IF Listener = "freed" THEN "freed" ELSE "assertion")
          /\ UNCHANGED accepting
       \/ /\ found /\ context = "calls" /\ ~assertions
          /\ accepting' = [accepting EXCEPT ![w] = 1] /\ UNCHANGED fault
    /\ UNCHANGED <<context, assertions, handleVars, Listener, registered, open, backlog, edge,
                   loop, found, accepted, jobs, dropped, lost, stale>>

Recurse(w) == /\ Listener = "live"
              /\ IF accepting[w] = MaxFrames
                 THEN Faults("overflow") /\ UNCHANGED accepting
                 ELSE accepting' = [accepting EXCEPT ![w] = @ + 1] /\ UNCHANGED fault

\* accept() has nothing, or fails.
AcceptFails(w) ==
    /\ accepting[w] > 0 /\ Recurse(w)
    /\ UNCHANGED <<context, assertions, handleVars, Listener, registered, open, backlog,
                   loopVars, accepted, jobs, dropped, lost, stale>>

\* (Mutant: a connection that cannot be made non-blocking gets its job all the same.)
NonblockFailsDispatching(w, c) ==
    /\ accepting[w] > 0 /\ c \in backlog /\ Recurse(w)
    /\ backlog' = backlog \ {c} /\ accepted' = accepted \cup {c} /\ open' = open \cup {c}
    /\ lost' = lost \cup {c} /\ jobs' = jobs \cup {c}
    /\ UNCHANGED <<context, assertions, handleVars, Listener, registered, loopVars, dropped, stale>>

\* SetSocketNonblock fails: Accept goes on to the next one and closes nothing.
NonblockFails(w, c) ==
    /\ accepting[w] > 0 /\ c \in backlog /\ Recurse(w)
    /\ backlog' = backlog \ {c} /\ accepted' = accepted \cup {c} /\ open' = open \cup {c}
    /\ lost' = lost \cup {c}
    /\ UNCHANGED <<context, assertions, handleVars, Listener, registered, loopVars, jobs, dropped,
                   stale>>

\* One connection an edge: the frames return, with others in the backlog or not.
AcceptGets(w, c) ==
    /\ accepting[w] > 0 /\ c \in backlog /\ Listener = "live"
    /\ backlog' = backlog \ {c} /\ accepted' = accepted \cup {c} /\ open' = open \cup {c}
    /\ jobs' = jobs \cup {c} /\ accepting' = [accepting EXCEPT ![w] = 0]
    /\ UNCHANGED <<context, assertions, handleVars, Listener, registered, loopVars, dropped, lost,
                   stale, fault>>

AcceptOnFreed ==
    /\ Accepting /\ Listener = "freed" /\ Faults("freed")
    /\ UNCHANGED <<context, assertions, handleVars, Listener, registered, open, listenVars,
                   dropped, lost, stale>>

\* The closure reads the socket from a frame of Accept that has returned: what
\* is there may be its own, that of a later call, or anything.
ReadsSocket(c, v) == /\ v \in {c} \cup accepted \cup {NoSocket}
                     /\ stale' = (stale \/ v # c)

\* (Mutant: the connection is dropped, its descriptor is not deleted.)
DropsKeeping(c, v) == /\ dropped' = dropped \cup {c}
                      /\ UNCHANGED <<open, fault>>

\* ServerHandleImpl::Callback: OnInComingConnection has no callbacks for it.
Drops(c, v) == /\ dropped' = dropped \cup {c} /\ open' = open \ {v}
               /\ UNCHANGED fault

\* A TCPLinkImpl: its constructor asks _DescriptorPtr, still null, for an address.
Links(c, v) == /\ Faults("nullptr")
               /\ UNCHANGED <<dropped, open>>

\* The closure begins by asking the listener whom to call.  The listener is there:
\* once a connection was accepted its destructor is the process's end.
RunJob(c) ==
    /\ c \in jobs /\ jobs' = jobs \ {c}
    /\ \E v \in Clients \cup {NoSocket} : ReadsSocket(c, v) /\ (Drops(c, v) \/ Links(c, v))
    /\ UNCHANGED <<context, assertions, handleVars, Listener, registered, backlog, loopVars,
                   accepting, accepted, lost>>

Next == /\ fault = "none"
        /\ \/ ListenFails \/ ListenThrows \/ Listens \/ Close \/ Release
           \/ AcceptOnFreed \/ EpollWait \/ Lookup \/ EnqueueJob \/ LoopClose
           \/ \E c \in Clients : Connects(c) \/ RunJob(c)
           \/ \E w \in Workers :
                \/ Event(w) \/ AcceptFails(w)
                \/ \E c \in Clients : NonblockFails(w, c) \/ AcceptGets(w, c)

Spec == Init /\ [][Next]_vars

-------------------------------------------------------------------------------
FlagsOK ==
    /\ assertions \in BOOLEAN /\ held \in BOOLEAN /\ Self \in BOOLEAN /\ alive \in BOOLEAN
    /\ isListening \in BOOLEAN /\ registered \in BOOLEAN /\ edge \in BOOLEAN
    /\ reported \in BOOLEAN /\ stale \in BOOLEAN /\ busyAtClose \in BOOLEAN /\ found \in BOOLEAN

SocketsOK ==
    /\ open \subseteq Clients \cup {L}
    /\ backlog \subseteq Clients /\ accepted \subseteq Clients
    /\ jobs \subseteq accepted /\ dropped \subseteq accepted /\ lost \subseteq accepted

PlacesOK ==
    /\ context \in {"reads", "calls"}
    /\ result \in {"none", "failed", "threw", "listening"}
    /\ Listener \in {"none", "live", "freed"}
    /\ loop \in {"wait", "lookup", "enqueue"} /\ events \in Nat
    /\ accepting \in [Workers -> 0..MaxFrames] /\ closes \in 0..MaxCloses
    /\ fault \in {"none", "threw", "assertion", "overflow", "freed", "address", "nullptr"}

HandleTypeOK == FlagsOK /\ SocketsOK /\ PlacesOK

\* The listener calls back into a handle it has a plain pointer to: the handle is
\* there as long as the listener is, since _Self keeps it.  A listener is used
\* after it was freed only if the user closed twice, or if a Close did not wait for
\* somebody on the way to it: the loop that has found it, the job of an event, or
\* Accept.  An event that is still to be looked up finds nothing, and the handle's
\* destructor never closes what Close has closed.  As long as nothing has gone
\* wrong, a closure has its listener, and IsListening tells of one that is there.
ListenerOutlived ==
    /\ Listener = "live" => alive
    /\ fault = "freed" => closes > 1 \/ busyAtClose
    /\ jobs # {} /\ fault = "none" => Listener = "live"
    /\ result = "listening" /\ fault = "none" => (isListening <=> Listener = "live")

\* A connection accepted is in one of three places: in a job, dropped and closed,
\* or lost, its socket open, to a failed SetSocketNonblock.  Unless a closure has
\* read the socket of another: then one is closed twice and one not at all.
SocketsAccounted ==
    fault = "none" =>
        /\ accepted = jobs \cup dropped \cup lost
        /\ jobs \cap (dropped \cup lost) = {} /\ dropped \cap lost = {}
        /\ ~stale => open \ {L} = jobs \cup lost
===============================================================================
