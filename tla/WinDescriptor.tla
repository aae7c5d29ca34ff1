----------------------------- MODULE WinDescriptor -----------------------------
(***************************************************************************)
(* EventLoop::WinSocketDescriptor over Util::AtomicCounter: overlapped      *)
(* receives and sends, their completions, and the counter of references     *)
(* whose return to 0 is reported as the end of the descriptor.              *)
(*                                                                          *)
(* The completion handlers are those a context calls that dequeues the      *)
(* descriptor with its packet; what IocpContextImpl dequeues is IocpContext.*)
(*                                                                          *)
(* A thread inside the descriptor has a program: the steps it has left,     *)
(* each an access to shared state.  The counter is atomic, but decreasing   *)
(* it and asking for its value are two calls.  The constructor leaves the   *)
(* counter as it finds the memory.                                          *)
(*                                                                          *)
(* Winsock completes every posted operation once, with success or not.  A   *)
(* receive is posted for no bytes, so it completes with 0 bytes, which the  *)
(* handler takes for the peer's end and shuts the socket down; nothing can  *)
(* be posted on it after that.  Whether the ring of a send accepts the      *)
(* bytes and the move of its read position is left open: when it does not,  *)
(* `throw;' ends the process.  _Read is declared for this class and defined *)
(* nowhere: it may answer either way.                                       *)
(***************************************************************************)
EXTENDS Integers, Sequences, FiniteSets, Totals

CONSTANTS Threads,
          Starts,       \* what the memory of the counter may hold
          MaxWrites     \* bound on the calls of Write

ASSUME ThreadsAssumption == IsFiniteSet(Threads)
ASSUME StartsAssumption == Starts \subseteq Int

VARIABLES
    valid,              \* _descriptor # INVALID_SOCKET
    counter,            \* AtomicCounter
    program,            \* what each thread has left to do
    recvs, sends,       \* kernel: operations in flight, on _RecvOverlapped, _SendOverlapped
    shut,               \* kernel: Shutdown(SD_BOTH) was called
    start,              \* history: the counter's first value
    enabled, writes,    \* history: the calls
    leaked,             \* history: references no step will give back
    ended,              \* history: the end was reported since the last reference taken
    died                \* the process has ended in std::terminate

kernelVars == <<recvs, sends, shut>>
callVars == <<enabled, writes>>
winVars == <<valid, counter, program, kernelVars, start, callVars, leaked, ended, died>>

WinInit == /\ valid \in BOOLEAN
           /\ start \in Starts /\ counter = start
           /\ program = [t \in Threads |-> <<>>]
           /\ recvs = 0 /\ sends = 0 /\ shut = FALSE
           /\ enabled = FALSE /\ writes = 0
           /\ leaked = 0 /\ ended = FALSE /\ died = FALSE

\* (Mutant: the counter tested before it is decreased.)
FinishSwapped == <<"test", "decrease">>

\* A reference is given back, and the end reported if it was the last.
Finish == <<"decrease", "test">>

ReadSteps == <<"increase", "recv">>

At(t, step) == program[t] # <<>> /\ Head(program[t]) = step
Continues(t, steps) == program' = [program EXCEPT ![t] = steps]
Rest(t) == Tail(program[t])

-------------------------------------------------------------------------------
(* The calls of a client.                                                     *)

\* A client enables its descriptor once, as TCPLinkImpl::Enable would; the code
\* has no guard against a second call, which would post a second receive.
Enable(t) == /\ program[t] = <<>> /\ ~enabled
             /\ enabled' = TRUE
             /\ Continues(t, <<"increase">> \o ReadSteps \o Finish)
             /\ UNCHANGED <<valid, counter, kernelVars, start, writes, leaked, ended, died>>

WinWrite(t) == /\ program[t] = <<>> /\ writes < MaxWrites
               /\ writes' = writes + 1
               /\ Continues(t, <<"increase", "put", "send">>)
               /\ UNCHANGED <<valid, counter, kernelVars, start, enabled, leaked, ended, died>>

-------------------------------------------------------------------------------
(* The steps.                                                                 *)

IncreaseCounter(t) == /\ At(t, "increase") /\ Continues(t, Rest(t))
                      /\ counter' = counter + 1
                      /\ ended' = FALSE
                      /\ UNCHANGED <<valid, kernelVars, start, callVars, leaked, died>>

DecreaseCounter(t) == /\ At(t, "decrease") /\ Continues(t, Rest(t))
                      /\ counter' = counter - 1
                      /\ UNCHANGED <<valid, kernelVars, start, callVars, leaked, ended, died>>

\* _ExceptCallback if GetCounter() is 0.
TestCounter(t) == /\ At(t, "test") /\ Continues(t, Rest(t))
                  /\ ended' = (ended \/ counter = 0)
                  /\ UNCHANGED <<valid, counter, kernelVars, start, callVars, leaked, died>>

\* Posted, or completed at once, which queues a completion as well.
Posted(t, step) == /\ valid /\ ~shut
                   /\ Continues(t, Rest(t))
                   /\ recvs' = IF step = "recv" THEN recvs + 1 ELSE recvs
                   /\ sends' = IF step = "send" THEN sends + 1 ELSE sends
                   /\ UNCHANGED leaked

\* (Mutant: the reference kept when the call fails.)
PostFailsKeeping(t) == Continues(t, Rest(t)) /\ UNCHANGED <<recvs, sends, leaked>>

PostFails(t) == Continues(t, Finish \o Rest(t)) /\ UNCHANGED <<recvs, sends, leaked>>

\* WSAEWOULDBLOCK, taken for an operation that is on its way.
WouldBlock(t) == /\ valid
                 /\ Continues(t, Rest(t)) /\ leaked' = leaked + 1
                 /\ UNCHANGED <<recvs, sends>>

\* WSARecv and WSASend; an invalid socket is not even tried.
Post(t, step) == /\ At(t, step)
                 /\ Posted(t, step) \/ PostFails(t) \/ WouldBlock(t)
                 /\ UNCHANGED <<valid, counter, shut, start, callVars, ended, died>>

Die == /\ died' = TRUE
       /\ UNCHANGED <<valid, counter, program, kernelVars, start, callVars, leaked, ended>>

\* The bytes go into the ring, under its lock.
Put(t) == /\ At(t, "put")
          /\ \/ valid /\ Die
             \/ /\ Continues(t, IF valid THEN Rest(t) ELSE Finish)
                /\ UNCHANGED <<valid, counter, kernelVars, start, callVars, leaked, ended, died>>

-------------------------------------------------------------------------------
(* IOCompletion and IOError, on a thread of the context, which takes over the *)
(* reference of the operation.                                                *)

CompleteRecv(t) == /\ program[t] = <<>> /\ recvs > 0
                   /\ recvs' = recvs - 1
                   /\ shut' = TRUE
                   /\ Continues(t, <<"read">> \o Finish)
                   /\ UNCHANGED <<valid, counter, sends, start, callVars, leaked, ended, died>>

\* _Read fails, or there is something to read and the next receive is posted.
ReadAnswers(t) == /\ At(t, "read")
                  /\ Continues(t, Rest(t)) \/ Continues(t, ReadSteps \o Rest(t))
                  /\ UNCHANGED <<valid, counter, kernelVars, start, callVars, leaked, ended, died>>

\* (Mutant: a completed send posts a receive, as a completed receive does.)
CompleteSendReading(t) ==
    /\ program[t] = <<>> /\ sends > 0
    /\ sends' = sends - 1
    /\ Continues(t, ReadSteps \o Finish)
    /\ UNCHANGED <<valid, counter, recvs, shut, start, callVars, leaked, ended, died>>

\* MoveReadPostion may throw; a send of no bytes shuts the socket down and then
\* does.
CompleteSend(t) == /\ program[t] = <<>> /\ sends > 0
                   /\ \/ /\ sends' = sends - 1 /\ Continues(t, Finish)
                         /\ UNCHANGED <<valid, counter, recvs, shut, start, callVars, leaked,
                                        ended, died>>
                      \/ Die

OperationFails(t) == /\ program[t] = <<>>
                     /\ \/ recvs > 0 /\ recvs' = recvs - 1 /\ UNCHANGED sends
                        \/ sends > 0 /\ sends' = sends - 1 /\ UNCHANGED recvs
                     /\ Continues(t, Finish)
                     /\ UNCHANGED <<valid, counter, shut, start, callVars, leaked, ended, died>>

Step(t) == \/ IncreaseCounter(t) \/ DecreaseCounter(t) \/ TestCounter(t)
           \/ Put(t) \/ Post(t, "recv") \/ Post(t, "send") \/ ReadAnswers(t)

WinNext == /\ ~died
           /\ \E t \in Threads : \/ Enable(t) \/ WinWrite(t) \/ Step(t)
                                 \/ CompleteRecv(t) \/ CompleteSend(t) \/ OperationFails(t)

WinSpec == WinInit /\ [][WinNext]_winVars

-------------------------------------------------------------------------------
Steps == {"increase", "decrease", "test", "recv", "put", "send", "read"}

WinTypeOK == /\ valid \in BOOLEAN /\ shut \in BOOLEAN /\ enabled \in BOOLEAN
             /\ ended \in BOOLEAN /\ died \in BOOLEAN
             /\ start \in Starts /\ counter \in Int
             /\ program \in [Threads -> Seq(Steps)]
             /\ recvs \in Nat /\ sends \in Nat /\ writes \in Nat /\ leaked \in Nat

\* How often a program takes one of these steps.
Count(p, steps) == Cardinality({i \in 1..Len(p) : p[i] \in steps})

\* The references a thread has to give back, or to hand to an operation it posts.
Held(p) == Count(p, {"decrease", "recv", "send"}) - Count(p, {"increase"})

\* AtomicCounter: the counter is the references in use, one for each operation
\* in flight, those of the threads inside, and what each WSAEWOULDBLOCK has left
\* behind, on top of whatever the memory held: no path through the error cases
\* loses one or gives one back twice.
CounterExact ==
    counter = start + recvs + sends + leaked + Total([t \in Threads |-> Held(program[t])])

\* When the counter of a descriptor that has been in use is back at 0 and its
\* threads are out of it, the end has been reported since the last reference was
\* taken, however the decrements and tests of several completions mix.  (It may
\* have been reported by each of them; a counter that began below 0 is at 0 too
\* early.)
EndNotMissed == /\ enabled \/ writes > 0
                /\ start >= 0
                /\ counter = 0 /\ \A t \in Threads : program[t] = <<>>
                => ended

\* Read resets _RecvOverlapped only when no receive is in flight on it, and no
\* two threads are about to post one, given that the descriptor is enabled once:
\* each receive is posted by whoever has handled the last.  (_SendOverlapped has
\* no such owner: two calls of Write share it.)
OneReceive == recvs + Total([t \in Threads |-> Count(program[t], {"recv", "read"})]) <= 1
===============================================================================
