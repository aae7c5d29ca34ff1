------------------------------ MODULE Descriptor ------------------------------
(***************************************************************************)
(* The write path of EventLoop::IDescriptor on the POSIX platforms: Write   *)
(* puts bytes into the ring, _Write frames the unread ones and sends them.  *)
(*                                                                          *)
(* _Write holds the ring's lock while it copies and while it moves the read *)
(* position, and not while it writes to the socket: the three are steps of  *)
(* their own, and several threads of a context's pool may be in it.  What a *)
(* context does with the answer is EpollContext.  (The epoll context asks   *)
(* for EPOLLIN only, so as it stands its jobs never call _Write.)           *)
(*                                                                          *)
(* A byte is the place it has in all that was ever written, so that the     *)
(* wire shows which bytes it carries; Header stands for each of the         *)
(* HeaderSize bytes of a length that Serialize puts first.                  *)
(***************************************************************************)
EXTENDS Integers, Sequences, FiniteSets, Totals

CONSTANTS BufferSize,  \* of the ring, and _Capacity of a stream
          HeaderSize,  \* sizeof(uint32_t)
          MaxBytes,    \* bound on the bytes written
          MaxWire,     \* bound on those sent: a confused ring may never run dry
          Workers      \* threads that may call _Write

ASSUME BufferSizeAssumption == BufferSize \in Nat \ {0}
ASSUME HeaderSizeAssumption == HeaderSize \in Nat
ASSUME BoundsAssumption == MaxBytes \in Nat /\ MaxWire \in Nat
ASSUME WorkersAssumption == IsFiniteSet(Workers)

VARIABLES Front, Rear, Buffer, io, terminated,   \* the ring, and the process
          StreamBuffer,  \* the frame each worker has collected
          ret,           \* what write() answered it
          at,            \* where in _Write it is
          wire,          \* what the socket has taken, in order
          written,       \* history: how many bytes Write has put
          overlapped,    \* history: two threads were in _Write at once
          confused       \* history: the ring was filled exactly, or drained with
                         \* its Rear at the end (CircularBuffer!SizeStep)

ringVars == <<Front, Rear, Buffer, io>>
workerVars == <<StreamBuffer, ret, at>>
vars == <<ringVars, terminated, workerVars, wire, written, overlapped, confused>>

Header == 0
Ring == INSTANCE CircularBuffer WITH Byte <- 0..MaxBytes, Zero <- Header,
                                     UIntMod <- 2 * BufferSize + 1

Init == /\ Ring!Init
        /\ StreamBuffer = [w \in Workers |-> <<>>]
        /\ ret = [w \in Workers |-> 0] /\ at = [w \in Workers |-> "out"]
        /\ wire = <<>> /\ written = 0
        /\ overlapped = FALSE /\ confused = FALSE

Goes(w, where) == at' = [at EXCEPT ![w] = where]
Returns(w) == /\ Goes(w, "out")
              /\ StreamBuffer' = [StreamBuffer EXCEPT ![w] = <<>>] /\ ret' = [ret EXCEPT ![w] = 0]

-------------------------------------------------------------------------------
\* UnixLikeDescriptor::Write: all or, through PutData's `throw;', nothing.
Write(n) ==
    /\ written + n <= MaxBytes
    /\ Ring!PutData([i \in 1..n |-> written + i])
    /\ written' = IF terminated' THEN written ELSE written + n
    /\ confused' = (confused \/ (Ring!GetUseSize + n = BufferSize /\ Front > 0))
    /\ UNCHANGED <<workerVars, wire, overlapped>>

\* OutputMemoryStream::Serialize, unless it does not fit.
Serialize(data) == [i \in 1..HeaderSize |-> Header] \o data

\* The second segment would follow if the first were larger than all that is in
\* use, which it never is: a wrapped rest waits for the next call.
Collect(w) ==
    LET first == Ring!GetReadBufferAndLengths[1]
    IN  /\ at[w] = "out" /\ Ring!GetUseSize > 0 /\ Len(wire) < MaxWire
        /\ IF HeaderSize + first.length > BufferSize
           THEN terminated' = TRUE /\ UNCHANGED <<workerVars, overlapped>>
           ELSE /\ StreamBuffer' = [StreamBuffer EXCEPT ![w] = Serialize(Ring!BytesIn(first.length))]
                /\ Goes(w, "write")
                /\ overlapped' = (overlapped \/ \E v \in Workers : at[v] # "out")
                /\ UNCHANGED <<ret, terminated>>
        /\ UNCHANGED <<ringVars, wire, written, confused>>

\* The socket takes some of the frame, or none of it now (-1), or fails, which
\* goes to _ExceptCallback and leaves the ring as it is.
SocketWrite(w) ==
    /\ at[w] = "write"
    /\ \/ \E n \in 1..Len(StreamBuffer[w]) :
             /\ wire' = wire \o SubSeq(StreamBuffer[w], 1, n)
             /\ ret' = [ret EXCEPT ![w] = n] /\ Goes(w, "move")
             /\ UNCHANGED StreamBuffer
       \/ ret' = [ret EXCEPT ![w] = -1] /\ Goes(w, "move") /\ UNCHANGED <<wire, StreamBuffer>>
       \/ Returns(w) /\ UNCHANGED wire
    /\ UNCHANGED <<ringVars, terminated, written, overlapped, confused>>

\* (Mutant: the whole frame counted as sent.)
SentWhole(w) == Len(StreamBuffer[w])

Sent(w) == ret[w]

\* (Mutant: the position moved only when the whole frame is out.)
MoveIfWhole(w) == /\ at[w] = "move"
                  /\ IF ret[w] < Len(StreamBuffer[w]) THEN UNCHANGED <<ringVars, terminated>>
                                                      ELSE Ring!MoveReadPostion(ret[w])
                  /\ Returns(w)
                  /\ UNCHANGED <<wire, written, overlapped, confused>>

\* The read position moves by what write() answered, the header's bytes and a -1
\* included.
Move(w) == /\ at[w] = "move"
           /\ Ring!MoveReadPostion(Sent(w))
           /\ confused' = (confused \/ (Rear = BufferSize /\ Sent(w) = Ring!GetUseSize))
           /\ Returns(w)
           /\ UNCHANGED <<wire, written, overlapped>>

Next == /\ ~terminated
        /\ \/ \E n \in 0..(BufferSize + 1) : Write(n)
           \/ \E w \in Workers : Collect(w) \/ SocketWrite(w) \/ Move(w)

Spec == Init /\ [][Next]_vars

-------------------------------------------------------------------------------
TypeOK == /\ Ring!TypeOK
          /\ StreamBuffer \in [Workers -> Seq(0..MaxBytes)]
          /\ ret \in [Workers -> Int]
          /\ at \in [Workers -> {"out", "write", "move"}]
          /\ wire \in Seq(0..MaxBytes)
          /\ written \in 0..MaxBytes
          /\ overlapped \in BOOLEAN /\ confused \in BOOLEAN

\* The bytes the socket has taken for which the ring has not moved yet.
Pending == Total([w \in Workers |-> IF at[w] = "move" /\ ret[w] > 0 THEN ret[w] ELSE 0])

\* The ring gives up one byte for every byte the socket takes, headers included,
\* also while several threads write at once: so each frame's header costs as
\* many bytes of data, which leave the ring and never reach the wire.
WireConserved == ~terminated /\ ~confused => written - Ring!GetUseSize + Pending = Len(wire)

\* No byte of data is sent twice or after one written later, unless two threads
\* were in _Write at once, which copies the same bytes for both.
OnceUnlessOverlapping ==
    ~overlapped /\ ~confused =>
        \A i, j \in 1..Len(wire) :
           i < j /\ wire[i] # Header /\ wire[j] # Header => wire[i] < wire[j]
===============================================================================
