---------------------------- MODULE CircularBuffer ----------------------------
(***************************************************************************)
(* Util::CircularBuffer: the byte ring behind every descriptor.             *)
(*                                                                          *)
(* A call is one atomic action: the class holds no lock and its callers     *)
(* serialise it.  `throw;' outside a handler ends the process, so a call    *)
(* whose size the code rejects that way leads to `terminated'.  Front and   *)
(* Rear may both rest at BufferSize, one past the last cell: only           *)
(* MoveReadPostion folds that position back to 0.                           *)
(***************************************************************************)
EXTENDS Integers, Sequences

CONSTANTS BufferSize,  \* _BufferSize, the constructor's argument
          Byte,        \* the values a cell can hold
          Zero,        \* what memset leaves in every cell
          UIntMod      \* stands for 2^32, the range of a segment length

ASSUME BufferSizeAssumption == BufferSize \in Nat \ {0}
ASSUME ByteAssumption == Zero \in Byte
ASSUME UIntModAssumption == UIntMod \in Nat /\ UIntMod > 2 * BufferSize

BLANK_BUFFER == 1

VARIABLES Front, Rear,  \* the read and the write position
          Buffer,       \* the cells
          io,          \* the bytes the last call copied from or to its caller
          terminated    \* the process has ended in std::terminate

vars == <<Front, Rear, Buffer, io, terminated>>

Cell == 0..(BufferSize - 1)
Data(max) == UNION {[1..n -> Byte] : n \in 0..max}

Init == /\ Front = 0 /\ Rear = 0
        /\ Buffer = [c \in Cell |-> Zero]
        /\ io = <<>>
        /\ terminated = FALSE

-------------------------------------------------------------------------------
GetBufferSize == BufferSize - BLANK_BUFFER

GetUseSize == IF Rear >= Front THEN Rear - Front ELSE BufferSize - Front + Rear

\* Mutant: the blank byte counted twice.
GetFreeSizeAndBlank == BufferSize - GetUseSize + BLANK_BUFFER

GetFreeSize == BufferSize - GetUseSize

\* Mutant: the wrapped part of the unread bytes cut short.
GetNotBrokenGetSizeLessBlank ==
    IF Front <= Rear THEN Rear - Front ELSE BufferSize - Front - BLANK_BUFFER

GetNotBrokenGetSize == IF Front <= Rear THEN Rear - Front ELSE BufferSize - Front

\* Mutant: the read position ahead of Rear forgotten.
GetNotBrokenPutSizeToEnd == BufferSize - Rear

GetNotBrokenPutSize ==
    IF Rear < Front THEN Front - Rear - BLANK_BUFFER
    ELSE IF Front < BLANK_BUFFER THEN BufferSize - Rear - BLANK_BUFFER + Front
    ELSE BufferSize - Rear

\* The one or two segments handed to scatter/gather I/O.  A length is a
\* uint32_t, so a negative one wraps round.
Segments(position, unbroken, total) ==
    LET first == unbroken % UIntMod IN
    <<[start |-> position, length |-> first]>>
      \o IF first < total THEN <<[start |-> 0, length |-> total - first]>> ELSE <<>>

GetReadBufferAndLengths == Segments(Front, GetNotBrokenGetSize, GetUseSize)
GetWriteBufferAndLengths == Segments(Rear, GetNotBrokenPutSize, GetFreeSize)

-------------------------------------------------------------------------------
\* The cell the i-th byte of a put is copied to, of a get is copied from, and
\* the positions after n bytes.
\* (Mutant: one memcpy, as if nothing ever wrapped.)
PutCellUnsplit(i) == Rear + i - 1

PutCell(i) == IF Front <= Rear /\ i > BufferSize - Rear
              THEN i - (BufferSize - Rear) - 1 ELSE Rear + i - 1

TakeCell(i) == IF Front > Rear /\ i > BufferSize - Front
               THEN i - (BufferSize - Front) - 1 ELSE Front + i - 1

\* (Mutants: Rear never wraps; Rear wraps one short.)
RearAfterUnwrapped(n) == Rear + n
RearAfterOneShort(n) == IF Front <= Rear /\ n > BufferSize - Rear
                        THEN n - (BufferSize - Rear) - 1 ELSE Rear + n

RearAfter(n) == IF Front <= Rear /\ n > BufferSize - Rear
                THEN n - (BufferSize - Rear) ELSE Rear + n

FrontAfter(n) == IF Front > Rear /\ n > BufferSize - Front
                 THEN n - (BufferSize - Front) ELSE Front + n

\* BytesIn(n): the n oldest unread bytes.
BytesIn(n) == [i \in 1..n |-> Buffer[TakeCell(i)]]

\* Mutant: the second memcpy of a put that wraps left out.
StoredFirstPart(data) == [c \in Cell |->
                            IF \E i \in 1..Len(data) : Rear + i - 1 = c
                            THEN data[c - Rear + 1] ELSE Buffer[c]]

Stored(data) == [c \in Cell |->
                   IF \E i \in 1..Len(data) : PutCell(i) = c
                   THEN data[CHOOSE i \in 1..Len(data) : PutCell(i) = c]
                   ELSE Buffer[c]]

Accepted(n, limit) == 0 < n /\ n <= limit

Throw(n, limit) == /\ ~Accepted(n, limit)
                   /\ terminated' = TRUE
                   /\ UNCHANGED <<Front, Rear, Buffer, io>>

PutData(data) ==
    \/ Throw(Len(data), GetFreeSize)
    \/ /\ Accepted(Len(data), GetFreeSize)
       /\ Buffer' = Stored(data)
       /\ Rear' = RearAfter(Len(data))
       /\ io' = data
       /\ UNCHANGED <<Front, terminated>>

GetData(n) ==
    \/ Throw(n, GetUseSize)
    \/ /\ Accepted(n, GetUseSize)
       /\ io' = BytesIn(n)
       /\ Front' = FrontAfter(n)
       /\ UNCHANGED <<Rear, Buffer, terminated>>

\* The only call that answers a size it cannot serve, with a 0.
Peek(n) ==
    /\ io' = IF Accepted(n, GetUseSize) THEN BytesIn(n) ELSE <<>>
    /\ UNCHANGED <<Front, Rear, Buffer, terminated>>

MoveReadPostion(n) ==
    \/ Throw(n, GetUseSize)
    \/ /\ Accepted(n, GetUseSize)
       /\ Front' = IF FrontAfter(n) = BufferSize THEN 0 ELSE FrontAfter(n)
       /\ io' = <<>>
       /\ UNCHANGED <<Rear, Buffer, terminated>>

MoveWritePos(n) ==
    \/ Throw(n, GetFreeSize)
    \/ /\ Accepted(n, GetFreeSize)
       /\ Rear' = RearAfter(n)
       /\ io' = <<>>
       /\ UNCHANGED <<Front, Buffer, terminated>>

\* Every size of interest: negative, zero, all that fit and one too many.
Size == -1..(BufferSize + 1)

Next == /\ ~terminated
        /\ \/ \E data \in Data(BufferSize + 1) : PutData(data)
           \/ \E n \in Size : GetData(n) \/ Peek(n) \/ MoveReadPostion(n) \/ MoveWritePos(n)

Spec == Init /\ [][Next]_vars

-------------------------------------------------------------------------------
(***************************************************************************)
(* The discipline under which the ring is a queue.  The caller reserves the *)
(* blank byte that GetFreeSize counts as free, asks only for what is there, *)
(* and does not drain with MoveReadPostion a ring whose Rear rests at the   *)
(* end.                                                                     *)
(***************************************************************************)
ReservedNext ==
    \/ \E data \in Data(GetFreeSize - BLANK_BUFFER) : Len(data) > 0 /\ PutData(data)
    \/ \E n \in Size : Peek(n)
    \/ \E n \in 1..GetUseSize : GetData(n)
    \/ \E n \in 1..GetUseSize : /\ ~(Rear = BufferSize /\ n = GetUseSize)
                                /\ MoveReadPostion(n)

ReservedSpec == Init /\ [][ReservedNext]_vars

-------------------------------------------------------------------------------
TypeOK == /\ Front \in 0..BufferSize /\ Rear \in 0..BufferSize
          /\ Buffer \in [Cell -> Byte]
          /\ io \in Seq(Byte)
          /\ terminated \in BOOLEAN

\* The cells a put may write and those that hold unread bytes.
Writable == {PutCell(i) : i \in 1..GetFreeSize}
Unread == {TakeCell(i) : i \in 1..GetUseSize}

\* No call that the size checks let through copies outside the allocation,
\* although both positions may stand one past its end.
CopiesInBounds == Writable \subseteq Cell /\ Unread \subseteq Cell

\* A put that the size check lets through overwrites no unread byte, and never
\* writes one cell twice: the two memcpy calls split the data without overlap.
PutSparesUnread ==
    /\ Writable \cap Unread = {}
    /\ \A i, j \in 1..GetFreeSize : PutCell(i) = PutCell(j) => i = j

CellsOf(segment) == [i \in 1..segment.length |-> segment.start + i - 1]

\* The segments given to a gathering write are the unread bytes, all of them
\* and in the order GetData would copy them.
ReadSegmentsAgree ==
    LET s == GetReadBufferAndLengths IN
    (IF Len(s) = 1 THEN CellsOf(s[1]) ELSE CellsOf(s[1]) \o CellsOf(s[2]))
      = [i \in 1..GetUseSize |-> TakeCell(i)]

\* The segments given to a scattering read are what PutData would fill: the
\* first one always its head, unless the ring is full with its positions at both
\* ends, where the unsigned length wraps; both together all of it, provided
\* 1 <= Front <= Rear.  Otherwise BLANK_BUFFER has shortened the first segment
\* and the byte held back reappears as a second segment on cell 0.
WriteSegmentsAgree ==
    LET s == GetWriteBufferAndLengths
        agrees(cells) == /\ Len(cells) <= GetFreeSize
                         /\ \A i \in 1..Len(cells) : cells[i] = PutCell(i)
    IN  /\ ~(Front = 0 /\ Rear = BufferSize) => agrees(CellsOf(s[1]))
        /\ Front \in 1..Rear =>
              LET all == IF Len(s) = 1 THEN CellsOf(s[1]) ELSE CellsOf(s[1]) \o CellsOf(s[2])
              IN  Len(all) = GetFreeSize /\ agrees(all)

\* A call changes the amount in use by the size it was given.  The two
\* exceptions are the positions that mean both full and empty: a put that fills
\* the ring exactly reads as empty unless Front is 0, and MoveReadPostion
\* draining a ring whose Rear is at the end reads as full.
Puts(n) == MoveWritePos(n) \/ \E data \in [1..n -> Byte] : PutData(data)

SizeStep ==
    \A n \in 1..BufferSize : ~terminated' =>
       /\ Puts(n) => GetUseSize' = IF GetUseSize + n = BufferSize /\ Front > 0
                                   THEN 0 ELSE GetUseSize + n
       /\ GetData(n) => GetUseSize' = GetUseSize - n
       /\ MoveReadPostion(n) => GetUseSize' = IF n = GetUseSize /\ Rear = BufferSize
                                              THEN BufferSize ELSE GetUseSize - n

SizeAccounting == [][SizeStep]_vars

\* What the name and value of BLANK_BUFFER promise: one cell is always blank,
\* so that at most GetBufferSize() bytes are ever in use.
BlankByteKept == GetUseSize <= GetBufferSize

\* Under the discipline above no accepted sequence of calls can tell the ring
\* from a bounded queue of GetBufferSize() bytes.
Queue == INSTANCE ByteQueue WITH items <- BytesIn(GetUseSize), Capacity <- GetBufferSize
ImplementsQueue == Queue!Spec
===============================================================================
