------------------------- MODULE CircularBufferProofs -------------------------
(***************************************************************************)
(* Theorems of CircularBuffer, for every BufferSize and every set of bytes. *)
(***************************************************************************)
EXTENDS CircularBuffer, SequenceTheorems, TLAPS

USE DEF BLANK_BUFFER

\* What the size getters return lies between nothing and the whole allocation.
LEMMA Sizes == TypeOK => GetUseSize \in 0..BufferSize /\ GetFreeSize \in 0..BufferSize
  BY BufferSizeAssumption DEF TypeOK, GetUseSize, GetFreeSize

\* An accepted put leaves Rear in range, an accepted get Front.
LEMMA Positions ==
  TypeOK => /\ \A n \in Int : Accepted(n, GetFreeSize) => RearAfter(n) \in 0..BufferSize
            /\ \A n \in Int : Accepted(n, GetUseSize) => FrontAfter(n) \in 0..BufferSize
  BY BufferSizeAssumption
  DEF TypeOK, GetUseSize, GetFreeSize, Accepted, RearAfter, FrontAfter

\* The cells a put may write and those that hold unread bytes are cells of the
\* allocation.
LEMMA CellsInBounds ==
  TypeOK => /\ \A i \in 1..GetFreeSize : PutCell(i) \in Cell
            /\ \A i \in 1..GetUseSize : TakeCell(i) \in Cell
  BY BufferSizeAssumption
  DEF TypeOK, GetUseSize, GetFreeSize, PutCell, TakeCell, Cell

\* What Peek and GetData copy to their caller is a sequence of bytes.
LEMMA BytesInType ==
  TypeOK => \A n \in 0..GetUseSize : BytesIn(n) \in [1..n -> Byte]
<1> SUFFICES ASSUME TypeOK, NEW n \in 0..GetUseSize
             PROVE  BytesIn(n) \in [1..n -> Byte]
  OBVIOUS
<1>1. \A i \in 1..n : TakeCell(i) \in Cell
  BY CellsInBounds, Sizes
<1>2. \A i \in 1..n : Buffer[TakeCell(i)] \in Byte
  BY <1>1 DEF TypeOK
<1> QED
  BY <1>2 DEF BytesIn

\* Storing data keeps every cell a byte.
LEMMA StoredType ==
  ASSUME TypeOK, NEW data \in Seq(Byte)
  PROVE  Stored(data) \in [Cell -> Byte]
<1> SUFFICES ASSUME NEW c \in Cell
             PROVE  (IF \E i \in 1..Len(data) : PutCell(i) = c
                     THEN data[CHOOSE i \in 1..Len(data) : PutCell(i) = c]
                     ELSE Buffer[c]) \in Byte
  BY DEF Stored
<1>1. CASE \E i \in 1..Len(data) : PutCell(i) = c
  <2> DEFINE j == CHOOSE i \in 1..Len(data) : PutCell(i) = c
  <2>1. j \in 1..Len(data)
    BY <1>1
  <2> QED
    BY <1>1, <2>1
<1>2. CASE ~ \E i \in 1..Len(data) : PutCell(i) = c
  BY <1>2 DEF TypeOK
<1> QED
  BY <1>1, <1>2

LEMMA SeqOfFunction ==
  ASSUME NEW S, NEW n \in Nat, NEW f \in [1..n -> S]
  PROVE  f \in Seq(S) /\ Len(f) = n
  OBVIOUS

LEMMA EmptyIsSeq == ASSUME NEW S PROVE <<>> \in Seq(S)
  OBVIOUS

LEMMA InitType == Init => TypeOK
<1> SUFFICES ASSUME Init
             PROVE  TypeOK
  OBVIOUS
<1>1. Front \in 0..BufferSize /\ Rear \in 0..BufferSize
  BY BufferSizeAssumption DEF Init
<1>2. Buffer \in [Cell -> Byte]
  BY ByteAssumption DEF Init
<1>3. io \in Seq(Byte)
  BY EmptyIsSeq DEF Init
<1>4. terminated \in BOOLEAN
  BY DEF Init
<1> QED
  BY <1>1, <1>2, <1>3, <1>4 DEF TypeOK

LEMMA PutDataType ==
  ASSUME TypeOK, NEW data \in Seq(Byte), PutData(data)
  PROVE  TypeOK'
<1>1. CASE Throw(Len(data), GetFreeSize)
  BY <1>1 DEF Throw, TypeOK
<1>2. CASE Accepted(Len(data), GetFreeSize) /\ ~Throw(Len(data), GetFreeSize)
  <2>1. RearAfter(Len(data)) \in 0..BufferSize
    BY <1>2, Positions
  <2>2. /\ Buffer' = Stored(data) /\ Rear' = RearAfter(Len(data)) /\ io' = data
        /\ UNCHANGED <<Front, terminated>>
    BY <1>2 DEF PutData
  <2> QED
    BY <2>1, <2>2, StoredType DEF TypeOK
<1> QED
  BY <1>1, <1>2 DEF PutData, Throw

LEMMA GetDataType ==
  ASSUME TypeOK, NEW n \in Int, GetData(n)
  PROVE  TypeOK'
<1>1. CASE Throw(n, GetUseSize)
  BY <1>1 DEF Throw, TypeOK
<1>2. CASE Accepted(n, GetUseSize) /\ ~Throw(n, GetUseSize)
  <2>1. n \in 0..GetUseSize
    BY <1>2, Sizes DEF Accepted
  <2>2. FrontAfter(n) \in 0..BufferSize
    BY <1>2, Positions
  <2>3. BytesIn(n) \in Seq(Byte)
    BY <2>1, BytesInType, SeqOfFunction, Sizes
  <2> QED
    BY <1>2, <2>2, <2>3 DEF GetData, TypeOK
<1> QED
  BY <1>1, <1>2 DEF GetData, Throw

LEMMA PeekType ==
  ASSUME TypeOK, NEW n \in Int, Peek(n)
  PROVE  TypeOK'
<1>1. Accepted(n, GetUseSize) => BytesIn(n) \in Seq(Byte)
  BY BytesInType, SeqOfFunction, Sizes DEF Accepted
<1>2. io' \in Seq(Byte)
  BY <1>1 DEF Peek
<1> QED
  BY <1>2 DEF Peek, TypeOK

LEMMA MoveReadPostionType ==
  ASSUME TypeOK, NEW n \in Int, MoveReadPostion(n)
  PROVE  TypeOK'
<1>1. CASE Throw(n, GetUseSize)
  BY <1>1 DEF Throw, TypeOK
<1>2. CASE Accepted(n, GetUseSize) /\ ~Throw(n, GetUseSize)
  <2>1. FrontAfter(n) \in 0..BufferSize /\ 0 \in 0..BufferSize
    BY <1>2, Positions, BufferSizeAssumption
  <2> QED
    BY <1>2, <2>1, EmptyIsSeq DEF MoveReadPostion, TypeOK
<1> QED
  BY <1>1, <1>2 DEF MoveReadPostion, Throw

LEMMA MoveWritePosType ==
  ASSUME TypeOK, NEW n \in Int, MoveWritePos(n)
  PROVE  TypeOK'
<1>1. CASE Throw(n, GetFreeSize)
  BY <1>1 DEF Throw, TypeOK
<1>2. CASE Accepted(n, GetFreeSize) /\ ~Throw(n, GetFreeSize)
  BY <1>2, Positions, EmptyIsSeq DEF MoveWritePos, TypeOK
<1> QED
  BY <1>1, <1>2 DEF MoveWritePos, Throw

LEMMA DataIsSeq == \A m \in Int : \A data \in Data(m) : data \in Seq(Byte) /\ Len(data) \in 0..m
<1> SUFFICES ASSUME NEW m \in Int, NEW data \in Data(m)
             PROVE  data \in Seq(Byte) /\ Len(data) \in 0..m
  OBVIOUS
<1>1. PICK n \in 0..m : data \in [1..n -> Byte]
  BY DEF Data
<1> QED
  BY <1>1, SeqOfFunction

LEMMA StepType == TypeOK /\ [Next]_vars => TypeOK'
<1> SUFFICES ASSUME TypeOK, [Next]_vars
             PROVE  TypeOK'
  OBVIOUS
<1>1. ASSUME NEW data \in Data(BufferSize + 1), PutData(data)
      PROVE  TypeOK'
  BY <1>1, DataIsSeq, BufferSizeAssumption, PutDataType
<1>2. ASSUME NEW n \in Size, GetData(n) \/ Peek(n) \/ MoveReadPostion(n) \/ MoveWritePos(n)
      PROVE  TypeOK'
  <2>1. n \in Int
    BY DEF Size
  <2> QED
    BY <1>2, <2>1, GetDataType, PeekType, MoveReadPostionType, MoveWritePosType
<1>3. CASE UNCHANGED vars
  BY <1>3 DEF vars, TypeOK
<1> QED
  BY <1>1, <1>2, <1>3 DEF Next

\* Both positions stay within the allocation or one past it, whatever sequence
\* of calls the callers make.
THEOREM TypeCorrect == Spec => []TypeOK
<1> QED
  BY InitType, StepType, PTL DEF Spec

\* No memcpy of an accepted call leaves the allocation.
THEOREM InBounds == Spec => []CopiesInBounds
<1>1. TypeOK => CopiesInBounds
  BY CellsInBounds DEF CopiesInBounds, Writable, Unread
<1> QED
  BY <1>1, TypeCorrect, PTL

\* An accepted put destroys no unread byte and writes no cell twice.
THEOREM UnreadSpared == Spec => []PutSparesUnread
<1>1. TypeOK => PutSparesUnread
  <2> SUFFICES ASSUME TypeOK
               PROVE  PutSparesUnread
    OBVIOUS
  <2>1. \A i \in 1..GetFreeSize, j \in 1..GetUseSize : PutCell(i) # TakeCell(j)
    BY BufferSizeAssumption
    DEF TypeOK, GetUseSize, GetFreeSize, PutCell, TakeCell
  <2>2. \A i, j \in 1..GetFreeSize : PutCell(i) = PutCell(j) => i = j
    BY BufferSizeAssumption
    DEF TypeOK, GetUseSize, GetFreeSize, PutCell
  <2> QED
    BY <2>1, <2>2 DEF PutSparesUnread, Writable, Unread
<1> QED
  BY <1>1, TypeCorrect, PTL

-------------------------------------------------------------------------------
LEMMA PutSize ==
  ASSUME TypeOK, NEW n \in 1..BufferSize, Puts(n), ~terminated'
  PROVE  /\ Accepted(n, GetFreeSize)
         /\ Front' = Front /\ Rear' = RearAfter(n)
<1>1. CASE MoveWritePos(n)
  BY <1>1 DEF MoveWritePos, Throw
<1>2. ASSUME NEW data \in [1..n -> Byte], PutData(data)
      PROVE  /\ Accepted(n, GetFreeSize)
             /\ Front' = Front /\ Rear' = RearAfter(n)
  <2>1. Len(data) = n
    BY SeqOfFunction
  <2> QED
    BY <1>2, <2>1 DEF PutData, Throw
<1> QED
  BY <1>1, <1>2 DEF Puts

LEMMA SizeOfStep == TypeOK => SizeStep
<1> SUFFICES ASSUME TypeOK, NEW n \in 1..BufferSize, ~terminated'
             PROVE  /\ Puts(n) => GetUseSize' = IF GetUseSize + n = BufferSize /\ Front > 0
                                                THEN 0 ELSE GetUseSize + n
                    /\ GetData(n) => GetUseSize' = GetUseSize - n
                    /\ MoveReadPostion(n) =>
                         GetUseSize' = IF n = GetUseSize /\ Rear = BufferSize
                                       THEN BufferSize ELSE GetUseSize - n
  BY DEF SizeStep
<1>1. ASSUME Puts(n)
      PROVE  GetUseSize' = IF GetUseSize + n = BufferSize /\ Front > 0
                           THEN 0 ELSE GetUseSize + n
  BY <1>1, PutSize, BufferSizeAssumption
  DEF TypeOK, Accepted, GetUseSize, GetFreeSize, RearAfter
<1>2. ASSUME GetData(n)
      PROVE  GetUseSize' = GetUseSize - n
  <2>1. Accepted(n, GetUseSize) /\ Front' = FrontAfter(n) /\ Rear' = Rear
    BY <1>2 DEF GetData, Throw
  <2> QED
    BY <2>1, BufferSizeAssumption DEF TypeOK, Accepted, GetUseSize, FrontAfter
<1>3. ASSUME MoveReadPostion(n)
      PROVE  GetUseSize' = IF n = GetUseSize /\ Rear = BufferSize
                           THEN BufferSize ELSE GetUseSize - n
  <2>1. /\ Accepted(n, GetUseSize) /\ Rear' = Rear
        /\ Front' = IF FrontAfter(n) = BufferSize THEN 0 ELSE FrontAfter(n)
    BY <1>3 DEF MoveReadPostion, Throw
  <2> QED
    BY <2>1, BufferSizeAssumption DEF TypeOK, Accepted, GetUseSize, FrontAfter
<1> QED
  BY <1>1, <1>2, <1>3

\* Every accepted call changes the amount in use by its size, save in the two
\* positions where Front and Rear cannot tell a full ring from an empty one.
THEOREM SizesAccounted == Spec => SizeAccounting
<1>1. TypeOK /\ [Next]_vars => [SizeStep]_vars
  BY SizeOfStep
<1> QED
  BY <1>1, TypeCorrect, PTL DEF Spec, SizeAccounting

-------------------------------------------------------------------------------
\* A length that is not negative is itself as a uint32_t.
LEMMA NoWrap == ASSUME NEW n \in 0..BufferSize PROVE n % UIntMod = n
<1>1. UIntMod \in Nat /\ n < UIntMod
  BY BufferSizeAssumption, UIntModAssumption
<1> QED
  BY <1>1

\* The segments of an unbroken part u of total t cells from p on.
LEMMA SegmentsOf ==
  ASSUME NEW p \in Int, NEW u \in 0..BufferSize, NEW t \in 0..BufferSize
  PROVE  Segments(p, u, t) = IF u < t
                             THEN <<[start |-> p, length |-> u], [start |-> 0, length |-> t - u]>>
                             ELSE <<[start |-> p, length |-> u]>>
<1> DEFINE x == [start |-> p, length |-> u]
           y == [start |-> 0, length |-> t - u]
<1>1. Segments(p, u, t) = <<x>> \o IF u < t THEN <<y>> ELSE <<>>
  BY NoWrap DEF Segments
<1> HIDE DEF x, y
<1>2. <<x>> \o <<y>> = <<x, y>> /\ <<x>> \o <<>> = <<x>>
  <2> DEFINE S == {x, y}
  <2>1. <<x>> \in Seq(S) /\ <<y>> \in Seq(S) /\ <<x, y>> \in Seq(S)
    OBVIOUS
  <2>2. Len(<<x>>) = 1 /\ Len(<<y>>) = 1 /\ Len(<<x, y>>) = 2
    OBVIOUS
  <2> HIDE DEF S
  <2>3. /\ <<x>> \o <<y>> \in Seq(S) /\ Len(<<x>> \o <<y>>) = 2
        /\ \A i \in 1..2 : (<<x>> \o <<y>>)[i] = IF i <= 1 THEN <<x>>[i] ELSE <<y>>[i - 1]
    BY <2>1, <2>2, ConcatProperties
  <2>4. \A i \in 1..2 : (<<x>> \o <<y>>)[i] = <<x, y>>[i]
    BY <2>3
  <2>5. <<x>> \o <<y>> = <<x, y>>
    BY <2>1, <2>2, <2>3, <2>4, SeqEqual
  <2>6. <<x>> \o <<>> = <<x>>
    BY <2>1, ConcatEmptySeq
  <2> QED
    BY <2>5, <2>6
<1> QED
  BY <1>1, <1>2 DEF x, y

\* The cells of a segment, and those of two in a row.
LEMMA CellsOne ==
  ASSUME NEW p \in Int, NEW u \in 0..BufferSize
  PROVE  LET c == CellsOf([start |-> p, length |-> u]) IN
         /\ c \in Seq(Int) /\ Len(c) = u /\ DOMAIN c = 1..u
         /\ \A i \in 1..u : c[i] = p + i - 1
BY BufferSizeAssumption DEF CellsOf

LEMMA CellsTwo ==
  ASSUME NEW p \in Int, NEW u \in 0..BufferSize, NEW v \in 0..BufferSize
  PROVE  LET c == CellsOf([start |-> p, length |-> u]) \o CellsOf([start |-> 0, length |-> v])
         IN  /\ c \in Seq(Int) /\ Len(c) = u + v /\ DOMAIN c = 1..(u + v)
             /\ \A i \in 1..(u + v) : c[i] = IF i <= u THEN p + i - 1 ELSE i - u - 1
<1> DEFINE a == CellsOf([start |-> p, length |-> u])
           b == CellsOf([start |-> 0, length |-> v])
<1>1. a \in Seq(Int) /\ Len(a) = u /\ \A i \in 1..u : a[i] = p + i - 1
  BY CellsOne
<1>2. b \in Seq(Int) /\ Len(b) = v /\ \A i \in 1..v : b[i] = 0 + i - 1
  <2>1. 0 \in Int
    OBVIOUS
  <2> QED
    BY <2>1, CellsOne
<1> HIDE DEF a, b
<1>3. a \o b \in Seq(Int) /\ Len(a \o b) = Len(a) + Len(b)
  BY <1>1, <1>2, ConcatProperties
<1>4. DOMAIN (a \o b) = 1..Len(a \o b)
  BY <1>3, LenProperties
<1>5. ASSUME NEW i \in 1..(u + v)
      PROVE  (a \o b)[i] = IF i <= u THEN p + i - 1 ELSE i - u - 1
  BY <1>1, <1>2, ConcatProperties
<1>6. Len(a \o b) = u + v
  BY <1>1, <1>2, <1>3
<1> QED
  BY <1>3, <1>4, <1>5, <1>6 DEF a, b

\* The segments for a gathering write hold the unread bytes, in their order.
THEOREM ReadSegmentsCorrect == Spec => []ReadSegmentsAgree
<1>1. TypeOK => ReadSegmentsAgree
  <2> SUFFICES ASSUME TypeOK
               PROVE  ReadSegmentsAgree
    OBVIOUS
  <2> DEFINE u == GetNotBrokenGetSize
             t == GetUseSize
             want == [i \in 1..t |-> TakeCell(i)]
  <2>1. /\ Front \in Int /\ u \in 0..BufferSize /\ t \in 0..BufferSize /\ u <= t
        /\ \A i \in 1..t : TakeCell(i) = IF i <= u THEN Front + i - 1 ELSE i - u - 1
    BY BufferSizeAssumption DEF TypeOK, GetUseSize, GetNotBrokenGetSize, TakeCell
  <2> HIDE DEF u, t
  <2>2. CASE u < t
    <3> DEFINE x == [start |-> Front, length |-> u]
               y == [start |-> 0, length |-> t - u]
               c == CellsOf(x) \o CellsOf(y)
    <3>1. Segments(Front, u, t) = <<x, y>>
      BY <2>1, <2>2, SegmentsOf
    <3>2. c \in Seq(Int) /\ DOMAIN c = 1..t
          /\ \A i \in 1..t : c[i] = IF i <= u THEN Front + i - 1 ELSE i - u - 1
      <4>1. t - u \in 0..BufferSize /\ u + (t - u) = t
        BY <2>1, <2>2, BufferSizeAssumption
      <4>2. /\ c \in Seq(Int) /\ DOMAIN c = 1..(u + (t - u))
            /\ \A i \in 1..(u + (t - u)) : c[i] = IF i <= u THEN Front + i - 1 ELSE i - u - 1
        BY <2>1, <4>1, CellsTwo
      <4> HIDE DEF c
      <4> QED
        BY <4>1, <4>2
    <3>3. c = want
      <4> HIDE DEF c
      <4> QED
        BY <2>1, <3>2
    <3> HIDE DEF x, y
    <3>4. Len(<<x, y>>) = 2 /\ <<x, y>>[1] = x /\ <<x, y>>[2] = y
      OBVIOUS
    <3> QED
      BY <3>1, <3>3, <3>4 DEF ReadSegmentsAgree, GetReadBufferAndLengths, u, t
  <2>3. CASE u = t
    <3> DEFINE x == [start |-> Front, length |-> u]
               c == CellsOf(x)
    <3>1. Segments(Front, u, t) = <<x>>
      BY <2>1, <2>3, SegmentsOf
    <3>2. c \in Seq(Int) /\ DOMAIN c = 1..t /\ \A i \in 1..t : c[i] = Front + i - 1
      BY <2>1, <2>3, CellsOne
    <3>3. c = want
      <4> HIDE DEF c
      <4> QED
        BY <2>1, <2>3, <3>2
    <3> HIDE DEF x
    <3>4. Len(<<x>>) = 1 /\ <<x>>[1] = x
      OBVIOUS
    <3> QED
      BY <3>1, <3>3, <3>4 DEF ReadSegmentsAgree, GetReadBufferAndLengths, u, t
  <2> QED
    BY <2>1, <2>2, <2>3
<1> QED
  BY <1>1, TypeCorrect, PTL

\* The segments for a scattering read are the cells a put would fill: the first
\* its head, unless the ring is full with its positions at both ends, and both
\* all of it if Front is in 1..Rear.
THEOREM WriteSegmentsCorrect == Spec => []WriteSegmentsAgree
<1>1. TypeOK => WriteSegmentsAgree
  <2> SUFFICES ASSUME TypeOK
               PROVE  WriteSegmentsAgree
    OBVIOUS
  <2>1. CASE Front = 0 /\ Rear = BufferSize
    <3>1. Front \notin 1..Rear
      BY <2>1
    <3> QED
      BY <2>1, <3>1 DEF WriteSegmentsAgree
  <2>2. CASE ~(Front = 0 /\ Rear = BufferSize)
    <3> DEFINE u == GetNotBrokenPutSize
               t == GetFreeSize
               x == [start |-> Rear, length |-> u]
               y == [start |-> 0, length |-> t - u]
               first == CellsOf(x)
               all == CellsOf(x) \o CellsOf(y)
    <3>1. /\ Rear \in Int /\ u \in 0..BufferSize /\ t \in 0..BufferSize /\ u < t
          /\ \A i \in 1..u : PutCell(i) = Rear + i - 1
          /\ Front \in 1..Rear =>
                \A i \in 1..t : PutCell(i) = IF i <= u THEN Rear + i - 1 ELSE i - u - 1
      BY <2>2, BufferSizeAssumption
         DEF TypeOK, GetUseSize, GetFreeSize, GetNotBrokenPutSize, PutCell
    <3> HIDE DEF u, t
    <3>2. t - u \in 0..BufferSize /\ u + (t - u) = t
      BY <3>1, BufferSizeAssumption
    <3>3. Segments(Rear, u, t) = <<x, y>>
      BY <3>1, SegmentsOf
    <3>4. Len(first) = u /\ \A i \in 1..u : first[i] = Rear + i - 1
      BY <3>1, CellsOne
    <3>5. /\ Len(all) = u + (t - u)
          /\ \A i \in 1..(u + (t - u)) : all[i] = IF i <= u THEN Rear + i - 1 ELSE i - u - 1
      BY <3>1, <3>2, CellsTwo
    <3> HIDE DEF first, all
    <3>6. Len(first) <= t /\ \A i \in 1..Len(first) : first[i] = PutCell(i)
      BY <3>1, <3>4
    <3>7. Front \in 1..Rear => Len(all) = t /\ \A i \in 1..Len(all) : all[i] = PutCell(i)
      BY <3>1, <3>2, <3>5
    <3>8. t <= t
      BY <3>1
    <3> HIDE DEF x, y
    <3>9. Len(<<x, y>>) = 2 /\ <<x, y>>[1] = x /\ <<x, y>>[2] = y
      OBVIOUS
    <3> QED
      BY <3>3, <3>6, <3>7, <3>8, <3>9
         DEF WriteSegmentsAgree, GetWriteBufferAndLengths, u, t, first, all
  <2> QED
    BY <2>1, <2>2
<1> QED
  BY <1>1, TypeCorrect, PTL

-------------------------------------------------------------------------------
(***************************************************************************)
(* Under ReservedSpec the ring implements ByteQueue: the unread bytes, in   *)
(* the order TakeCell visits them, are a bounded first-in first-out queue.  *)
(***************************************************************************)

Items == BytesIn(GetUseSize)

\* The strengthening the refinement needs: one byte is always blank, so that
\* equal positions can only mean an empty ring.
RInv == TypeOK /\ BlankByteKept

LEMMA Concat ==
  ASSUME NEW S, NEW s \in Seq(S), NEW t \in Seq(S)
  PROVE  /\ s \o t \in Seq(S)
         /\ Len(s \o t) = Len(s) + Len(t)
         /\ \A i \in 1..Len(s) : (s \o t)[i] = s[i]
         /\ \A i \in Nat : Len(s) < i /\ i <= Len(s) + Len(t) => (s \o t)[i] = t[i - Len(s)]
  OBVIOUS

ItemsOK == /\ Items \in Seq(Byte)
           /\ Len(Items) = GetUseSize
           /\ \A i \in 1..GetUseSize : Items[i] = Buffer[TakeCell(i)]

LEMMA ItemsAreBytes == TypeOK => ItemsOK
<1> SUFFICES ASSUME TypeOK
             PROVE  ItemsOK
  OBVIOUS
<1>1. GetUseSize \in Nat
  BY Sizes
<1>2. Items \in [1..GetUseSize -> Byte]
  BY <1>1, BytesInType DEF Items
<1>3. \A i \in 1..GetUseSize : Items[i] = Buffer[TakeCell(i)]
  BY DEF Items, BytesIn
<1> QED
  BY <1>1, <1>2, <1>3, SeqOfFunction DEF ItemsOK

\* Looking at the n oldest bytes is the prefix of length n of the queue.
LEMMA PrefixOfItems ==
  ASSUME TypeOK, NEW n \in 0..GetUseSize
  PROVE  BytesIn(n) = SubSeq(Items, 1, n)
<1>1. /\ Items \in Seq(Byte) /\ Len(Items) = GetUseSize
      /\ \A i \in 1..GetUseSize : Items[i] = Buffer[TakeCell(i)]
  BY ItemsAreBytes DEF ItemsOK
<1>2. BytesIn(n) \in Seq(Byte) /\ Len(BytesIn(n)) = n
  BY BytesInType, SeqOfFunction, Sizes
<1>3. \A i \in 1..n : BytesIn(n)[i] = Buffer[TakeCell(i)]
  BY DEF BytesIn
<1>4. /\ SubSeq(Items, 1, n) \in Seq(Byte) /\ Len(SubSeq(Items, 1, n)) = n
      /\ \A i \in 1..n : SubSeq(Items, 1, n)[i] = Items[i]
  BY <1>1, Sizes
<1> QED
  BY <1>1, <1>2, <1>3, <1>4, Sizes

\* What a step of the read position leaves is the rest of the queue.
LEMMA RestOfItems ==
  ASSUME TypeOK, TypeOK', NEW n \in 0..GetUseSize,
         UNCHANGED <<Rear, Buffer>>, GetUseSize' = GetUseSize - n,
         \A i \in 1..GetUseSize' : TakeCell(i)' = TakeCell(n + i)
  PROVE  Items' = SubSeq(Items, n + 1, Len(Items))
<1>1. /\ Items \in Seq(Byte) /\ Len(Items) = GetUseSize
      /\ \A i \in 1..GetUseSize : Items[i] = Buffer[TakeCell(i)]
  BY ItemsAreBytes DEF ItemsOK
<1>2. /\ Items' \in Seq(Byte) /\ Len(Items') = GetUseSize'
      /\ \A i \in 1..GetUseSize' : Items'[i] = Buffer'[TakeCell(i)']
  <2>1. ItemsOK'
    BY ItemsAreBytes, PTL
  <2> QED
    BY <2>1 DEF ItemsOK
<1>3. GetUseSize \in Nat
  BY Sizes
<1>4. /\ SubSeq(Items, n + 1, Len(Items)) \in Seq(Byte)
      /\ Len(SubSeq(Items, n + 1, Len(Items))) = GetUseSize - n
      /\ \A i \in 1..(GetUseSize - n) : SubSeq(Items, n + 1, Len(Items))[i] = Items[n + i]
  BY <1>1, <1>3
<1>5. \A i \in 1..(GetUseSize - n) : Items'[i] = Items[n + i]
  BY <1>1, <1>2, <1>3
<1>6. Len(Items') = GetUseSize - n
  BY <1>2
<1> QED
  BY <1>2, <1>4, <1>5, <1>6, <1>3, SeqEqual

\* A put appends its data.
LEMMA PutAppends ==
  ASSUME TypeOK, TypeOK', NEW data \in Seq(Byte), PutData(data),
         Accepted(Len(data), GetFreeSize - BLANK_BUFFER)
  PROVE  /\ Items' = Items \o data
         /\ GetUseSize' = GetUseSize + Len(data)
<1> DEFINE n == Len(data)
<1> n \in Nat /\ n <= GetFreeSize
  BY Sizes DEF Accepted
<1>1. /\ Buffer' = Stored(data) /\ Rear' = RearAfter(n) /\ UNCHANGED <<Front, terminated>>
  BY Sizes DEF PutData, Throw, Accepted
<1>2. GetUseSize' = GetUseSize + n
  BY <1>1, BufferSizeAssumption
  DEF TypeOK, Accepted, GetUseSize, GetFreeSize, RearAfter
<1>3. ASSUME NEW i \in 1..GetUseSize
      PROVE  TakeCell(i)' = TakeCell(i) /\ Buffer'[TakeCell(i)] = Buffer[TakeCell(i)]
  <2>1. TakeCell(i)' = TakeCell(i)
    BY <1>1, BufferSizeAssumption
    DEF TypeOK, Accepted, GetUseSize, GetFreeSize, RearAfter, TakeCell
  <2>2. \A j \in 1..n : PutCell(j) # TakeCell(i)
    BY BufferSizeAssumption
    DEF TypeOK, Accepted, GetUseSize, GetFreeSize, PutCell, TakeCell
  <2>3. TakeCell(i) \in Cell
    BY CellsInBounds
  <2> QED
    BY <1>1, <2>1, <2>2, <2>3 DEF Stored
<1>4. ASSUME NEW j \in 1..n, NEW i \in Nat, i = GetUseSize + j
      PROVE  Buffer'[TakeCell(i)'] = data[j]
  <2>1. TakeCell(i)' = PutCell(j)
    BY <1>1, <1>4, BufferSizeAssumption
    DEF TypeOK, Accepted, GetUseSize, GetFreeSize, RearAfter, TakeCell, PutCell
  <2>2. \A k \in 1..n : PutCell(k) = PutCell(j) => k = j
    BY BufferSizeAssumption
    DEF TypeOK, Accepted, GetUseSize, GetFreeSize, PutCell
  <2>3. PutCell(j) \in Cell
    BY CellsInBounds, Sizes
  <2>4. Buffer'[PutCell(j)] = data[CHOOSE k \in 1..n : PutCell(k) = PutCell(j)]
    BY <1>1, <2>3 DEF Stored
  <2> QED
    BY <2>1, <2>2, <2>4
<1>5. ItemsOK /\ ItemsOK'
  BY ItemsAreBytes, PTL
<1>6. /\ Items \o data \in Seq(Byte)
      /\ Len(Items \o data) = GetUseSize + n
      /\ \A i \in 1..GetUseSize : (Items \o data)[i] = Items[i]
      /\ \A i \in Nat : GetUseSize < i /\ i <= GetUseSize + n
                          => (Items \o data)[i] = data[i - GetUseSize]
  <2>1. Items \in Seq(Byte) /\ Len(Items) = GetUseSize
    BY <1>5 DEF ItemsOK
  <2> QED
    BY <2>1, Concat
<1>7. \A i \in 1..GetUseSize : Items'[i] = Items[i]
  BY <1>2, <1>3, <1>5, Sizes DEF ItemsOK
<1>8. ASSUME NEW i \in Nat, GetUseSize < i, i <= GetUseSize + n
      PROVE  Items'[i] = data[i - GetUseSize]
  <2>1. i - GetUseSize \in 1..n /\ i = GetUseSize + (i - GetUseSize) /\ i \in 1..GetUseSize'
    BY <1>8, <1>2, Sizes
  <2> QED
    BY <1>4, <1>5, <2>1 DEF ItemsOK
<1>9. Items' \in Seq(Byte) /\ Len(Items') = GetUseSize + n
  BY <1>2, <1>5 DEF ItemsOK
<1>10. \A i \in 1..Len(Items') : Items'[i] = (Items \o data)[i]
  <2> SUFFICES ASSUME NEW i \in 1..(GetUseSize + n)
               PROVE  Items'[i] = (Items \o data)[i]
    BY <1>9
  <2>1. CASE i \in 1..GetUseSize
    BY <2>1, <1>6, <1>7
  <2>2. CASE GetUseSize < i
    <3>1. i \in Nat /\ i <= GetUseSize + n
      BY Sizes
    <3>2. Items'[i] = data[i - GetUseSize]
      BY <2>2, <3>1, <1>8
    <3> QED
      BY <2>2, <3>1, <3>2, <1>6
  <2>3. i \in 1..GetUseSize \/ GetUseSize < i
    BY Sizes
  <2> QED
    BY <2>1, <2>2, <2>3
<1> QED
  BY <1>2, <1>6, <1>9, <1>10, SeqEqual

\* A get, and a move of the read position that the discipline allows, keep the
\* rest of the queue.
LEMMA TakeKeepsRest ==
  ASSUME TypeOK, TypeOK', BlankByteKept, NEW n \in 1..GetUseSize,
         \/ GetData(n)
         \/ MoveReadPostion(n) /\ ~(Rear = BufferSize /\ n = GetUseSize)
  PROVE  /\ Items' = SubSeq(Items, n + 1, Len(Items))
         /\ GetUseSize' = GetUseSize - n
<1>1. /\ UNCHANGED <<Rear, Buffer, terminated>>
      /\ \/ Front' = FrontAfter(n)
         \/ Front' = 0 /\ FrontAfter(n) = BufferSize /\ ~(Rear = BufferSize /\ n = GetUseSize)
  BY Sizes DEF GetData, MoveReadPostion, Throw, Accepted
<1>2. CASE Front <= Rear
  <2>1. n <= Rear - Front
    BY <1>2 DEF TypeOK, GetUseSize
  <2>2. FrontAfter(n) = Front + n
    BY <1>2, <2>1 DEF FrontAfter, TypeOK
  <2>3. Front' = Front + n
    BY <1>1, <1>2, <2>1, <2>2 DEF TypeOK, GetUseSize
  <2>4. GetUseSize' = GetUseSize - n
    BY <1>1, <1>2, <2>1, <2>3 DEF TypeOK, GetUseSize
  <2>5. \A i \in 1..(GetUseSize - n) : TakeCell(i)' = TakeCell(n + i)
    BY <1>1, <1>2, <2>1, <2>3 DEF TypeOK, GetUseSize, TakeCell
  <2> QED
    BY <1>1, <2>4, <2>5, RestOfItems, Sizes
<1>3. CASE Rear < Front
  <2>1. n <= BufferSize - Front + Rear
    BY <1>3 DEF TypeOK, GetUseSize
  <2>2. CASE n > BufferSize - Front
    <3>1. Front' = n - (BufferSize - Front)
      BY <1>1, <1>3, <2>1, <2>2, BufferSizeAssumption DEF TypeOK, FrontAfter
    <3>2. GetUseSize' = GetUseSize - n
      BY <1>1, <1>3, <2>1, <2>2, <3>1, BufferSizeAssumption DEF TypeOK, GetUseSize
    <3>3. \A i \in 1..(GetUseSize - n) : TakeCell(i)' = TakeCell(n + i)
      BY <1>1, <1>3, <2>1, <2>2, <3>1, BufferSizeAssumption DEF TypeOK, GetUseSize, TakeCell
    <3> QED
      BY <1>1, <3>2, <3>3, RestOfItems, Sizes
  <2>3. CASE n <= BufferSize - Front
    <3>1. Front' = Front + n \/ (Front' = 0 /\ Front + n = BufferSize)
      BY <1>1, <1>3, <2>1, <2>3, BufferSizeAssumption DEF TypeOK, FrontAfter
    <3>2. GetUseSize' = GetUseSize - n
      <4>1. CASE Front' = Front + n
        BY <1>1, <1>3, <2>3, <4>1, BufferSizeAssumption DEF TypeOK, GetUseSize
      <4>2. CASE Front' = 0 /\ Front + n = BufferSize
        BY <1>1, <1>3, <2>3, <4>2, BufferSizeAssumption DEF TypeOK, GetUseSize
      <4> QED
        BY <3>1, <4>1, <4>2
    <3>3. \A i \in 1..(GetUseSize - n) : TakeCell(i)' = TakeCell(n + i)
      <4>1. CASE Front' = Front + n
        BY <1>1, <1>3, <2>3, <4>1, BufferSizeAssumption DEF TypeOK, GetUseSize, TakeCell
      <4>2. CASE Front' = 0 /\ Front + n = BufferSize
        BY <1>1, <1>3, <2>3, <4>2, BufferSizeAssumption DEF TypeOK, GetUseSize, TakeCell
      <4> QED
        BY <3>1, <4>1, <4>2
    <3> QED
      BY <1>1, <3>2, <3>3, RestOfItems, Sizes
  <2> QED
    BY <2>2, <2>3, Sizes, BufferSizeAssumption DEF TypeOK
<1> QED
  BY <1>2, <1>3 DEF TypeOK

-------------------------------------------------------------------------------
LEMMA InitRInv == Init => RInv
<1>1. Init => BlankByteKept
  BY BufferSizeAssumption DEF Init, BlankByteKept, GetUseSize, GetBufferSize
<1> QED
  BY <1>1, InitType DEF RInv

\* The data of a disciplined put is accepted by PutData with a byte to spare.
LEMMA ReservedData ==
  ASSUME TypeOK, NEW data \in Data(GetFreeSize - BLANK_BUFFER), Len(data) > 0
  PROVE  data \in Seq(Byte) /\ Accepted(Len(data), GetFreeSize - BLANK_BUFFER)
<1>1. GetFreeSize - BLANK_BUFFER \in Int
  BY Sizes
<1>2. data \in Seq(Byte) /\ Len(data) \in 0..(GetFreeSize - BLANK_BUFFER)
  BY <1>1, DataIsSeq
<1> QED
  BY <1>2 DEF Accepted

LEMMA ReservedType == RInv /\ [ReservedNext]_vars => TypeOK'
<1> SUFFICES ASSUME TypeOK, [ReservedNext]_vars
             PROVE  TypeOK'
  BY DEF RInv
<1>1. ASSUME NEW data \in Data(GetFreeSize - BLANK_BUFFER), Len(data) > 0, PutData(data)
      PROVE  TypeOK'
  BY <1>1, ReservedData, PutDataType
<1>2. ASSUME NEW n \in Size, Peek(n)
      PROVE  TypeOK'
  BY <1>2, PeekType DEF Size
<1>3. ASSUME NEW n \in 1..GetUseSize, GetData(n) \/ MoveReadPostion(n)
      PROVE  TypeOK'
  <2>1. n \in Int
    OBVIOUS
  <2> QED
    BY <1>3, <2>1, GetDataType, MoveReadPostionType
<1>4. CASE UNCHANGED vars
  BY <1>4 DEF vars, TypeOK
<1> QED
  BY <1>1, <1>2, <1>3, <1>4 DEF ReservedNext

\* Every disciplined step is a step of the queue and keeps the blank byte.
LEMMA ReservedStep ==
  RInv /\ [ReservedNext]_vars => RInv' /\ [Queue!Next]_Queue!vars
<1> SUFFICES ASSUME RInv, [ReservedNext]_vars
             PROVE  RInv' /\ [Queue!Next]_Queue!vars
  OBVIOUS
<1> TypeOK /\ TypeOK' /\ BlankByteKept
  BY ReservedType DEF RInv
<1> ItemsOK
  BY ItemsAreBytes
<1>u. GetUseSize \in 0..(BufferSize - 1) /\ Len(Items) = GetUseSize
  BY Sizes, BufferSizeAssumption DEF BlankByteKept, GetBufferSize, ItemsOK
<1>b. ASSUME GetUseSize' <= BufferSize - 1
      PROVE  RInv'
  BY <1>b DEF RInv, BlankByteKept, GetBufferSize
<1>1. ASSUME NEW data \in Data(GetFreeSize - BLANK_BUFFER), Len(data) > 0, PutData(data)
      PROVE  RInv' /\ Queue!Next
  <2>1. data \in Seq(Byte) /\ Accepted(Len(data), GetFreeSize - BLANK_BUFFER)
    BY <1>1, ReservedData
  <2>2. Items' = Items \o data /\ GetUseSize' = GetUseSize + Len(data)
    BY <1>1, <2>1, PutAppends
  <2>3. Len(data) \in Nat /\ Len(data) > 0 /\ Len(data) <= GetBufferSize - GetUseSize
    BY <2>1, <1>u, BufferSizeAssumption DEF Accepted, GetFreeSize, GetBufferSize
  <2>4. io' = data
    BY <1>1, <2>1, Sizes DEF PutData, Throw, Accepted
  <2>5. Queue!Put(data)
    <3>1. Len(Items) + Len(data) <= GetBufferSize
      BY <2>3, <1>u, BufferSizeAssumption DEF GetBufferSize
    <3> QED
      BY <2>2, <2>4, <3>1 DEF Queue!Put, Items
  <2>6. Len(data) \in 0..GetBufferSize /\ data \in [1..Len(data) -> Byte]
    <3>1. data \in [1..Len(data) -> Byte]
      BY <2>1
    <3>2. Len(data) \in 0..GetBufferSize
      BY <2>3, <1>u, BufferSizeAssumption DEF GetBufferSize
    <3> QED
      BY <3>1, <3>2
  <2>7. GetUseSize' <= BufferSize - 1
    BY <2>2, <2>3, <1>u, BufferSizeAssumption DEF GetBufferSize
  <2> QED
    BY <2>5, <2>6, <2>7, <1>b DEF Queue!Next
<1>2. ASSUME NEW n \in Size, Peek(n)
      PROVE  RInv' /\ Queue!Next
  <2>1. UNCHANGED <<Front, Rear, Buffer>>
    BY <1>2 DEF Peek
  <2>2. Items' = Items /\ GetUseSize' = GetUseSize
    BY <2>1 DEF Items, BytesIn, GetUseSize, TakeCell
  <2>3. PICK k \in 0..GetUseSize : io' = BytesIn(k)
    <3>1. CASE Accepted(n, GetUseSize)
      <4>1. n \in 0..GetUseSize
        BY <3>1, <1>u DEF Accepted, Size
      <4> QED
        BY <1>2, <3>1, <4>1 DEF Peek
    <3>2. CASE ~Accepted(n, GetUseSize)
      <4>1. BytesIn(0) \in [1..0 -> Byte] /\ 0 \in 0..GetUseSize
        BY <1>u, BytesInType
      <4>2. BytesIn(0) = <<>>
        BY <4>1, SeqOfFunction, EmptyIsSeq, SeqEqual
      <4> QED
        BY <1>2, <3>2, <4>1, <4>2 DEF Peek
    <3> QED
      BY <3>1, <3>2
  <2>4. BytesIn(k) = SubSeq(Items, 1, k)
    BY PrefixOfItems
  <2>5. Queue!Look(k)
    BY <2>2, <2>3, <2>4, <1>u DEF Queue!Look, Items
  <2>6. k \in 0..GetBufferSize
    BY <1>u, BufferSizeAssumption DEF GetBufferSize
  <2> QED
    BY <2>2, <2>5, <2>6, <1>u, <1>b DEF Queue!Next
<1>3. ASSUME NEW n \in 1..GetUseSize, GetData(n)
      PROVE  RInv' /\ Queue!Next
  <2>1. Items' = SubSeq(Items, n + 1, Len(Items)) /\ GetUseSize' = GetUseSize - n
    BY <1>3, TakeKeepsRest
  <2>2. n \in 0..GetUseSize
    BY <1>u
  <2>3. io' = SubSeq(Items, 1, n)
    BY <1>3, <2>2, PrefixOfItems, <1>u DEF GetData, Throw, Accepted
  <2>4. Queue!Take(n)
    BY <2>1, <2>2, <2>3, <1>u DEF Queue!Take, Items
  <2>5. n \in 0..GetBufferSize
    BY <1>u, BufferSizeAssumption DEF GetBufferSize
  <2>9. GetUseSize' <= BufferSize - 1
    BY <2>1, <1>u, BufferSizeAssumption
  <2> QED
    BY <2>4, <2>5, <2>9, <1>b DEF Queue!Next
<1>4. ASSUME NEW n \in 1..GetUseSize, ~(Rear = BufferSize /\ n = GetUseSize),
             MoveReadPostion(n)
      PROVE  RInv' /\ Queue!Next
  <2>1. Items' = SubSeq(Items, n + 1, Len(Items)) /\ GetUseSize' = GetUseSize - n
    BY <1>4, TakeKeepsRest
  <2>2. io' = <<>>
    BY <1>4, <1>u DEF MoveReadPostion, Throw, Accepted
  <2>3. Queue!Drop(n)
    BY <2>1, <2>2, <1>u DEF Queue!Drop, Items
  <2>4. n \in 0..GetBufferSize
    BY <1>u, BufferSizeAssumption DEF GetBufferSize
  <2>9. GetUseSize' <= BufferSize - 1
    BY <2>1, <1>u, BufferSizeAssumption
  <2> QED
    BY <2>3, <2>4, <2>9, <1>b DEF Queue!Next
<1>5. CASE UNCHANGED vars
  <2>1. UNCHANGED <<Items, GetUseSize, io>>
    BY <1>5 DEF vars, Items, BytesIn, GetUseSize, TakeCell
  <2> QED
    BY <2>1, <1>u, <1>b DEF Queue!vars, Items
<1> QED
  BY <1>1, <1>2, <1>3, <1>4, <1>5 DEF ReservedNext

\* The blank byte survives every call sequence that follows the discipline.
THEOREM BlankByte == ReservedSpec => []BlankByteKept
<1>1. RInv /\ [ReservedNext]_vars => RInv'
  BY ReservedStep
<1>2. RInv => BlankByteKept
  BY DEF RInv
<1> QED
  BY <1>1, <1>2, InitRInv, PTL DEF ReservedSpec

\* A caller that follows the discipline sees a bounded FIFO queue of
\* GetBufferSize() bytes, for every size of the ring.
THEOREM Implements == ReservedSpec => ImplementsQueue
<1>1. Init => Queue!Init
  <2> SUFFICES ASSUME Init
               PROVE  Queue!Init
    OBVIOUS
  <2>1. ItemsOK /\ GetUseSize = 0
    BY InitType, ItemsAreBytes DEF Init, GetUseSize
  <2>2. Items = <<>>
    BY <2>1, EmptyIsSeq, SeqEqual DEF ItemsOK
  <2> QED
    BY <2>2 DEF Queue!Init, Init, Items
<1>2. RInv /\ [ReservedNext]_vars => RInv'
  BY ReservedStep
<1>3. RInv /\ [ReservedNext]_vars => [Queue!Next]_Queue!vars
  BY ReservedStep
<1> QED
  BY <1>1, <1>2, <1>3, InitRInv, PTL DEF ReservedSpec, ImplementsQueue, Queue!Spec
===============================================================================
