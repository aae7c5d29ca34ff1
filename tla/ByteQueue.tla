------------------------------ MODULE ByteQueue ------------------------------
(***************************************************************************)
(* What a caller expects of Util::CircularBuffer: a bounded first-in        *)
(* first-out queue of bytes.  `items' is what has been put and not yet      *)
(* taken, `io' what the last call copied from or to it                  *)
(***************************************************************************)
EXTENDS Integers, Sequences

CONSTANTS Byte,      \* the values a cell can hold
          Capacity   \* the most bytes the queue holds

VARIABLES items, io

vars == <<items, io>>

Init == items = <<>> /\ io = <<>>

Put(data) == /\ Len(items) + Len(data) <= Capacity
             /\ items' = items \o data
             /\ io' = data

Take(n) == /\ n <= Len(items)
           /\ io' = SubSeq(items, 1, n)
           /\ items' = SubSeq(items, n + 1, Len(items))

Look(n) == /\ n <= Len(items)
           /\ io' = SubSeq(items, 1, n)
           /\ UNCHANGED items

Drop(n) == /\ n <= Len(items)
           /\ items' = SubSeq(items, n + 1, Len(items))
           /\ io' = <<>>

Next == \/ \E n \in 0..Capacity : \E data \in [1..n -> Byte] : Put(data)
        \/ \E n \in 0..Capacity : Take(n) \/ Look(n) \/ Drop(n)

Spec == Init /\ [][Next]_vars
==============================================================================
