--------------------------- MODULE MCCircularBuffer ---------------------------
(***************************************************************************)
(* Instances of CircularBuffer for TLC.  Four cells are enough for every    *)
(* order of Front, Rear and the two ends of the allocation, with a cell     *)
(* between any two of them; two byte values tell a lost, a repeated or a    *)
(* misplaced byte from the right one.  A segment length that wraps round    *)
(* must only be larger than any size in the ring.                           *)
(***************************************************************************)
EXTENDS CircularBuffer

MCBufferSize == 4
MCByte == {0, 1}
MCZero == 0
MCUIntMod == 256
===============================================================================
