---------------------------- MODULE MCEpollContext ----------------------------
(***************************************************************************)
(* EpollContext on small instances.                                         *)
(*                                                                          *)
(* Safety: two links race for two socket numbers, so that one can reuse the *)
(* number the other's Disable is still working on, and a batch can hold two *)
(* events; one worker, since jobs interfere with the loop and the clients,  *)
(* never with each other alone.  Two arrivals let a socket report again.    *)
(*                                                                          *)
(* Progress: one listener and one link share one number (MaxEvents is 1),   *)
(* enough for a job to meet another object's socket and for every way the   *)
(* process can die.                                                         *)
(***************************************************************************)
EXTENDS EpollContext, TLC

\* Objects and sockets are only compared; used for safety alone.
Symmetry == Permutations(Descriptors) \cup Permutations(Fds)
===============================================================================
