----------------------------- MODULE MCDescriptors -----------------------------
(***************************************************************************)
(* The two implementations of a descriptor, of which a build has one.       *)
(*                                                                          *)
(* POSIX: two workers in _Write, a ring of four bytes and six bytes to      *)
(* write, so that the positions wrap, the ring is filled and drained at     *)
(* every position, and a frame is sent whole, in part or not at all; one    *)
(* byte of header is enough to show on the wire and in the ring.  Eight     *)
(* bytes on the wire are two more than were written.                        *)
(*                                                                          *)
(* Windows: three threads for a client and overlapping completions, and two *)
(* writes beside the receive, so that three operations can end together;    *)
(* the counter's memory holds 0 or something else.                          *)
(*                                                                          *)
(* The process may end, hence no deadlock check.                            *)
(***************************************************************************)
EXTENDS Descriptor, WinDescriptor

VARIABLE platform

MCvars == <<platform, vars, winVars>>

MCInit == /\ platform \in {"posix", "win32"}
          /\ Init /\ WinInit
          /\ platform = "posix" => valid /\ start = 0

MCNext == /\ UNCHANGED platform
          /\ \/ platform = "posix" /\ Next /\ UNCHANGED winVars
             \/ platform = "win32" /\ WinNext /\ UNCHANGED vars

MCSpec == MCInit /\ [][MCNext]_MCvars
===============================================================================
