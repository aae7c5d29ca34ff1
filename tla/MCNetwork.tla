------------------------------- MODULE MCNetwork -------------------------------
(***************************************************************************)
(* The two parts of MuteNet that use an I/O context from outside: a lookup, *)
(* on its way to a link, and a handle that listens.  They share nothing, so *)
(* a behaviour is of one of them, and the other's variables stay as they    *)
(* began.                                                                   *)
(*                                                                          *)
(* Lookup: three addresses are enough for one of either family and one of   *)
(* none in every order; six symbols of text for a port after "[::]:", two   *)
(* colons beside a quad, a zone in brackets, and a quad with the ports 1 to *)
(* 1111, 1255, 11255, 65535, 65536 and 111255.                              *)
(*                                                                          *)
(* Handle: three connections and two workers, so that one is overtaken by   *)
(* another while a third is lost, four frames of Accept, so that all can be *)
(* lost in one call, and three calls of Close.  The process may end, hence  *)
(* no deadlock check.                                                       *)
(***************************************************************************)
EXTENDS HostnameLookup, ServerHandle

VARIABLE part

MCvars == <<part, vars, lookupVars>>

MCInit == /\ part \in {"lookup", "server"}
          /\ Init /\ LookupInit
          /\ part = "lookup" => context = "reads" /\ ~assertions /\ ~isListening

MCNext == /\ UNCHANGED part
          /\ \/ part = "lookup" /\ LookupNext /\ UNCHANGED vars
             \/ part = "server" /\ Next /\ UNCHANGED lookupVars

MCSpec == MCInit /\ [][MCNext]_MCvars
===============================================================================
