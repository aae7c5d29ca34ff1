-------------------------------- MODULE MCEvent --------------------------------
(***************************************************************************)
(* Event on three threads: one can set the event while two wait, or two can *)
(* set it while one waits.  Three signals let each of them be raised,       *)
(* taken and raised again while a late notification is still to come.  The  *)
(* model stops raising at the bound, hence no deadlock check.               *)
(***************************************************************************)
EXTENDS Event
===============================================================================
