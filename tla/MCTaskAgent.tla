------------------------------ MODULE MCTaskAgent ------------------------------
(***************************************************************************)
(* TaskAgent with two tasks, of which one has a complete lambda: one can    *)
(* run while the other waits, is flushed, or is routed by TaskManager, and  *)
(* a check can meet the first task, its end and the second.  Three checks:  *)
(* one to move the counter, one that is misled, one after it.  One agent in *)
(* TaskManager makes every draw a hit or a miss.  The process may end, or   *)
(* the owner spin, hence no deadlock check.                                 *)
(***************************************************************************)
EXTENDS TaskAgent
===============================================================================
