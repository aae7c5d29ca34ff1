------------------------- MODULE MCIoContextThreadPool -------------------------
(***************************************************************************)
(* IoContextThreadPool with two workers, enough to race for one job and for *)
(* one to return while the other runs, and three jobs, so that a worker can *)
(* have an old job in Functor while the other takes the one it saw, with a  *)
(* job left for the destructor.  The process may end, hence no deadlock     *)
(* check.                                                                   *)
(***************************************************************************)
EXTENDS IoContextThreadPool
===============================================================================
