----------------------------- MODULE MCIocpContext -----------------------------
(***************************************************************************)
(* IocpContext with two workers and hence three copies of WorkerRun, one of *)
(* which stays in the queue; two dispatched jobs, one to come before Start  *)
(* and one behind it; and one completion, which can take the place of a     *)
(* packet of the destructor.  The process may end, hence no deadlock check. *)
(***************************************************************************)
EXTENDS IocpContext
===============================================================================
