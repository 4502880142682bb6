-------------------------------- MODULE RtIpc --------------------------------
(***************************************************************************)
(* The list of suspended threads that every kernel object of               *)
(* rt-thread/src/ipc.c has (suspend_thread), as a sequence.  All lists of  *)
(* this program are RT_IPC_FLAG_FIFO, or never hold a thread.              *)
(*                                                                         *)
(* A thread is suspended on an object exactly while it is in its list; it  *)
(* runs on from the call that suspended it once another thread or an       *)
(* interrupt has taken it out.                                             *)
(***************************************************************************)
EXTENDS Naturals, Sequences

\* rt_ipc_list_suspend, RT_IPC_FLAG_FIFO
Suspended(susp, thread) == Append(susp, thread)

\* rt_ipc_list_resume: the first thread of the list, if there is one
Resumed(susp) == IF susp = << >> THEN susp ELSE Tail(susp)

IsSuspended(obj, thread) == \E k \in DOMAIN obj.susp : obj.susp[k] = thread
=============================================================================
