----------------------------- MODULE MCSmallMem -----------------------------
(***************************************************************************)
(* A heap of a dozen words: blocks of several sizes, some of which are     *)
(* rounded up, some split and some taken whole.                            *)
(***************************************************************************)
EXTENDS SmallMem
=============================================================================
