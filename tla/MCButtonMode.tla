---------------------------- MODULE MCButtonMode ----------------------------
(* ButtonMode for TLC: two callbacks in a round and three mails, so that it *)
(* takes more than one round, and an interrupted btn_ctrl, to fill the box. *)
EXTENDS ButtonMode
=============================================================================
