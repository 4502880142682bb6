--------------------------- MODULE MCBlePipeline ---------------------------
(* BlePipeline for TLC: messages of up to three characters, a buffer of two *)
(* and mailboxes of two mails, so that long lines and full mailboxes occur. *)
EXTENDS BlePipeline
=============================================================================
