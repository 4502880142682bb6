------------------------------ MODULE RtMailbox ------------------------------
(***************************************************************************)
(* The kernel's mailbox (rt-thread/src/ipc.c) as a value and functions on  *)
(* it, as this program uses it: every send is rt_mb_send, which does not   *)
(* wait.  A mailbox holds its mails in sending order; what a mail is, is   *)
(* left to the module that uses it.                                        *)
(***************************************************************************)
EXTENDS RtIpc

CONSTANT MbSize     \* mails per mailbox: 32 bytes of pool, 4 per mail

ASSUME MbSizeAssumption == MbSize \in Nat \ {0}

\* What a send would do if it never resumed the suspended receiver (a mistake
\* the code does not make).
MbSendNoResume(mb, mail) ==
    IF Len(mb.mails) = MbSize THEN mb
    ELSE [mails |-> Append(mb.mails, mail), susp |-> mb.susp]

\* What a send would do if it did not look whether the mailbox is full.
MbSendOverfull(mb, mail) ==
    [mails |-> Append(mb.mails, mail), susp |-> Resumed(mb.susp)]

\* rt_mb_init
MbInit == [mails |-> << >>, susp |-> << >>]

MbFull(mb) == Len(mb.mails) = MbSize

\* rt_mb_send: a mailbox that is full refuses the mail (-RT_EFULL); otherwise
\* the mail is stored and the first suspended receiver resumed
MbSend(mb, mail) ==
    IF MbFull(mb) THEN mb
    ELSE [mails |-> Append(mb.mails, mail), susp |-> Resumed(mb.susp)]

\* rt_mb_recv on an empty mailbox, waiting forever
MbWait(mb, thread) == [mb EXCEPT !.susp = Suspended(@, thread)]

\* rt_mb_recv on a mailbox that has a mail: *value = Head(mb.mails)
MbTaken(mb) == [mb EXCEPT !.mails = Tail(@)]
=============================================================================
