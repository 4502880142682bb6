------------------------------ MODULE SynReader ------------------------------
(***************************************************************************)
(* The thread "SYN_serial" (applications/syn6288.c), which prints the      *)
(* bytes the SYN6288 speech chip answers with, together with what wakes    *)
(* it: the receive queue of uart2 (LossyFifo, which SerialRxFifo is shown  *)
(* to implement) and the callback syn6288_input.                           *)
(*                                                                         *)
(* The thread can be interrupted between any two steps.                    *)
(***************************************************************************)
EXTENDS LossyFifo, RtSemaphore

VARIABLES
    syn_rx_sem,     \* the semaphore the callback releases
    pc              \* where SYN6288_thread_entry is

vars == <<fifoVars, syn_rx_sem, pc>>

SYN == "SYN_serial"

TypeOK ==
    /\ FifoTypeOK
    /\ syn_rx_sem \in SemOf(SYN)
    /\ pc \in {"read", "take", "wait", "print"}

\* SYN6288_init: the semaphore has value 0, the device is open and the thread
\* is started.
Init ==
    /\ FifoInit
    /\ syn_rx_sem = SemInit(0)
    /\ pc = "read"

-----------------------------------------------------------------------------
(* A form the code could have had by mistake.                              *)

\* Units left over from bytes already read are thrown away before waiting.
TakeReset ==
    /\ pc = "take"
    /\ ~isr
    /\ syn_rx_sem' = SemTake(SemReset(syn_rx_sem, 0), SYN)
    /\ pc' = "wait"
    /\ UNCHANGED fifoVars
-----------------------------------------------------------------------------

\* The callback: one unit per interrupt.
syn6288_input(size) == syn_rx_sem' = SemRelease(syn_rx_sem)

\* The interrupt of uart2.
Receive(b) == Put(b) /\ UNCHANGED <<syn_rx_sem, pc>>

ReceiveDone ==
    /\ Indicate
    /\ IF ind' > 0 THEN syn6288_input(ind') ELSE UNCHANGED syn_rx_sem
    /\ UNCHANGED pc

\* rt_device_read(SYN6288_serial, -1, &ch, 1) == 1
ReadByte ==
    /\ pc = "read"
    /\ Get
    /\ pc' = "print"
    /\ UNCHANGED syn_rx_sem

\* rt_device_read(SYN6288_serial, -1, &ch, 1) != 1
ReadNothing ==
    /\ pc = "read"
    /\ GetNothing
    /\ pc' = "take"
    /\ UNCHANGED syn_rx_sem

\* rt_sem_take(&syn_rx_sem, RT_WAITING_FOREVER)
Take ==
    /\ pc = "take"
    /\ ~isr
    /\ syn_rx_sem' = SemTake(syn_rx_sem, SYN)
    /\ pc' = IF syn_rx_sem.value > 0 THEN "read" ELSE "wait"
    /\ UNCHANGED fifoVars

\* rt_sem_take returns after rt_schedule
Woken ==
    /\ pc = "wait"
    /\ ~isr
    /\ ~IsSuspended(syn_rx_sem, SYN)
    /\ pc' = "read"
    /\ UNCHANGED <<fifoVars, syn_rx_sem>>

\* rt_kprintf("%x ", ch)
PrintByte ==
    /\ pc = "print"
    /\ ~isr
    /\ pc' = "read"
    /\ UNCHANGED <<fifoVars, syn_rx_sem>>

SYN6288_thread_entry == ReadByte \/ ReadNothing \/ Take \/ Woken \/ PrintByte

Next == (\E b \in Byte : Receive(b)) \/ ReceiveDone \/ SYN6288_thread_entry

Spec == Init /\ [][Next]_vars

(***************************************************************************)
(* Fairness.  An interrupt that has begun ends: bytes arrive far more      *)
(* slowly than the handler's loop runs.  Between interrupts the thread     *)
(* gets the processor again and again: every thread of higher priority     *)
(* blocks or sleeps in each of its rounds.                                 *)
(***************************************************************************)
FairSpec == Spec /\ WF_vars(ReceiveDone) /\ SF_vars(SYN6288_thread_entry)

-----------------------------------------------------------------------------
(***************************************************************************)
(* No wake-up is lost.  When the thread sleeps in rt_sem_take and no       *)
(* interrupt is being served, there is no byte it could read: a byte that  *)
(* comes after the failed read but before rt_sem_take leaves a unit        *)
(* behind that makes rt_sem_take return at once.                           *)
(***************************************************************************)
NoLostWakeup == IsSuspended(syn_rx_sem, SYN) /\ ~isr => q = << >>

(***************************************************************************)
(* Whatever the chip sends is printed: from any state with an unread byte  *)
(* the thread gets to print one.                                           *)
(***************************************************************************)
ByteIsPrinted == q # << >> ~> pc = "print"
=============================================================================
