------------------------------ MODULE BleReader ------------------------------
(***************************************************************************)
(* How the thread "ble" gets its characters (applications/bluetooth.c):    *)
(* uart_sample_get_char, the receive queue of uart3 (LossyFifo, which      *)
(* SerialRxFifo is shown to implement) and the callback uart_rx_ind.       *)
(*                                                                         *)
(* Unlike SYN6288_thread_entry this loop RESETS the semaphore between the  *)
(* read that found nothing and rt_sem_take.  An interrupt can come between *)
(* any two steps.                                                          *)
(***************************************************************************)
EXTENDS LossyFifo, RtSemaphore

VARIABLES
    ble_rxsem,      \* the semaphore the callback releases
    pc,             \* where uart_sample_get_char is; "parse" after its return
    cancelled       \* history: the last RESET threw away the unit of a byte
                    \* that is still unread

vars == <<fifoVars, ble_rxsem, pc, cancelled>>

BLE == "ble"

TypeOK ==
    /\ FifoTypeOK
    /\ ble_rxsem \in SemOf(BLE)
    /\ pc \in {"read", "reset", "take", "wait", "parse"}
    /\ cancelled \in BOOLEAN

\* bluetooth_init: the semaphore has value 0, the device is open and the thread
\* is started.
Init ==
    /\ FifoInit
    /\ ble_rxsem = SemInit(0)
    /\ pc = "read"
    /\ cancelled = FALSE

-----------------------------------------------------------------------------
(* A form the code could have had by mistake.                              *)

\* The callback only releases when the queue was empty before.
uart_rx_ind_first(size) ==
    ble_rxsem' = IF size = 1 THEN SemRelease(ble_rxsem) ELSE ble_rxsem
-----------------------------------------------------------------------------

\* The callback.
uart_rx_ind(size) ==
    ble_rxsem' = IF size > 0 THEN SemRelease(ble_rxsem) ELSE ble_rxsem

\* The interrupt of uart3.
Receive(b) == Put(b) /\ UNCHANGED <<ble_rxsem, pc, cancelled>>

ReceiveDone ==
    /\ Indicate
    /\ IF ind' > 0 THEN uart_rx_ind(ind') ELSE UNCHANGED ble_rxsem
    /\ UNCHANGED <<pc, cancelled>>

\* rt_device_read(ble_serial, 0, &ch, 1) returned a character.
ReadByte ==
    /\ pc = "read"
    /\ Get
    /\ pc' = "parse"
    /\ cancelled' = FALSE
    /\ UNCHANGED ble_rxsem

\* rt_device_read(ble_serial, 0, &ch, 1) == 0
ReadNothing ==
    /\ pc = "read"
    /\ GetNothing
    /\ pc' = "reset"
    /\ UNCHANGED <<ble_rxsem, cancelled>>

\* rt_sem_control(&ble_rxsem, RT_IPC_CMD_RESET, RT_NULL)
Reset ==
    /\ pc = "reset"
    /\ ~isr
    /\ ble_rxsem' = SemReset(ble_rxsem, 0)
    /\ pc' = "take"
    /\ cancelled' = (q # << >>)
    /\ UNCHANGED fifoVars

\* rt_sem_take(&ble_rxsem, RT_WAITING_FOREVER)
Take ==
    /\ pc = "take"
    /\ ~isr
    /\ ble_rxsem' = SemTake(ble_rxsem, BLE)
    /\ pc' = IF ble_rxsem.value > 0 THEN "read" ELSE "wait"
    /\ UNCHANGED <<fifoVars, cancelled>>

\* rt_sem_take returns after rt_schedule.
Woken ==
    /\ pc = "wait"
    /\ ~isr
    /\ ~IsSuspended(ble_rxsem, BLE)
    /\ pc' = "read"
    /\ UNCHANGED <<fifoVars, ble_rxsem, cancelled>>

\* data_parsing has dealt with the character and asks for the next one.
Parsed ==
    /\ pc = "parse"
    /\ ~isr
    /\ pc' = "read"
    /\ UNCHANGED <<fifoVars, ble_rxsem, cancelled>>

BleThread == ReadByte \/ ReadNothing \/ Reset \/ Take \/ Woken \/ Parsed

Next == (\E b \in Byte : Receive(b)) \/ ReceiveDone \/ BleThread

Spec == Init /\ [][Next]_vars

\* Interrupts end, and the thread gets the processor again and again between
\* them, as in SynReader.
FairSpec == Spec /\ WF_vars(ReceiveDone) /\ SF_vars(BleThread)

-----------------------------------------------------------------------------
(***************************************************************************)
(* uart_sample_get_char can only oversleep in one way: the thread sleeps   *)
(* while a byte is unread only if that byte came between the failed read   *)
(* and the RESET, whose effect was to throw its unit away.  (A byte that   *)
(* comes after the RESET always gets the thread out of rt_sem_take.)       *)
(***************************************************************************)
OversleepsOnlyByReset ==
    IsSuspended(ble_rxsem, BLE) /\ ~isr /\ q # << >> => cancelled

(***************************************************************************)
(* A byte that is overslept is late, not lost, as long as bytes go on      *)
(* coming: the next interrupt wakes the thread up.                         *)
(***************************************************************************)
NextByteWakes == []<>isr => []<>(pc = "parse")

(***************************************************************************)
(* What the comments at the callback and the semaphore say: when the port  *)
(* has received data the semaphore is released, so that a received byte    *)
(* gets read whether or not another one follows.                           *)
(***************************************************************************)
ReceivedByteIsRead == q # << >> ~> pc = "parse"
=============================================================================
