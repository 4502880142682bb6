---------------------------- MODULE SerialRxFifo ----------------------------
(***************************************************************************)
(* The interrupt-mode receive FIFO of RT-Thread's serial driver            *)
(* (rt-thread/components/drivers/serial/serial.c): struct                  *)
(* rt_serial_rx_fifo, the loop of rt_hw_serial_isr that fills it and       *)
(* _serial_int_rx that empties it.  Both UARTs of the application use it:  *)
(* uart3 (Bluetooth, 64 bytes) and uart2 (SYN6288, 128 bytes).             *)
(*                                                                         *)
(* Each action is a section the code runs with interrupts disabled.  A     *)
(* thread cannot run between the actions of one interrupt.                 *)
(***************************************************************************)
EXTENDS Naturals

CONSTANTS
    Byte,       \* the values a received byte can have
    Zero,       \* the value rt_memset gives the buffer
    NoByte,     \* a read that found nothing
    Bufsz       \* serial->config.bufsz

ASSUME ByteAssumption == Zero \in Byte /\ NoByte \notin Byte
ASSUME BufszAssumption == Bufsz \in Nat /\ Bufsz >= 2

VARIABLES
    buffer, put_index, get_index, is_full,  \* struct rt_serial_rx_fifo
    isr,    \* the receive interrupt is being served
    ind,    \* the size last given to rx_indicate
    out     \* the byte last returned by a read of length 1

vars == <<buffer, put_index, get_index, is_full, isr, ind, out>>

Index == 0 .. Bufsz - 1

TypeOK ==
    /\ buffer \in [Index -> Byte]
    /\ put_index \in Index
    /\ get_index \in Index
    /\ is_full \in BOOLEAN
    /\ isr \in BOOLEAN
    /\ ind \in Index
    /\ out \in Byte \cup {NoByte}

\* rt_serial_open with RT_DEVICE_FLAG_INT_RX.
Init ==
    /\ buffer = [k \in Index |-> Zero]
    /\ put_index = 0
    /\ get_index = 0
    /\ is_full = FALSE
    /\ isr = FALSE
    /\ ind = 0
    /\ out = NoByte

-----------------------------------------------------------------------------
(* Forms the code could have had by mistake, used to see that the           *)
(* properties notice them (here and in the other modules).                 *)

\* The index runs one cell too far before it wraps.
NextIndexLate(k) == IF k + 1 > Bufsz THEN 0 ELSE k + 1

\* "index += 1; if (index >= bufsz) index = 0" (the code's form)
NextIndex(k) == IF k + 1 >= Bufsz THEN 0 ELSE k + 1

\* An overrun sets the flag and leaves the read index where it is.
IsrPutKeepsGet(b) ==
    LET next == NextIndex(put_index) IN
    /\ buffer' = [buffer EXCEPT ![put_index] = b]
    /\ put_index' = next
    /\ is_full' = (is_full \/ next = get_index)
    /\ isr' = TRUE
    /\ UNCHANGED <<get_index, ind, out>>

\* A read forgets to clear the overrun flag.
ReadKeepsFlag ==
    /\ ~isr
    /\ IF get_index = put_index /\ ~is_full
       THEN out' = NoByte /\ UNCHANGED get_index
       ELSE out' = buffer[get_index] /\ get_index' = NextIndex(get_index)
    /\ UNCHANGED <<buffer, put_index, is_full, isr, ind>>
-----------------------------------------------------------------------------

\* rt_hw_serial_isr, RT_SERIAL_EVENT_RX_IND: one iteration of the getc loop.
IsrPut(b) ==
    LET next == NextIndex(put_index)
        overrun == next = get_index
    IN  /\ buffer' = [buffer EXCEPT ![put_index] = b]
        /\ put_index' = next
        /\ get_index' = IF overrun THEN NextIndex(get_index) ELSE get_index
        /\ is_full' = (is_full \/ overrun)
        /\ isr' = TRUE
        /\ UNCHANGED <<ind, out>>

\* The size the handler computes for the callback.
rx_length ==
    IF put_index >= get_index
    THEN put_index - get_index
    ELSE Bufsz - (get_index - put_index)

\* rt_hw_serial_isr after the loop: rx_indicate is called unless rx_length is 0.
IsrIndicate ==
    /\ isr
    /\ isr' = FALSE
    /\ ind' = IF rx_length > 0 THEN rx_length ELSE ind
    /\ UNCHANGED <<buffer, put_index, get_index, is_full, out>>

\* _serial_int_rx: one iteration, which is the whole of a read of length 1.
Read ==
    /\ ~isr
    /\ IF get_index = put_index /\ ~is_full
       THEN out' = NoByte /\ UNCHANGED <<get_index, is_full>>
       ELSE /\ out' = buffer[get_index]
            /\ get_index' = NextIndex(get_index)
            /\ is_full' = FALSE
    /\ UNCHANGED <<buffer, put_index, isr, ind>>

Next == (\E b \in Byte : IsrPut(b)) \/ IsrIndicate \/ Read

Spec == Init /\ [][Next]_vars

-----------------------------------------------------------------------------
(* The queue the ring stands for.                                          *)

\* How many bytes lie between the two indices.
Count == rx_length

\* The k-th unread byte (from 1) is at this index.
Slot(k) ==
    IF get_index + k - 1 >= Bufsz
    THEN get_index + k - 1 - Bufsz
    ELSE get_index + k - 1

Contents == [k \in 1 .. Count |-> buffer[Slot(k)]]

(***************************************************************************)
(* The flag and the indices tell one story.  is_full is only TRUE while    *)
(* the ring holds the most it can (Bufsz - 1 bytes, an overrun having      *)
(* pushed the read index on), so the two indices are equal only when there *)
(* is nothing to read, and the test of _serial_int_rx never mistakes an    *)
(* empty ring for a full one.  Inside an interrupt the ring is never empty,*)
(* so the callback is always called.                                       *)
(***************************************************************************)
FlagMeansFull ==
    /\ is_full => Count = Bufsz - 1
    /\ isr => Count > 0

(***************************************************************************)
(* The ring implements the lossy queue of Bufsz - 1 bytes: reads return    *)
(* the bytes in the order they came, an overrun loses the oldest unread    *)
(* byte and nothing else, and the callback is told the number of unread    *)
(* bytes.                                                                  *)
(***************************************************************************)
Fifo == INSTANCE LossyFifo WITH q <- Contents, Capacity <- Bufsz - 1
ImplementsLossyFifo == Fifo!FifoSpec
=============================================================================
