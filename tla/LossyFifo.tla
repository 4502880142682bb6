----------------------------- MODULE LossyFifo -----------------------------
(***************************************************************************)
(* What a serial device opened with RT_DEVICE_FLAG_INT_RX promises to the  *)
(* driver's two clients, the receive interrupt and the reading thread: a   *)
(* first-in first-out queue of bytes that holds at most Capacity of them   *)
(* and forgets the OLDEST one when a byte arrives and there is no room.    *)
(*                                                                         *)
(* The interrupt handler pushes the bytes the UART has received one by one *)
(* and then reports the number of queued bytes to the rx_indicate          *)
(* callback; no thread runs until it returns (there is one processor).     *)
(***************************************************************************)
EXTENDS Naturals, Sequences

CONSTANTS
    Byte,       \* the values a received byte can have
    NoByte,     \* what a read that finds nothing leaves behind
    Capacity    \* how many unread bytes the device keeps

ASSUME ByteAssumption == NoByte \notin Byte
ASSUME CapacityAssumption == Capacity \in Nat \ {0}

VARIABLES
    q,      \* the unread bytes, oldest first
    isr,    \* TRUE while the receive interrupt is being served
    ind,    \* the size last reported to rx_indicate
    out     \* the byte the last read returned, NoByte if it returned none

fifoVars == <<q, isr, ind, out>>

FifoTypeOK ==
    /\ q \in Seq(Byte)
    /\ Len(q) <= Capacity
    /\ isr \in BOOLEAN
    /\ ind \in 0 .. Capacity
    /\ out \in Byte \cup {NoByte}

FifoInit ==
    /\ q = << >>
    /\ isr = FALSE
    /\ ind = 0
    /\ out = NoByte

\* The queue after byte b has arrived.
Pushed(s, b) == IF Len(s) < Capacity THEN Append(s, b) ELSE Append(Tail(s), b)

\* The interrupt handler takes one received byte from the UART.
Put(b) ==
    /\ q' = Pushed(q, b)
    /\ isr' = TRUE
    /\ UNCHANGED <<ind, out>>

\* The UART is empty: the handler reports the queue's length and returns.
Indicate ==
    /\ isr
    /\ isr' = FALSE
    /\ ind' = Len(q)
    /\ UNCHANGED <<q, out>>

\* A thread reads one byte...
Get ==
    /\ ~isr
    /\ q # << >>
    /\ out' = Head(q)
    /\ q' = Tail(q)
    /\ UNCHANGED <<isr, ind>>

\* ... or finds that there is none.
GetNothing ==
    /\ ~isr
    /\ q = << >>
    /\ out' = NoByte
    /\ UNCHANGED <<q, isr, ind>>

FifoNext == (\E b \in Byte : Put(b)) \/ Indicate \/ Get \/ GetNothing

FifoSpec == FifoInit /\ [][FifoNext]_fifoVars
=============================================================================
