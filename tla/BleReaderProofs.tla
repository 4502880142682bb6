--------------------------- MODULE BleReaderProofs ---------------------------
(***************************************************************************)
(* OversleepsOnlyByReset for every queue capacity and semaphore limit: the *)
(* RESET of uart_sample_get_char is the only way to lose a wake-up.        *)
(*                                                                         *)
(* The strengthening speaks of the whole way from the RESET to the sleep:  *)
(* an unread byte has a unit waiting for it or is one whose unit was       *)
(* thrown away; and an interrupt always ends with a release.               *)
(***************************************************************************)
EXTENDS BleReader, TLAPS, SequenceTheorems

\* A byte that is unread when the thread is about to call rt_sem_take has a
\* unit, or had one before the RESET.
WindowHasUnit ==
    pc = "take" /\ ~isr /\ q # << >> => ble_rxsem.value > 0 \/ cancelled

\* The semaphore's list holds the thread only while it is in rt_sem_take, and
\* then there is no unit.
SleepsWithoutUnit ==
    ble_rxsem.susp # << >> => pc = "wait" /\ ble_rxsem.value = 0

\* Inside an interrupt there is something to report.
ReportsSomething == isr => q # << >>

ResetInv ==
    /\ TypeOK
    /\ WindowHasUnit
    /\ SleepsWithoutUnit
    /\ ReportsSomething
    /\ OversleepsOnlyByReset

USE CapacityAssumption, SemMaxAssumption

-----------------------------------------------------------------------------
(* The receive queue and the semaphore.                                    *)

USE CapacityAssumption, SemMaxAssumption

\* The thread is suspended on the semaphore exactly when the list is not empty.
LEMMA SuspIsThread ==
    ASSUME NEW t, NEW sem \in SemOf(t)
    PROVE  IsSuspended(sem, t) <=> sem.susp # << >>
BY DEF SemOf, IsSuspended

\* A byte that arrives leaves a queue of at most Capacity bytes, not empty.
LEMMA PushedType ==
    ASSUME NEW s \in Seq(Byte), Len(s) <= Capacity, NEW b \in Byte
    PROVE  /\ Pushed(s, b) \in Seq(Byte)
           /\ Len(Pushed(s, b)) <= Capacity
           /\ Pushed(s, b) # << >>
<1>1. \A t \in Seq(Byte) : /\ Append(t, b) \in Seq(Byte)
                          /\ Len(Append(t, b)) = Len(t) + 1
                          /\ Append(t, b) # << >>
  BY AppendProperties
<1>2. CASE Len(s) < Capacity
  BY <1>1, <1>2 DEF Pushed
<1>3. CASE ~(Len(s) < Capacity)
  <2>1. Len(s) = Capacity /\ s # << >>
    BY <1>3
  <2>2. Tail(s) \in Seq(Byte) /\ Len(Tail(s)) = Len(s) - 1
    BY <2>1, HeadTailProperties
  <2>. QED
    BY <1>1, <1>3, <2>1, <2>2 DEF Pushed
<1>. QED
  BY <1>2, <1>3

\* A release leaves no thread suspended, or adds a unit, or is at the limit.
LEMMA ReleaseType ==
    ASSUME NEW t, NEW sem \in SemOf(t)
    PROVE  /\ SemRelease(sem) \in SemOf(t)
           /\ SemRelease(sem).susp = << >>
           /\ sem.susp = << >> => SemRelease(sem).value > 0
<1>1. sem.value \in 0 .. SemMax /\ sem.susp \in {<< >>, <<t>>}
  BY DEF SemOf
<1>2. CASE sem.susp # << >>
  <2>1. sem.susp = <<t>> /\ Tail(<<t>>) = << >>
    BY <1>1, <1>2
  <2>2. SemRelease(sem) = [sem EXCEPT !.susp = << >>]
    BY <1>2, <2>1 DEF SemRelease, Resumed
  <2>. QED
    BY <1>2, <2>2 DEF SemOf
<1>3. CASE sem.susp = << >> /\ sem.value < SemMax
  <2>1. SemRelease(sem) = [sem EXCEPT !.value = @ + 1]
    BY <1>3 DEF SemRelease
  <2>. QED
    BY <1>1, <1>3, <2>1 DEF SemOf
<1>4. CASE sem.susp = << >> /\ ~(sem.value < SemMax)
  <2>1. SemRelease(sem) = sem
    BY <1>4 DEF SemRelease
  <2>. QED
    BY <1>1, <1>4, <2>1 DEF SemOf
<1>. QED
  BY <1>2, <1>3, <1>4
-----------------------------------------------------------------------------
\* The initial state of the specification satisfies the invariant.
LEMMA InitReset == Init => ResetInv
<1> SUFFICES ASSUME Init
             PROVE  ResetInv
  OBVIOUS
<1>1. << >> \in Seq(Byte) /\ Len(<< >>) = 0
  BY EmptySeq
<1>2. ble_rxsem \in SemOf(BLE) /\ ble_rxsem.susp = << >>
  BY DEF Init, SemInit, SemOf
<1>3. TypeOK
  <2>1. isr \in BOOLEAN /\ cancelled \in BOOLEAN
    BY DEF Init, FifoInit
  <2>2. ind \in 0 .. Capacity
    BY DEF Init, FifoInit
  <2>. QED
    BY <1>1, <1>2, <2>1, <2>2 DEF Init, FifoInit, TypeOK, FifoTypeOK
<1>. QED
  BY <1>2, <1>3 DEF Init, FifoInit, ResetInv, WindowHasUnit, SleepsWithoutUnit,
                    ReportsSomething, OversleepsOnlyByReset

\* Every step preserves it.
LEMMA NextReset == ResetInv /\ [Next]_vars => ResetInv'
<1> SUFFICES ASSUME ResetInv, [Next]_vars
             PROVE  ResetInv'
  OBVIOUS
<1> USE DEF ResetInv
<1>1. ASSUME NEW b \in Byte, Receive(b)
      PROVE  ResetInv'
  <2>1. q' \in Seq(Byte) /\ Len(q') <= Capacity /\ q' # << >>
    BY <1>1, PushedType DEF Receive, Put, TypeOK, FifoTypeOK
  <2>2. TypeOK'
    BY <1>1, <2>1 DEF Receive, Put, TypeOK, FifoTypeOK
  <2>3. SleepsWithoutUnit'
    BY <1>1 DEF Receive, SleepsWithoutUnit
  <2>. QED
    BY <1>1, <2>1, <2>2, <2>3
    DEF Receive, Put, WindowHasUnit, ReportsSomething, OversleepsOnlyByReset
<1>2. CASE ReceiveDone
  <2>1. /\ q # << >> /\ q' = q
        /\ ind' = Len(q) /\ ind' > 0
        /\ isr' = FALSE /\ UNCHANGED <<out, pc, cancelled>>
    <3>1. q \in Seq(Byte) /\ q # << >>
      BY <1>2 DEF ReceiveDone, Indicate, ReportsSomething, TypeOK, FifoTypeOK
    <3>2. Len(q) > 0
      BY <3>1, EmptySeq
    <3>. QED
      BY <1>2, <3>1, <3>2 DEF ReceiveDone, Indicate
  <2>2. ble_rxsem' = SemRelease(ble_rxsem)
    BY <1>2, <2>1 DEF ReceiveDone, uart_rx_ind
  <2>3. TypeOK'
    <3>1. isr' \in BOOLEAN
      BY <2>1
    <3>2. ind' \in 0 .. Capacity
      BY <2>1, LenProperties DEF TypeOK, FifoTypeOK
    <3>3. ble_rxsem' \in SemOf(BLE)
      BY <2>2, ReleaseType DEF TypeOK
    <3>. QED
      BY <2>1, <3>1, <3>2, <3>3 DEF TypeOK, FifoTypeOK
  <2>4. ble_rxsem'.susp = << >> /\ (ble_rxsem.susp = << >> => ble_rxsem'.value > 0)
    BY <2>2, ReleaseType DEF TypeOK
  <2>5. ~IsSuspended(ble_rxsem, BLE)'
    BY <2>4 DEF IsSuspended
  <2>6. pc = "take" => ble_rxsem.susp = << >>
    BY DEF SleepsWithoutUnit
  <2>. QED
    BY <2>1, <2>3, <2>4, <2>5, <2>6
    DEF WindowHasUnit, SleepsWithoutUnit, ReportsSomething, OversleepsOnlyByReset
<1>3. CASE ReadByte
  <2>1. Head(q) \in Byte /\ Tail(q) \in Seq(Byte) /\ Len(Tail(q)) <= Capacity
    BY <1>3 DEF ReadByte, Get, TypeOK, FifoTypeOK
  <2>2. TypeOK'
    BY <1>3, <2>1 DEF ReadByte, Get, TypeOK, FifoTypeOK
  <2>3. ble_rxsem.susp = << >>
    BY <1>3 DEF ReadByte, SleepsWithoutUnit
  <2>. QED
    BY <1>3, <2>2, <2>3 DEF ReadByte, Get, WindowHasUnit, SleepsWithoutUnit,
                            ReportsSomething, OversleepsOnlyByReset, IsSuspended
<1>4. CASE ReadNothing
  BY <1>4 DEF ReadNothing, GetNothing, TypeOK, FifoTypeOK, WindowHasUnit, SleepsWithoutUnit,
              ReportsSomething, OversleepsOnlyByReset, IsSuspended
<1>5. CASE Reset
  <2>1. ble_rxsem' \in SemOf(BLE) /\ ble_rxsem'.susp = << >>
    <3>1. ble_rxsem' = [[ble_rxsem EXCEPT !.value = 0] EXCEPT !.susp = << >>]
      BY <1>5 DEF Reset, SemReset
    <3>2. [ble_rxsem EXCEPT !.value = 0] \in SemOf(BLE)
      BY DEF TypeOK, SemOf
    <3>. QED
      BY <3>1, <3>2 DEF SemOf
  <2>2. cancelled' \in BOOLEAN /\ (q # << >> => cancelled')
    BY <1>5 DEF Reset
  <2>3. TypeOK'
    BY <1>5, <2>1, <2>2 DEF Reset, fifoVars, TypeOK, FifoTypeOK
  <2>. QED
    BY <1>5, <2>1, <2>2, <2>3 DEF Reset, fifoVars, WindowHasUnit, SleepsWithoutUnit,
                                  ReportsSomething, OversleepsOnlyByReset, IsSuspended
<1>6. CASE Take
  <2>1. ble_rxsem.susp = << >>
    BY <1>6 DEF Take, SleepsWithoutUnit
  <2>2. CASE ble_rxsem.value > 0
    <3>1. /\ ble_rxsem' = [ble_rxsem EXCEPT !.value = @ - 1]
          /\ pc' = "read"
          /\ UNCHANGED <<fifoVars, cancelled>>
      BY <1>6, <2>2 DEF Take, SemTake
    <3>2. ble_rxsem'.susp = << >> /\ TypeOK'
      BY <2>1, <2>2, <3>1 DEF TypeOK, FifoTypeOK, fifoVars, SemOf
    <3>. QED
      BY <3>1, <3>2 DEF fifoVars, WindowHasUnit, SleepsWithoutUnit, ReportsSomething,
                        OversleepsOnlyByReset, IsSuspended
  <2>3. CASE ~(ble_rxsem.value > 0)
    <3>1. /\ ble_rxsem' = [ble_rxsem EXCEPT !.susp = Append(@, BLE)]
          /\ pc' = "wait"
          /\ UNCHANGED <<fifoVars, cancelled>>
      BY <1>6, <2>3 DEF Take, SemTake, Suspended
    <3>2. Append(<< >>, BLE) = <<BLE>>
      OBVIOUS
    <3>3. ble_rxsem'.susp = <<BLE>> /\ ble_rxsem'.value = 0 /\ TypeOK'
      BY <2>1, <2>3, <3>1, <3>2 DEF TypeOK, FifoTypeOK, fifoVars, SemOf
    <3>4. ~isr /\ (q = << >> \/ cancelled)
      BY <1>6, <2>3 DEF Take, WindowHasUnit
    <3>. QED
      BY <3>1, <3>3, <3>4 DEF fifoVars, WindowHasUnit, SleepsWithoutUnit, ReportsSomething,
                              OversleepsOnlyByReset
  <2>. QED
    BY <2>2, <2>3
<1>7. CASE Woken
  <2>1. ble_rxsem.susp = << >>
    BY <1>7, SuspIsThread DEF Woken, TypeOK
  <2>. QED
    BY <1>7, <2>1 DEF Woken, fifoVars, TypeOK, FifoTypeOK, WindowHasUnit, SleepsWithoutUnit,
                      ReportsSomething, OversleepsOnlyByReset, IsSuspended
<1>8. CASE Parsed
  BY <1>8 DEF Parsed, fifoVars, TypeOK, FifoTypeOK, WindowHasUnit, SleepsWithoutUnit,
              ReportsSomething, OversleepsOnlyByReset, IsSuspended
<1>9. CASE UNCHANGED vars
  BY <1>9 DEF vars, fifoVars, TypeOK, FifoTypeOK, WindowHasUnit, SleepsWithoutUnit,
              ReportsSomething, OversleepsOnlyByReset, IsSuspended
<1>. QED
  BY <1>1, <1>2, <1>3, <1>4, <1>5, <1>6, <1>7, <1>8, <1>9 DEF Next, BleThread

(***************************************************************************)
(* uart_sample_get_char (bluetooth.c) sleeps on an unread byte only if its *)
(* RESET has thrown away the unit of that byte.                            *)
(***************************************************************************)
THEOREM BleOversleepsOnlyByReset == Spec => []OversleepsOnlyByReset
<1>1. ResetInv => OversleepsOnlyByReset
  BY DEF ResetInv
<1>. QED
  BY <1>1, InitReset, NextReset, PTL DEF Spec

\* The state of BleReader keeps the types TypeOK gives it.
THEOREM BleTypeCorrect == Spec => []TypeOK
<1>1. ResetInv => TypeOK
  BY DEF ResetInv
<1>. QED
  BY <1>1, InitReset, NextReset, PTL DEF Spec
=============================================================================
