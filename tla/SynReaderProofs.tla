--------------------------- MODULE SynReaderProofs ---------------------------
(***************************************************************************)
(* NoLostWakeup for every queue capacity and every semaphore limit.        *)
(*                                                                         *)
(* It is not inductive by itself: that the queue is empty when the thread  *)
(* goes to sleep depends on what happened between the failed read and      *)
(* rt_sem_take.  The strengthening says that a byte that came in that      *)
(* window has left a unit in the semaphore, and that an interrupt always   *)
(* ends with a release because its queue is not empty.                     *)
(***************************************************************************)
EXTENDS SynReader, TLAPS, SequenceTheorems

\* A byte that is unread when the thread is about to call rt_sem_take has a
\* unit waiting for it, unless its interrupt has not got that far.
WindowHasUnit == pc = "take" /\ ~isr /\ q # << >> => syn_rx_sem.value > 0

\* The semaphore's list holds the thread only while it is in rt_sem_take, and
\* then there is no unit.
SleepsWithoutUnit ==
    syn_rx_sem.susp # << >> => pc = "wait" /\ syn_rx_sem.value = 0

\* Inside an interrupt there is something to report.
ReportsSomething == isr => q # << >>

WakeupInv ==
    /\ TypeOK
    /\ WindowHasUnit
    /\ SleepsWithoutUnit
    /\ ReportsSomething
    /\ NoLostWakeup

USE CapacityAssumption, SemMaxAssumption

-----------------------------------------------------------------------------
(* The receive queue and the semaphore.                                    *)

USE CapacityAssumption, SemMaxAssumption

\* The thread is suspended on the semaphore exactly when the list is not empty.
LEMMA SuspIsThread ==
    ASSUME NEW t, NEW sem \in SemOf(t)
    PROVE  IsSuspended(sem, t) <=> sem.susp # << >>
BY DEF SemOf, IsSuspended

\* A byte that arrives leaves a queue of at most Capacity bytes, not empty.
LEMMA PushedType ==
    ASSUME NEW s \in Seq(Byte), Len(s) <= Capacity, NEW b \in Byte
    PROVE  /\ Pushed(s, b) \in Seq(Byte)
           /\ Len(Pushed(s, b)) <= Capacity
           /\ Pushed(s, b) # << >>
<1>1. \A t \in Seq(Byte) : /\ Append(t, b) \in Seq(Byte)
                          /\ Len(Append(t, b)) = Len(t) + 1
                          /\ Append(t, b) # << >>
  BY AppendProperties
<1>2. CASE Len(s) < Capacity
  BY <1>1, <1>2 DEF Pushed
<1>3. CASE ~(Len(s) < Capacity)
  <2>1. Len(s) = Capacity /\ s # << >>
    BY <1>3
  <2>2. Tail(s) \in Seq(Byte) /\ Len(Tail(s)) = Len(s) - 1
    BY <2>1, HeadTailProperties
  <2>. QED
    BY <1>1, <1>3, <2>1, <2>2 DEF Pushed
<1>. QED
  BY <1>2, <1>3

\* A release leaves no thread suspended, or adds a unit, or is at the limit.
LEMMA ReleaseType ==
    ASSUME NEW t, NEW sem \in SemOf(t)
    PROVE  /\ SemRelease(sem) \in SemOf(t)
           /\ SemRelease(sem).susp = << >>
           /\ sem.susp = << >> => SemRelease(sem).value > 0
<1>1. sem.value \in 0 .. SemMax /\ sem.susp \in {<< >>, <<t>>}
  BY DEF SemOf
<1>2. CASE sem.susp # << >>
  <2>1. sem.susp = <<t>> /\ Tail(<<t>>) = << >>
    BY <1>1, <1>2
  <2>2. SemRelease(sem) = [sem EXCEPT !.susp = << >>]
    BY <1>2, <2>1 DEF SemRelease, Resumed
  <2>. QED
    BY <1>2, <2>2 DEF SemOf
<1>3. CASE sem.susp = << >> /\ sem.value < SemMax
  <2>1. SemRelease(sem) = [sem EXCEPT !.value = @ + 1]
    BY <1>3 DEF SemRelease
  <2>. QED
    BY <1>1, <1>3, <2>1 DEF SemOf
<1>4. CASE sem.susp = << >> /\ ~(sem.value < SemMax)
  <2>1. SemRelease(sem) = sem
    BY <1>4 DEF SemRelease
  <2>. QED
    BY <1>1, <1>4, <2>1 DEF SemOf
<1>. QED
  BY <1>2, <1>3, <1>4
-----------------------------------------------------------------------------
\* The initial state of the specification satisfies the invariant.
LEMMA InitWakeup == Init => WakeupInv
<1> SUFFICES ASSUME Init
             PROVE  WakeupInv
  OBVIOUS
<1>1. << >> \in Seq(Byte) /\ Len(<< >>) = 0
  BY EmptySeq
<1>2. syn_rx_sem \in SemOf(SYN) /\ syn_rx_sem.susp = << >>
  BY DEF Init, SemInit, SemOf
<1>3. TypeOK
  <2>1. isr \in BOOLEAN
    BY DEF Init, FifoInit
  <2>2. ind \in 0 .. Capacity
    BY DEF Init, FifoInit
  <2>. QED
    BY <1>1, <1>2, <2>1, <2>2 DEF Init, FifoInit, TypeOK, FifoTypeOK
<1>. QED
  BY <1>2, <1>3 DEF Init, FifoInit, WakeupInv, WindowHasUnit, SleepsWithoutUnit,
                    ReportsSomething, NoLostWakeup

\* Every step preserves it.
LEMMA NextWakeup == WakeupInv /\ [Next]_vars => WakeupInv'
<1> SUFFICES ASSUME WakeupInv, [Next]_vars
             PROVE  WakeupInv'
  OBVIOUS
<1> USE DEF WakeupInv
<1>1. ASSUME NEW b \in Byte, Receive(b)
      PROVE  WakeupInv'
  <2>1. q' \in Seq(Byte) /\ Len(q') <= Capacity /\ q' # << >>
    BY <1>1, PushedType DEF Receive, Put, TypeOK, FifoTypeOK
  <2>2. TypeOK'
    BY <1>1, <2>1 DEF Receive, Put, TypeOK, FifoTypeOK
  <2>3. SleepsWithoutUnit'
    BY <1>1 DEF Receive, SleepsWithoutUnit
  <2>. QED
    BY <1>1, <2>1, <2>2, <2>3 DEF Receive, Put, WindowHasUnit, ReportsSomething, NoLostWakeup
<1>2. CASE ReceiveDone
  <2>1. q # << >> /\ q' = q /\ ind' = Len(q) /\ ind' > 0 /\ isr' = FALSE /\ out' = out /\ pc' = pc
    <3>1. q \in Seq(Byte) /\ q # << >>
      BY <1>2 DEF ReceiveDone, Indicate, ReportsSomething, TypeOK, FifoTypeOK
    <3>2. Len(q) > 0
      BY <3>1, EmptySeq
    <3>. QED
      BY <1>2, <3>1, <3>2 DEF ReceiveDone, Indicate
  <2>2. syn_rx_sem' = SemRelease(syn_rx_sem)
    BY <1>2, <2>1 DEF ReceiveDone, syn6288_input
  <2>3. TypeOK'
    <3>1. isr' \in BOOLEAN
      BY <2>1
    <3>2. ind' \in 0 .. Capacity
      BY <2>1, LenProperties DEF TypeOK, FifoTypeOK
    <3>3. syn_rx_sem' \in SemOf(SYN)
      BY <2>2, ReleaseType DEF TypeOK
    <3>. QED
      BY <2>1, <3>1, <3>2, <3>3 DEF TypeOK, FifoTypeOK
  <2>4. syn_rx_sem'.susp = << >> /\ (syn_rx_sem.susp = << >> => syn_rx_sem'.value > 0)
    BY <2>2, ReleaseType DEF TypeOK
  <2>5. ~IsSuspended(syn_rx_sem, SYN)'
    BY <2>4 DEF IsSuspended
  <2>6. pc = "take" => syn_rx_sem.susp = << >>
    BY DEF SleepsWithoutUnit
  <2>. QED
    BY <2>1, <2>3, <2>4, <2>5, <2>6
    DEF WindowHasUnit, SleepsWithoutUnit, ReportsSomething, NoLostWakeup
<1>3. CASE ReadByte
  <2>1. Head(q) \in Byte /\ Tail(q) \in Seq(Byte) /\ Len(Tail(q)) <= Capacity
    BY <1>3 DEF ReadByte, Get, TypeOK, FifoTypeOK
  <2>2. TypeOK'
    BY <1>3, <2>1 DEF ReadByte, Get, TypeOK, FifoTypeOK
  <2>3. syn_rx_sem.susp = << >>
    BY <1>3 DEF ReadByte, SleepsWithoutUnit
  <2>. QED
    BY <1>3, <2>2, <2>3
    DEF ReadByte, Get, WindowHasUnit, SleepsWithoutUnit, ReportsSomething, NoLostWakeup, IsSuspended
<1>4. CASE ReadNothing
  BY <1>4 DEF ReadNothing, GetNothing, TypeOK, FifoTypeOK, WindowHasUnit, SleepsWithoutUnit,
              ReportsSomething, NoLostWakeup, IsSuspended
<1>5. CASE Take
  <2>1. syn_rx_sem.susp = << >>
    BY <1>5 DEF Take, SleepsWithoutUnit
  <2>2. CASE syn_rx_sem.value > 0
    <3>1. syn_rx_sem' = [syn_rx_sem EXCEPT !.value = @ - 1] /\ pc' = "read" /\ UNCHANGED fifoVars
      BY <1>5, <2>2 DEF Take, SemTake
    <3>2. syn_rx_sem'.susp = << >> /\ TypeOK'
      BY <2>1, <2>2, <3>1 DEF TypeOK, FifoTypeOK, fifoVars, SemOf
    <3>. QED
      BY <3>1, <3>2 DEF fifoVars, WindowHasUnit, SleepsWithoutUnit, ReportsSomething,
                        NoLostWakeup, IsSuspended
  <2>3. CASE ~(syn_rx_sem.value > 0)
    <3>1. syn_rx_sem' = [syn_rx_sem EXCEPT !.susp = Append(@, SYN)] /\ pc' = "wait" /\ UNCHANGED fifoVars
      BY <1>5, <2>3 DEF Take, SemTake, Suspended
    <3>2. Append(<< >>, SYN) = <<SYN>>
      OBVIOUS
    <3>3. syn_rx_sem'.susp = <<SYN>> /\ syn_rx_sem'.value = 0 /\ TypeOK'
      BY <2>1, <2>3, <3>1, <3>2 DEF TypeOK, FifoTypeOK, fifoVars, SemOf
    <3>4. ~isr /\ q = << >>
      BY <1>5, <2>3 DEF Take, WindowHasUnit
    <3>. QED
      BY <3>1, <3>3, <3>4 DEF fifoVars, WindowHasUnit, SleepsWithoutUnit, ReportsSomething,
                              NoLostWakeup
  <2>. QED
    BY <2>2, <2>3
<1>6. CASE Woken
  <2>1. syn_rx_sem.susp = << >>
    BY <1>6, SuspIsThread DEF Woken, TypeOK
  <2>. QED
    BY <1>6, <2>1 DEF Woken, fifoVars, TypeOK, FifoTypeOK, WindowHasUnit, SleepsWithoutUnit,
                      ReportsSomething, NoLostWakeup, IsSuspended
<1>7. CASE PrintByte
  BY <1>7 DEF PrintByte, fifoVars, TypeOK, FifoTypeOK, WindowHasUnit, SleepsWithoutUnit,
              ReportsSomething, NoLostWakeup, IsSuspended
<1>8. CASE UNCHANGED vars
  BY <1>8 DEF vars, fifoVars, TypeOK, FifoTypeOK, WindowHasUnit, SleepsWithoutUnit,
              ReportsSomething, NoLostWakeup, IsSuspended
<1>. QED
  BY <1>1, <1>2, <1>3, <1>4, <1>5, <1>6, <1>7, <1>8 DEF Next, SYN6288_thread_entry

(***************************************************************************)
(* The thread of syn6288.c never sleeps on an unread byte: the failed read *)
(* of line 68, an interrupt and the rt_sem_take of line 70 can interleave  *)
(* in any way.                                                             *)
(***************************************************************************)
THEOREM SynNeverOversleeps == Spec => []NoLostWakeup
<1>1. WakeupInv => NoLostWakeup
  BY DEF WakeupInv
<1>. QED
  BY <1>1, InitWakeup, NextWakeup, PTL DEF Spec

\* The state of SynReader keeps the types TypeOK gives it.
THEOREM SynTypeCorrect == Spec => []TypeOK
<1>1. WakeupInv => TypeOK
  BY DEF WakeupInv
<1>. QED
  BY <1>1, InitWakeup, NextWakeup, PTL DEF Spec
=============================================================================
