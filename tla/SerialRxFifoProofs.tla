------------------------- MODULE SerialRxFifoProofs -------------------------
(***************************************************************************)
(* The receive ring of the serial driver for every buffer size: its types, *)
(* that the flag agrees with the indices, and that it implements the lossy *)
(* queue of Bufsz - 1 bytes.                                               *)
(***************************************************************************)
EXTENDS SerialRxFifo, TLAPS, SequenceTheorems

USE ByteAssumption, BufszAssumption

\* The ring's invariant: FlagMeansFull is inductive together with the types.
RingInv == TypeOK /\ FlagMeansFull

\* The arithmetic of one arriving byte: the ring grows by one, or is at its
\* limit and stays there.
LEMMA PutCount ==
    ASSUME TypeOK, NEW b \in Byte, IsrPut(b)
    PROVE  /\ Count \in 0 .. Bufsz - 1
           /\ Count' = IF Count < Bufsz - 1 THEN Count + 1 ELSE Count
           /\ is_full' => is_full \/ Count = Bufsz - 1
           /\ get_index' = IF Count < Bufsz - 1 THEN get_index ELSE NextIndex(get_index)
BY DEF TypeOK, Index, IsrPut, NextIndex, Count, rx_length

\* The arithmetic of one read: it takes a byte unless there is none.
LEMMA ReadCount ==
    ASSUME TypeOK, FlagMeansFull, Read
    PROVE  /\ Count \in 0 .. Bufsz - 1
           /\ Count > 0 => /\ Count' = Count - 1
                           /\ out' = buffer[get_index]
                           /\ get_index' = NextIndex(get_index)
                           /\ ~is_full'
           /\ Count = 0 => /\ out' = NoByte
                           /\ UNCHANGED <<get_index, is_full>>
BY DEF TypeOK, Index, Read, NextIndex, Count, rx_length, FlagMeansFull

\* The initial state of the specification satisfies the invariant.
LEMMA InitRing == Init => RingInv
<1> SUFFICES ASSUME Init
             PROVE  RingInv
  OBVIOUS
<1>1. buffer \in [Index -> Byte] /\ 0 \in Index
  BY DEF Init, Index
<1>2. is_full \in BOOLEAN /\ isr \in BOOLEAN
  BY DEF Init
<1>. QED
  BY <1>1, <1>2 DEF Init, RingInv, TypeOK, FlagMeansFull

\* Every step preserves it.
LEMMA NextRing == RingInv /\ [Next]_vars => RingInv'
<1> SUFFICES ASSUME TypeOK, FlagMeansFull, [Next]_vars
             PROVE  TypeOK' /\ FlagMeansFull'
  BY DEF RingInv
<1>1. ASSUME NEW b \in Byte, IsrPut(b)
      PROVE  TypeOK' /\ FlagMeansFull'
  <2>1. is_full' \in BOOLEAN /\ isr' = TRUE
    BY <1>1 DEF IsrPut
  <2>2. buffer' \in [Index -> Byte]
    BY <1>1 DEF IsrPut, TypeOK
  <2>3. put_index' \in Index /\ get_index' \in Index
    BY <1>1 DEF IsrPut, TypeOK, NextIndex, Index
  <2>4. TypeOK'
    BY <1>1, <2>1, <2>2, <2>3 DEF IsrPut, TypeOK
  <2>5. FlagMeansFull'
    <3>1. /\ Count \in 0 .. Bufsz - 1
          /\ Count' = IF Count < Bufsz - 1 THEN Count + 1 ELSE Count
          /\ is_full' => is_full \/ Count = Bufsz - 1
      BY <1>1, PutCount
    <3>2. is_full' => Count = Bufsz - 1
      BY <3>1 DEF FlagMeansFull
    <3>3. (is_full' => Count' = Bufsz - 1) /\ Count' > 0
      BY <3>1, <3>2
    <3>. QED
      BY <3>3 DEF FlagMeansFull
  <2>. QED
    BY <2>4, <2>5
<1>2. CASE IsrIndicate
  <2>1. UNCHANGED <<buffer, put_index, get_index, is_full, out>> /\ isr' = FALSE
    BY <1>2 DEF IsrIndicate
  <2>2. ind' \in Index
    BY <1>2 DEF IsrIndicate, TypeOK, Index, rx_length
  <2>3. Count' = Count
    BY <2>1 DEF Count, rx_length
  <2>. QED
    BY <2>1, <2>2, <2>3 DEF TypeOK, FlagMeansFull
<1>3. CASE Read
  <2>1. UNCHANGED <<buffer, put_index, isr, ind>> /\ ~isr
    BY <1>3 DEF Read
  <2>2. buffer[get_index] \in Byte /\ NextIndex(get_index) \in Index
    BY DEF TypeOK, Index, NextIndex
  <2>3. is_full' \in BOOLEAN /\ get_index' \in Index /\ out' \in Byte \cup {NoByte}
    BY <1>3, <2>2 DEF Read, TypeOK
  <2>4. TypeOK'
    BY <2>1, <2>3 DEF TypeOK
  <2>5. is_full' => Count' = Bufsz - 1
    <3>1. /\ Count \in 0 .. Bufsz - 1
          /\ Count > 0 => ~is_full'
          /\ Count = 0 => UNCHANGED is_full
      BY <1>3, ReadCount
    <3>2. Count = 0 => ~is_full
      BY <3>1 DEF FlagMeansFull
    <3>3. Count = 0 => ~is_full'
      BY <3>1, <3>2
    <3>. QED
      BY <3>1, <3>3
  <2>. QED
    BY <2>1, <2>4, <2>5 DEF FlagMeansFull
<1>4. CASE UNCHANGED vars
  <2>1. Count' = Count
    BY <1>4 DEF vars, Count, rx_length
  <2>. QED
    BY <1>4, <2>1 DEF vars, TypeOK, FlagMeansFull
<1>. QED
  BY <1>1, <1>2, <1>3, <1>4 DEF Next

\* The fields of the receive FIFO keep their types; both indices stay inside
\* the buffer.
THEOREM RingTypeCorrect == Spec => []TypeOK
<1>1. RingInv => TypeOK
  BY DEF RingInv
<1>. QED
  BY <1>1, InitRing, NextRing, PTL DEF Spec

(***************************************************************************)
(* is_full is never set on an empty ring, so the test of _serial_int_rx    *)
(* tells empty from full, and every receive interrupt reports a size that  *)
(* is not 0.                                                               *)
(***************************************************************************)
THEOREM RingFlagMeansFull == Spec => []FlagMeansFull
<1>1. RingInv => FlagMeansFull
  BY DEF RingInv
<1>. QED
  BY <1>1, InitRing, NextRing, PTL DEF Spec

-----------------------------------------------------------------------------
(* The refinement.  A ring is compared cell by cell with the queue that the *)
(* abstract action makes.  The lemmas speak of any buffer and any pair of   *)
(* indices, so that they can be used before and after a step.               *)

Distance(get, put) == IF put >= get THEN put - get ELSE Bufsz - (get - put)
Cell(get, k) == IF get + k - 1 >= Bufsz THEN get + k - 1 - Bufsz ELSE get + k - 1
Ring(buf, get, put) == [k \in 1 .. Distance(get, put) |-> buf[Cell(get, k)]]

\* A ring is a sequence of bytes; its cells are all different from the one the
\* next byte goes to.
LEMMA RingSeq ==
    ASSUME NEW buf \in [Index -> Byte], NEW get \in Index, NEW put \in Index
    PROVE  /\ Distance(get, put) \in 0 .. Bufsz - 1
           /\ Ring(buf, get, put) \in Seq(Byte)
           /\ Len(Ring(buf, get, put)) = Distance(get, put)
           /\ Cell(get, Distance(get, put) + 1) = put
           /\ \A k \in 1 .. Distance(get, put) :
                 /\ Cell(get, k) \in Index
                 /\ Cell(get, k) # put
                 /\ Ring(buf, get, put)[k] = buf[Cell(get, k)]
<1> DEFINE n == Distance(get, put)
<1>1. n \in 0 .. Bufsz - 1 /\ Cell(get, n + 1) = put
  BY DEF Index, Distance, Cell
<1>2. \A k \in 1 .. n : Cell(get, k) \in Index /\ Cell(get, k) # put
  BY DEF Index, Distance, Cell
<1>3. Ring(buf, get, put) \in [1 .. n -> Byte]
  BY <1>2 DEF Ring
<1>4. Ring(buf, get, put) \in Seq(Byte)
  BY <1>1, <1>3
<1>5. Len(Ring(buf, get, put)) = n
  BY <1>1, <1>3, <1>4, LenProperties
<1>6. \A k \in 1 .. n : Ring(buf, get, put)[k] = buf[Cell(get, k)]
  BY DEF Ring
<1>. QED
  BY <1>1, <1>2, <1>4, <1>5, <1>6

\* Storing a byte where there is room appends it.
LEMMA RingAppend ==
    ASSUME NEW buf \in [Index -> Byte], NEW get \in Index, NEW put \in Index,
           NEW b \in Byte, NextIndex(put) # get
    PROVE  Ring([buf EXCEPT ![put] = b], get, NextIndex(put)) = Append(Ring(buf, get, put), b)
<1> DEFINE n == Distance(get, put)
           old == Ring(buf, get, put)
           buf2 == [buf EXCEPT ![put] = b]
           put2 == NextIndex(put)
           new == Ring(buf2, get, put2)
<1>1. buf2 \in [Index -> Byte] /\ put2 \in Index
  BY DEF NextIndex, Index
<1>2. Distance(get, put2) = n + 1 /\ n \in Nat
  BY DEF NextIndex, Index, Distance
<1>3. /\ old \in Seq(Byte) /\ Len(old) = n
      /\ Cell(get, n + 1) = put
      /\ \A k \in 1 .. n : Cell(get, k) \in Index /\ Cell(get, k) # put /\ old[k] = buf[Cell(get, k)]
  BY RingSeq
<1>4. /\ new \in Seq(Byte) /\ Len(new) = n + 1
      /\ \A k \in 1 .. n + 1 : new[k] = buf2[Cell(get, k)]
  <2> HIDE DEF buf2, put2
  <2>1. /\ new \in Seq(Byte) /\ Len(new) = Distance(get, put2)
        /\ \A k \in 1 .. Distance(get, put2) : new[k] = buf2[Cell(get, k)]
    BY <1>1, RingSeq
  <2> HIDE DEF new, n
  <2>. QED
    BY <1>2, <2>1
<1>5. /\ Append(old, b) \in Seq(Byte) /\ Len(Append(old, b)) = n + 1
      /\ \A k \in 1 .. n : Append(old, b)[k] = old[k]
      /\ Append(old, b)[n + 1] = b
  BY <1>3, AppendProperties
<1>6. \A k \in 1 .. n + 1 : new[k] = Append(old, b)[k]
  <2> SUFFICES ASSUME NEW k \in 1 .. n + 1
               PROVE  new[k] = Append(old, b)[k]
    OBVIOUS
  <2>1. CASE k = n + 1
    <3>1. new[k] = buf2[put]
      BY <1>3, <1>4, <2>1
    <3>2. buf2[put] = b
      OBVIOUS
    <3>. QED
      BY <1>5, <2>1, <3>1, <3>2
  <2>2. CASE k # n + 1
    <3>1. k \in 1 .. n
      BY <1>2, <2>2
    <3>2. Cell(get, k) \in Index /\ Cell(get, k) # put /\ old[k] = buf[Cell(get, k)]
      BY <1>3, <3>1
    <3>3. buf2[Cell(get, k)] = buf[Cell(get, k)]
      BY <3>2
    <3>. QED
      BY <1>4, <1>5, <3>1, <3>2, <3>3
  <2>. QED
    BY <2>1, <2>2
<1>7. new = Append(old, b)
  <2> HIDE DEF new, old, n
  <2>. QED
    BY <1>4, <1>5, <1>6, SeqEqual
<1>. QED
  BY <1>7

\* Moving the read index on drops the first byte.
LEMMA RingTail ==
    ASSUME NEW buf \in [Index -> Byte], NEW get \in Index, NEW put \in Index, get # put
    PROVE  /\ Ring(buf, get, put) # << >>
           /\ Head(Ring(buf, get, put)) = buf[get]
           /\ Ring(buf, NextIndex(get), put) = Tail(Ring(buf, get, put))
<1> DEFINE n == Distance(get, put)
           old == Ring(buf, get, put)
           get2 == NextIndex(get)
           new == Ring(buf, get2, put)
<1>1. get2 \in Index /\ n \in Nat /\ n > 0 /\ Distance(get2, put) = n - 1
  BY DEF NextIndex, Index, Distance
<1>2. /\ old \in Seq(Byte) /\ Len(old) = n
      /\ \A k \in 1 .. n : old[k] = buf[Cell(get, k)]
  BY RingSeq
<1>3. /\ new \in Seq(Byte) /\ Len(new) = n - 1
      /\ \A k \in 1 .. n - 1 : new[k] = buf[Cell(get2, k)]
  <2> HIDE DEF get2
  <2>1. /\ new \in Seq(Byte) /\ Len(new) = Distance(get2, put)
        /\ \A k \in 1 .. Distance(get2, put) : new[k] = buf[Cell(get2, k)]
    BY <1>1, RingSeq
  <2> HIDE DEF new, n
  <2>. QED
    BY <1>1, <2>1
<1>4. \A k \in 1 .. n - 1 : Cell(get2, k) = Cell(get, k + 1)
  BY DEF NextIndex, Index, Distance, Cell
<1>5. Cell(get, 1) = get
  BY DEF Cell, Index
<1> HIDE DEF new, old
<1>6. old # << >>
  BY <1>1, <1>2, EmptySeq
<1>7. /\ Tail(old) \in Seq(Byte) /\ Len(Tail(old)) = n - 1
      /\ \A k \in 1 .. n - 1 : Tail(old)[k] = old[k + 1]
  BY <1>2, <1>6, HeadTailProperties
<1>8. \A k \in 1 .. n - 1 : new[k] = Tail(old)[k]
  BY <1>1, <1>2, <1>3, <1>4, <1>7
<1>9. new = Tail(old)
  BY <1>3, <1>7, <1>8, SeqEqual
<1>10. Head(old) = buf[get]
  BY <1>1, <1>2, <1>5, <1>6
<1>. QED
  BY <1>6, <1>9, <1>10 DEF new, old

\* Contents is the ring of the driver's buffer and indices.
LEMMA ContentsIsRing ==
    /\ Count = Distance(get_index, put_index)
    /\ Contents = Ring(buffer, get_index, put_index)
    /\ Contents' = Ring(buffer', get_index', put_index')
BY DEF Contents, Count, rx_length, Slot, Ring, Distance, Cell

\* A byte that arrives is pushed.
LEMMA PutRefines ==
    ASSUME TypeOK, NEW b \in Byte, IsrPut(b)
    PROVE  Fifo!Put(b)
<1> DEFINE old == Ring(buffer, get_index, put_index)
           put2 == NextIndex(put_index)
           get2 == NextIndex(get_index)
           buf2 == [buffer EXCEPT ![put_index] = b]
<1>1. buffer \in [Index -> Byte] /\ get_index \in Index /\ put_index \in Index
  BY DEF TypeOK
<1>2. Len(old) = Distance(get_index, put_index)
  BY <1>1, RingSeq
<1>3. Contents' = Fifo!Pushed(Contents, b)
  <2>1. CASE put2 = get_index
    <3>1. /\ buffer' = buf2 /\ get_index' = get2 /\ put_index' = put2
      BY <2>1 DEF IsrPut
    <3>2. /\ get2 \in Index /\ put2 # get2 /\ get_index # put_index
          /\ Distance(get_index, put_index) = Bufsz - 1
      BY <1>1, <2>1 DEF NextIndex, Index, Distance
    <3>3. Ring(buffer, get2, put_index) = Tail(old)
      BY <1>1, <3>2, RingTail
    <3>4. Ring(buf2, get2, put2) = Append(Ring(buffer, get2, put_index), b)
      BY <1>1, <3>2, RingAppend
    <3>5. ~(Len(old) < Bufsz - 1)
      BY <1>2, <3>2
    <3>. QED
      BY <3>1, <3>3, <3>4, <3>5, ContentsIsRing DEF Fifo!Pushed
  <2>2. CASE put2 # get_index
    <3>1. /\ buffer' = buf2 /\ get_index' = get_index /\ put_index' = put2
      BY <2>2 DEF IsrPut
    <3>2. Ring(buf2, get_index, put2) = Append(old, b)
      BY <1>1, <2>2, RingAppend
    <3>3. Distance(get_index, put_index) < Bufsz - 1
      BY <1>1, <2>2 DEF NextIndex, Index, Distance
    <3>4. Len(old) < Bufsz - 1
      BY <1>2, <3>3
    <3>. QED
      BY <3>1, <3>2, <3>4, ContentsIsRing DEF Fifo!Pushed
  <2>. QED
    BY <2>1, <2>2
<1>. QED
  BY <1>3 DEF IsrPut, Fifo!Put

\* The size given to rx_indicate is the length of the queue.
LEMMA IndicateRefines ==
    ASSUME RingInv, IsrIndicate
    PROVE  Fifo!Indicate
<1>1. Len(Ring(buffer, get_index, put_index)) = Distance(get_index, put_index)
  BY RingSeq DEF RingInv, TypeOK
<1>2. Len(Contents) = Count
  BY <1>1, ContentsIsRing
<1>3. Count > 0 /\ ind' = Count
  BY DEF RingInv, FlagMeansFull, IsrIndicate, Count
<1>4. Contents' = Contents
  BY ContentsIsRing DEF IsrIndicate
<1>. QED
  BY <1>2, <1>3, <1>4 DEF IsrIndicate, Fifo!Indicate

\* A read takes the oldest byte, or finds the queue empty.
LEMMA ReadRefines ==
    ASSUME RingInv, Read
    PROVE  Fifo!Get \/ Fifo!GetNothing
<1>1. buffer \in [Index -> Byte] /\ get_index \in Index /\ put_index \in Index
  BY DEF RingInv, TypeOK
<1>2. UNCHANGED <<buffer, put_index, isr, ind>> /\ ~isr
  BY DEF Read
<1>3. CASE get_index # put_index
  <2>1. /\ Ring(buffer, get_index, put_index) # << >>
        /\ Head(Ring(buffer, get_index, put_index)) = buffer[get_index]
        /\ Ring(buffer, NextIndex(get_index), put_index)
             = Tail(Ring(buffer, get_index, put_index))
    BY <1>1, <1>3, RingTail
  <2>2. out' = buffer[get_index] /\ get_index' = NextIndex(get_index)
    BY <1>3 DEF Read
  <2>3. /\ Contents # << >>
        /\ out' = Head(Contents)
        /\ Contents' = Tail(Contents)
    BY <1>2, <2>1, <2>2, ContentsIsRing
  <2>. QED
    BY <1>2, <2>3 DEF Fifo!Get
<1>4. CASE get_index = put_index
  <2>1. Count = 0
    BY <1>1, <1>4 DEF Count, rx_length, Index
  <2>2. ~is_full
    BY <2>1 DEF RingInv, FlagMeansFull
  <2>3. out' = NoByte /\ UNCHANGED get_index
    BY <1>4, <2>2 DEF Read
  <2>4. Contents' = Contents
    BY <1>2, <2>3, ContentsIsRing
  <2>5. Contents = << >>
    <3>1. Contents \in Seq(Byte) /\ Len(Contents) = 0
      BY <1>1, <2>1, RingSeq, ContentsIsRing
    <3>. QED
      BY <3>1, EmptySeq
  <2>. QED
    BY <1>2, <2>3, <2>4, <2>5 DEF Fifo!GetNothing
<1>. QED
  BY <1>3, <1>4

\* The open device is the empty queue.
LEMMA InitRefines == Init => Fifo!FifoInit
<1> SUFFICES ASSUME Init
             PROVE  Fifo!FifoInit
  OBVIOUS
<1>1. buffer \in [Index -> Byte] /\ get_index \in Index /\ put_index \in Index
  BY InitRing DEF RingInv, TypeOK
<1>2. Count = 0
  BY DEF Init, Count, rx_length
<1>3. Contents \in Seq(Byte) /\ Len(Contents) = 0
  BY <1>1, <1>2, RingSeq, ContentsIsRing
<1>4. Contents = << >>
  BY <1>3, EmptySeq
<1>. QED
  BY <1>4 DEF Init, Fifo!FifoInit

(***************************************************************************)
(* The receive FIFO of the serial driver, for every buffer size of at      *)
(* least 2, is a first-in first-out queue of one byte less that forgets    *)
(* the oldest byte on an overrun and nothing else.                         *)
(***************************************************************************)
THEOREM RingImplementsLossyFifo == Spec => ImplementsLossyFifo
<1>1. RingInv /\ [Next]_vars => [Fifo!FifoNext]_(Fifo!fifoVars)
  <2> SUFFICES ASSUME RingInv, [Next]_vars
               PROVE  [Fifo!FifoNext]_(Fifo!fifoVars)
    OBVIOUS
  <2>1. ASSUME NEW b \in Byte, IsrPut(b)
        PROVE  Fifo!FifoNext
    BY <2>1, PutRefines DEF RingInv, Fifo!FifoNext
  <2>2. CASE IsrIndicate
    BY <2>2, IndicateRefines DEF Fifo!FifoNext
  <2>3. CASE Read
    BY <2>3, ReadRefines DEF Fifo!FifoNext
  <2>4. CASE UNCHANGED vars
    <3>1. Contents' = Contents
      BY <2>4, ContentsIsRing DEF vars
    <3>. QED
      BY <2>4, <3>1 DEF vars, Fifo!fifoVars
  <2>. QED
    BY <2>1, <2>2, <2>3, <2>4 DEF Next
<1>. QED
  BY <1>1, InitRing, NextRing, InitRefines, PTL DEF Spec, ImplementsLossyFifo, Fifo!FifoSpec
=============================================================================
