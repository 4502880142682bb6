-------------------------- MODULE OledDisplayProofs --------------------------
(***************************************************************************)
(* SettledText for texts of every length.                                  *)
(*                                                                         *)
(* The invariant adds what is true in the middle of a copy as long as no   *)
(* new text has come (no unit is left): the part copied so far is a part   *)
(* of the text.                                                            *)
(***************************************************************************)
EXTENDS OledDisplay, TLAPS, FiniteSetTheorems

USE TextAssumption, SemMaxAssumption

\* The part of the type invariant that the argument needs.
DisplayShape ==
    /\ text \in Text
    /\ oled_sem_event \in SemOf("dst_show")
    /\ oled_sem_event.susp = << >>
    /\ d_text \in Buffer
    /\ k \in Cell

\* Up to cell k the copy agrees with the text, which has not ended before.
CopiedSoFar ==
    oled_sem_event.value = 0 /\ pc = "copy" =>
        \A j \in Cell : j < k => d_text[j] = text[j] /\ text[j] # NUL

\* A copy that nothing has interrupted is complete.
CopiedAll == oled_sem_event.value = 0 /\ pc = "measure" => d_text = text

DisplayInv == DisplayShape /\ CopiedSoFar /\ CopiedAll /\ SettledText

-----------------------------------------------------------------------------
\* A release leaves a unit in a semaphore that nobody waits for.
LEMMA ReleaseLeavesUnit ==
    ASSUME NEW sem \in SemOf("dst_show"), sem.susp = << >>
    PROVE  /\ SemRelease(sem) \in SemOf("dst_show")
           /\ SemRelease(sem).susp = << >>
           /\ SemRelease(sem).value # 0
BY DEF SemRelease, SemOf

\* Two buffers that agree everywhere are equal.
LEMMA BufferEqual ==
    ASSUME NEW s \in Buffer, NEW t \in Buffer, \A j \in Cell : s[j] = t[j]
    PROVE  s = t
BY DEF Buffer

\* The initial states satisfy the invariant.
LEMMA InitDisplay == Init => DisplayInv
<1> SUFFICES ASSUME Init
             PROVE  DisplayInv
  OBVIOUS
<1>1. oled_sem_event = [value |-> 1, susp |-> << >>]
  BY DEF Init, SemInit
<1>2. 0 \in Cell /\ Empty \in Buffer
  BY DEF Cell, Empty, Buffer
<1>3. DisplayShape
  BY <1>1, <1>2 DEF Init, DisplayShape, SemOf
<1>. QED
  BY <1>1, <1>3 DEF DisplayInv, CopiedSoFar, CopiedAll, SettledText

\* One character of the copy.
LEMMA CopyCellKeeps ==
    ASSUME DisplayInv, CopyCell
    PROVE  DisplayInv'
<1>1. /\ text \in Text /\ text \in Buffer /\ d_text \in Buffer /\ k \in Cell
      /\ pc = "copy" /\ UNCHANGED <<text, oled_sem_event, width>>
      /\ \A j, l \in Cell : j < l /\ text[j] = NUL => text[l] = NUL
  BY DEF DisplayInv, DisplayShape, CopyCell, Text
<1>2. CASE text[k] = NUL
  <2>1. /\ d_text' = [j \in Cell |-> IF j >= k THEN NUL ELSE d_text[j]]
        /\ pc' = "measure" /\ k' = k
    BY <1>2 DEF CopyCell
  <2>2. d_text' \in Buffer
    BY <1>1, <2>1 DEF Buffer
  <2>3. DisplayShape'
    BY <1>1, <2>1, <2>2 DEF DisplayInv, DisplayShape
  <2>4. ASSUME oled_sem_event.value = 0
        PROVE  d_text' = text
    <3>1. \A j \in Cell : j >= k => text[j] = NUL
      BY <1>1, <1>2 DEF Cell
    <3>2. \A j \in Cell : ~(j >= k) => d_text[j] = text[j]
      BY <1>1, <2>4 DEF DisplayInv, CopiedSoFar, Cell
    <3>3. \A j \in Cell : d_text'[j] = text[j]
      BY <2>1, <3>1, <3>2
    <3>. QED
      BY <1>1, <2>2, <3>3, BufferEqual
  <2>. QED
    BY <1>1, <2>1, <2>3, <2>4 DEF DisplayInv, CopiedSoFar, CopiedAll, SettledText
<1>3. CASE text[k] # NUL
  <2>1. /\ d_text' = [d_text EXCEPT ![k] = text[k]]
        /\ \/ k + 1 = MAX_STR /\ pc' = "measure" /\ k' = k
           \/ k + 1 # MAX_STR /\ pc' = "copy" /\ k' = k + 1
    BY <1>1, <1>3 DEF CopyCell
  <2>2. d_text' \in Buffer /\ k' \in Cell
    BY <1>1, <2>1 DEF Buffer, Cell
  <2>3. DisplayShape'
    BY <1>1, <2>2 DEF DisplayInv, DisplayShape
  <2>4. ASSUME oled_sem_event.value = 0
        PROVE  \A j \in Cell : j <= k => d_text'[j] = text[j] /\ text[j] # NUL
    <3>1. \A j \in Cell : j < k => d_text[j] = text[j] /\ text[j] # NUL
      BY <1>1, <2>4 DEF DisplayInv, CopiedSoFar
    <3>2. \A j \in Cell : d_text'[j] = IF j = k THEN text[k] ELSE d_text[j]
      BY <1>1, <2>1 DEF Buffer
    <3>. QED
      BY <1>1, <1>3, <3>1, <3>2 DEF Cell
  <2>5. CopiedSoFar'
    BY <1>1, <2>1, <2>4 DEF CopiedSoFar, Cell
  <2>6. CopiedAll'
    <3> SUFFICES ASSUME oled_sem_event.value = 0, pc' = "measure"
                 PROVE  d_text' = text
      BY <1>1 DEF CopiedAll
    <3>1. \A j \in Cell : d_text'[j] = text[j]
      BY <1>1, <2>1, <2>4 DEF Cell
    <3>. QED
      BY <1>1, <2>2, <3>1, BufferEqual
  <2>7. SettledText'
    BY <2>1 DEF SettledText
  <2>. QED
    BY <2>3, <2>5, <2>6, <2>7 DEF DisplayInv
<1>. QED
  BY <1>2, <1>3

\* Every step preserves the invariant.
LEMMA NextDisplay == DisplayInv /\ [Next]_vars => DisplayInv'
<1> SUFFICES ASSUME DisplayInv, [Next]_vars
             PROVE  DisplayInv'
  OBVIOUS
<1> USE DEF DisplayInv, DisplayShape, CopiedSoFar, CopiedAll, SettledText
<1>1. ASSUME NEW s \in Text, u8g2_get_txt(s)
      PROVE  DisplayInv'
  BY <1>1, ReleaseLeavesUnit DEF u8g2_get_txt
<1>2. ASSUME NEW m \in {"static", "dynamic"}, SetMode(m)
      PROVE  DisplayInv'
  BY <1>2 DEF SetMode
<1>3. CASE Draw
  BY <1>3 DEF Draw
<1>4. CASE Take
  <2>1. CASE oled_sem_event.value > 0
    <3>1. /\ oled_sem_event' \in SemOf("dst_show") /\ oled_sem_event'.susp = << >>
          /\ pc' = "clear" /\ UNCHANGED <<text, d_text, k>>
      BY <1>4, <2>1 DEF Take, SemTake, SemOf
    <3>. QED
      BY <3>1
  <2>2. CASE ~(oled_sem_event.value > 0)
    BY <1>4, <2>2 DEF Take, SemOf
  <2>. QED
    BY <2>1, <2>2
<1>5. CASE Clear
  <2>1. 0 \in Cell /\ Empty \in Buffer /\ \A j \in Cell : ~(j < 0)
    BY DEF Cell, Empty, Buffer
  <2>. QED
    BY <1>5, <2>1 DEF Clear
<1>6. CASE Measure
  BY <1>6 DEF Measure
<1>7. CASE Wake
  BY <1>7 DEF Wake
<1>8. CASE UNCHANGED vars
  BY <1>8 DEF vars
<1>. QED
  BY <1>1, <1>2, <1>3, <1>4, <1>5, <1>6, <1>7, <1>8, CopyCellKeeps DEF Next, u8g2_dst_thread

(***************************************************************************)
(* u8g2_dst_thread never settles on anything but the last text received,   *)
(* whenever and however often u8g2_get_txt interrupts its copy.            *)
(***************************************************************************)
THEOREM DisplaySettlesOnText == Spec => []SettledText
<1>1. DisplayInv => SettledText
  BY DEF DisplayInv
<1>. QED
  BY <1>1, InitDisplay, NextDisplay, PTL DEF Spec

-----------------------------------------------------------------------------
\* The rest of the type invariant.
DisplayRange ==
    /\ mode \in {"static", "dynamic"}
    /\ width \in 0 .. UintMod - 1
    /\ offset \in 0 .. UintMod - 1
    /\ pc \in {"draw", "take", "clear", "copy", "measure", "sleep"}

\* A width is a u8g2_uint_t, however many glyphs the text has.
LEMMA WidthType ==
    ASSUME NEW s
    PROVE  getUTF8Width(s) \in 0 .. UintMod - 1
<1> DEFINE T == {j \in Cell : s[j] # NUL}
           c == Cardinality(T)
<1>1. IsFiniteSet(Cell)
  BY FS_Interval DEF Cell
<1>2. c \in Nat
  BY <1>1, FS_Subset, FS_CardinalityType
<1> HIDE DEF T, c
<1>3. GlyphWidth * c \in Nat
  BY <1>2, PixelAssumption
<1>4. getUTF8Width(s) = (GlyphWidth * c) % UintMod
  BY DEF getUTF8Width, c, T
<1> DEFINE g == GlyphWidth * c
<1> HIDE DEF g
<1>5. g % UintMod \in 0 .. UintMod - 1
  BY <1>3, PixelAssumption DEF g
<1>. QED
  BY <1>4, <1>5 DEF g

\* The offset stays a u8g2_uint_t when it runs below zero.
LEMMA ScrolledType ==
    ASSUME NEW o \in 0 .. UintMod - 1
    PROVE  Scrolled(o) \in 0 .. UintMod - 1
<1>1. (o - Scroll) % UintMod \in 0 .. UintMod - 1 /\ 0 \in 0 .. UintMod - 1
  BY PixelAssumption
<1>. QED
  BY <1>1 DEF Scrolled

\* Every step keeps the range of the variables.
LEMMA NextRange == DisplayRange /\ [Next]_vars => DisplayRange'
<1> SUFFICES ASSUME DisplayRange, [Next]_vars
             PROVE  DisplayRange'
  OBVIOUS
<1> USE DEF DisplayRange
<1>1. ASSUME NEW s \in Text, u8g2_get_txt(s)
      PROVE  DisplayRange'
  BY <1>1 DEF u8g2_get_txt
<1>2. ASSUME NEW m \in {"static", "dynamic"}, SetMode(m)
      PROVE  DisplayRange'
  BY <1>2 DEF SetMode
<1>3. CASE Draw
  BY <1>3, ScrolledType DEF Draw
<1>4. CASE Take
  BY <1>4 DEF Take
<1>5. CASE Clear
  BY <1>5 DEF Clear
<1>6. CASE CopyCell
  BY <1>6 DEF CopyCell
<1>7. CASE Measure
  BY <1>7, WidthType DEF Measure
<1>8. CASE Wake
  BY <1>8 DEF Wake
<1>9. CASE UNCHANGED vars
  BY <1>9 DEF vars
<1>. QED
  BY <1>1, <1>2, <1>3, <1>4, <1>5, <1>6, <1>7, <1>8, <1>9 DEF Next, u8g2_dst_thread

\* The offset and the width stay within u8g2_uint_t, and the copy within its buffer.
THEOREM DisplayTypeCorrect == Spec => []TypeOK
<1>1. Init => DisplayRange
  BY PixelAssumption DEF Init, DisplayRange
<1>2. DisplayInv /\ DisplayRange => TypeOK
  BY DEF DisplayInv, DisplayShape, DisplayRange, TypeOK
<1>. QED
  BY <1>1, <1>2, InitDisplay, NextDisplay, NextRange, PTL DEF Spec
=============================================================================
