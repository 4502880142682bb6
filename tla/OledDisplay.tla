----------------------------- MODULE OledDisplay -----------------------------
(***************************************************************************)
(* What the display shows (applications/oled_btn.cpp): the thread          *)
(* "oled_text" (u8g2_get_txt) writes a new text and says so with the       *)
(* semaphore oled_sem_event; the thread "dst_show" (u8g2_dst_thread) draws *)
(* a frame, then takes the semaphore without waiting and, if it got a      *)
(* unit, copies the text to its own buffer d_text and measures it.         *)
(*                                                                         *)
(* "oled_text" (priority 20) and "btn_ctrl" (21) outrank "dst_show" (23):  *)
(* they can interrupt it between any two steps, even in the middle of the  *)
(* copy, and are never interrupted by it, so that what they do in one      *)
(* round is one action.  How a message gets to "oled_text" is in           *)
(* BlePipeline, how a press of the button sets the mode in ButtonMode, and *)
(* changeTime shares nothing with the state here.                          *)
(***************************************************************************)
EXTENDS Integers, FiniteSets, RtSemaphore

CONSTANTS
    Glyph,      \* what a cell of a text can hold besides NUL
    NUL,        \* '\0'
    MAX_STR,    \* cells of text and d_text: 3 * 20 + 1
    GlyphWidth, \* pixels per glyph (the font's business)
    Scroll,     \* pixels per frame: 4
    UintMod     \* u8g2_uint_t counts modulo this

ASSUME TextAssumption == NUL \notin Glyph /\ MAX_STR \in Nat \ {0}
ASSUME PixelAssumption ==
    GlyphWidth \in Nat \ {0} /\ Scroll \in Nat \ {0} /\ UintMod \in Nat \ {0}

VARIABLES
    text,           \* the text last received, written by "oled_text"
    oled_sem_event, \* released for every text received
    mode,           \* written by "btn_ctrl"
    d_text,         \* the text drawn in static mode
    width,          \* the width d_text had when it was measured
    offset,         \* where the scrolling text starts
    pc, k           \* where u8g2_dst_thread is, and where its copy is

vars == <<text, oled_sem_event, mode, d_text, width, offset, pc, k>>

Cell == 0 .. MAX_STR - 1
Buffer == [Cell -> Glyph \cup {NUL}]
Empty == [j \in Cell |-> NUL]

\* A text as rt_strncpy leaves it: padded with NUL behind its last glyph.
Text == {s \in Buffer : \A j, l \in Cell : j < l /\ s[j] = NUL => s[l] = NUL}

TypeOK ==
    /\ text \in Text
    /\ oled_sem_event \in SemOf("dst_show")
    /\ mode \in {"static", "dynamic"}
    /\ d_text \in Buffer
    /\ width \in 0 .. UintMod - 1
    /\ offset \in 0 .. UintMod - 1
    /\ pc \in {"draw", "take", "clear", "copy", "measure", "sleep"}
    /\ k \in Cell

\* u8g2.getUTF8Width (library), as a u8g2_uint_t
getUTF8Width(s) == (GlyphWidth * Cardinality({j \in Cell : s[j] # NUL})) % UintMod

\* button_u8g2_init writes the first text and creates the semaphore with value
\* 1; u8g2_dst_thread measures the empty d_text.
Init ==
    /\ text \in Text \ {Empty}
    /\ oled_sem_event = SemInit(1)
    /\ mode = "static"
    /\ d_text = Empty
    /\ width = 0
    /\ offset = 0
    /\ pc = "draw"
    /\ k = 0

-----------------------------------------------------------------------------
(* Forms the code could have had by mistake.                               *)

\* The text is measured and taken for done, whatever came in the meantime.
MeasureResets ==
    /\ pc = "measure"
    /\ width' = getUTF8Width(d_text)
    /\ oled_sem_event' = SemReset(oled_sem_event, 0)
    /\ pc' = "sleep"
    /\ UNCHANGED <<text, mode, d_text, offset, k>>

\* The offset is not compared with the width.
ScrolledOn(o) == (o - Scroll) % UintMod
-----------------------------------------------------------------------------

\* One round of u8g2_get_txt: the text is replaced and a unit released.
u8g2_get_txt(s) ==
    /\ text' = s
    /\ oled_sem_event' = SemRelease(oled_sem_event)
    /\ UNCHANGED <<mode, d_text, width, offset, pc, k>>

\* btn_ctrl_entry assigns the mode.
SetMode(m) ==
    /\ mode' = m
    /\ UNCHANGED <<text, oled_sem_event, d_text, width, offset, pc, k>>

\* offset -= 4; if (offset < -width) offset = 0, in u8g2_uint_t
Scrolled(o) ==
    LET next == (o - Scroll) % UintMod
    IN  IF next < (-width) % UintMod THEN 0 ELSE next

\* The switch: a frame with d_text, or one with text at offset, which moves on.
Draw ==
    /\ pc = "draw"
    /\ offset' = IF mode = "dynamic" THEN Scrolled(offset) ELSE offset
    /\ pc' = "take"
    /\ UNCHANGED <<text, oled_sem_event, mode, d_text, width, k>>

\* rt_sem_take(oled_sem_event, RT_WAITING_NO)
Take ==
    /\ pc = "take"
    /\ IF oled_sem_event.value > 0
       THEN /\ oled_sem_event' = SemTake(oled_sem_event, "dst_show")
            /\ pc' = "clear"
       ELSE /\ pc' = "sleep"
            /\ UNCHANGED oled_sem_event
    /\ UNCHANGED <<text, mode, d_text, width, offset, k>>

\* rt_memset(d_text, 0, MAX_STR)
Clear ==
    /\ pc = "clear"
    /\ d_text' = Empty
    /\ k' = 0
    /\ pc' = "copy"
    /\ UNCHANGED <<text, oled_sem_event, mode, width, offset>>

\* One character of rt_strncpy(d_text, text, MAX_STR): behind a NUL the rest
\* is padded without looking at text again.
CopyCell ==
    /\ pc = "copy"
    /\ IF text[k] = NUL
       THEN /\ d_text' = [j \in Cell |-> IF j >= k THEN NUL ELSE d_text[j]]
            /\ pc' = "measure"
            /\ UNCHANGED k
       ELSE /\ d_text' = [d_text EXCEPT ![k] = text[k]]
            /\ IF k + 1 = MAX_STR
               THEN pc' = "measure" /\ UNCHANGED k
               ELSE k' = k + 1 /\ UNCHANGED pc
    /\ UNCHANGED <<text, oled_sem_event, mode, width, offset>>

\* width = u8g2.getUTF8Width(d_text)
Measure ==
    /\ pc = "measure"
    /\ width' = getUTF8Width(d_text)
    /\ pc' = "sleep"
    /\ UNCHANGED <<text, oled_sem_event, mode, d_text, offset, k>>

\* rt_thread_mdelay(10) is over
Wake ==
    /\ pc = "sleep"
    /\ pc' = "draw"
    /\ UNCHANGED <<text, oled_sem_event, mode, d_text, width, offset, k>>

u8g2_dst_thread == Draw \/ Take \/ Clear \/ CopyCell \/ Measure \/ Wake

Next ==
    \/ \E s \in Text : u8g2_get_txt(s)
    \/ \E m \in {"static", "dynamic"} : SetMode(m)
    \/ u8g2_dst_thread

Spec == Init /\ [][Next]_vars

(***************************************************************************)
(* Fairness.  The threads that outrank dst_show block in every round, so   *)
(* it gets the processor, and the timer ends its sleep.                    *)
(***************************************************************************)
FairSpec == Spec /\ WF_vars(u8g2_dst_thread)

-----------------------------------------------------------------------------
(***************************************************************************)
(* A copy that was interrupted is made again.  Whenever dst_show is not in *)
(* the middle of taking over a text and no unit is left, d_text and width  *)
(* are those of the text last received: a text that comes while another    *)
(* one is being copied is neither lost nor left mixed with it.             *)
(***************************************************************************)
SettledText ==
    oled_sem_event.value = 0 /\ pc \notin {"clear", "copy", "measure"} =>
        d_text = text /\ width = getUTF8Width(text)

(***************************************************************************)
(* Once the peer has settled on a text, even if it goes on sending it, all *)
(* frames from some time on are drawn with a d_text that holds it.         *)
(***************************************************************************)
TextIsShown ==
    \A s \in Text : <>[](text = s) => <>[](pc = "draw" => d_text = s)

(***************************************************************************)
(* Wherever other texts have left the offset: while one text that is not   *)
(* empty goes on scrolling, the offset gets into the range of that text    *)
(* (from its width to the left of the display up to its edge) for good.    *)
(***************************************************************************)
ScrollSettles ==
    (\E s \in Text \ {Empty} : <>[](text = s /\ mode = "dynamic")) =>
        <>[](offset = 0 \/ offset >= UintMod - width)
=============================================================================
