-------------------------- MODULE BlePipelineProofs --------------------------
(***************************************************************************)
(* Two results about data_parsing and those who receive from it.           *)
(*                                                                         *)
(* The parser leaves the current line in the buffer, closed behind it,     *)
(* whatever was there before.                                              *)
(*                                                                         *)
(* The hand-over of the one buffer by its address is safe for main and for *)
(* oled_text, whatever the peer sends and however long lines, buffer and   *)
(* mailboxes are, BECAUSE both outrank the thread "ble".                   *)
(*                                                                         *)
(* The invariant says why: "ble" only runs while such a receiver is not    *)
(* yet up, with nothing but early mails in its box, or is suspended on a   *)
(* box that is empty.  In both cases it may write the buffer.              *)
(***************************************************************************)
EXTENDS BlePipeline, TLAPS, SequenceTheorems, WellFoundedInduction

USE CharAssumption, MaxLenAssumption, MbSizeAssumption

-----------------------------------------------------------------------------
(***************************************************************************)
(* The parser: BufferHoldsLine for every buffer length and lines of every  *)
(* length.  The invariant is made inductive by the types and by what i is  *)
(* while the message is being sent (one past the terminator).              *)
(***************************************************************************)

\* While a line is being sent i is one past the terminator.
IndexAfterTerminator == pc = "send" => i = Len(Kept(line)) + 1

LineInv == ParserTypeOK /\ BufferHoldsLine /\ IndexAfterTerminator

\* How much of a line is kept, and which characters.
LEMMA KeptProperties ==
    ASSUME NEW s \in Seq(Char)
    PROVE  /\ Len(s) <= ONE_DATA_MAXLEN => Len(Kept(s)) = Len(s)
           /\ Len(s) > ONE_DATA_MAXLEN => Len(Kept(s)) = ONE_DATA_MAXLEN
           /\ \A k \in 1 .. Len(Kept(s)) :
                 Kept(s)[k] = IF k = ONE_DATA_MAXLEN THEN s[Len(s)] ELSE s[k]
<1>1. Len(s) \in Nat
  BY LenProperties
<1>2. CASE Len(s) <= ONE_DATA_MAXLEN
  BY <1>1, <1>2 DEF Kept
<1>3. CASE ~(Len(s) <= ONE_DATA_MAXLEN)
  <2> DEFINE t == [k \in 1 .. ONE_DATA_MAXLEN |->
                      IF k = ONE_DATA_MAXLEN THEN s[Len(s)] ELSE s[k]]
  <2>1. Kept(s) = t
    BY <1>3 DEF Kept
  <2>2. t \in Seq(Char) /\ Len(t) = ONE_DATA_MAXLEN
    <3>1. s[Len(s)] \in Char /\ \A k \in 1 .. ONE_DATA_MAXLEN : s[k] \in Char
      BY <1>1, <1>3, LenProperties
    <3>2. t \in [1 .. ONE_DATA_MAXLEN -> Char]
      BY <3>1
    <3>3. t \in Seq(Char)
      BY <3>2
    <3>. QED
      BY <3>2, <3>3, LenProperties
  <2>3. \A k \in 1 .. ONE_DATA_MAXLEN : t[k] = IF k = ONE_DATA_MAXLEN THEN s[Len(s)] ELSE s[k]
    OBVIOUS
  <2> HIDE DEF t
  <2>. QED
    BY <1>1, <1>3, <2>1, <2>2, <2>3
<1>. QED
  BY <1>2, <1>3

\* Nothing is kept of an empty line.
LEMMA KeptEmpty == Len(Kept(<< >>)) = 0
<1>1. Len(<< >>) = 0
  BY EmptySeq
<1>2. Kept(<< >>) = << >>
  BY <1>1 DEF Kept
<1>. QED
  BY <1>1, <1>2

\* The initial states of the specification satisfy the invariant.
LEMMA InitLine == ParserInit => LineInv
<1> SUFFICES ASSUME ParserInit
             PROVE  LineInv
  OBVIOUS
<1>1. << >> \in Seq(Char) /\ << >> \in Seq(Box) /\ Len(<< >>) = 0
  BY EmptySeq
<1>2. Len(Kept(line)) = 0
  BY KeptEmpty DEF ParserInit
<1>3. ParserTypeOK
  BY <1>1 DEF ParserInit, ParserTypeOK
<1>. QED
  BY <1>2, <1>3 DEF ParserInit, LineInv, BufferHoldsLine, IndexAfterTerminator

\* The boxes chosen for a message are a sequence of boxes.
LEMMA RouteType == \A s : Route(s) \in Seq(Box)
<1>1. /\ <<"ble_mb_6288", "ble_mb_oled">> \in Seq(Box)
      /\ <<"ble_mb_time">> \in Seq(Box)
      /\ <<"ble_mb_6288">> \in Seq(Box)
  BY DEF Box
<1>. QED
  BY <1>1 DEF Route

\* Storing a character keeps the buffer in step with the line.
LEMMA StoreLine ==
    ASSUME LineInv, StoreChar
    PROVE  LineInv'
<1> DEFINE n == Len(Kept(line))
           N == ONE_DATA_MAXLEN
           k0 == IF i >= N - 1 THEN N - 1 ELSE i
<1>1. /\ data \in [Cell -> Char] /\ ch \in Char /\ line \in Seq(Char) /\ i = n
      /\ \A k \in 1 .. n : data[k - 1] = Kept(line)[k]
      /\ data' = [data EXCEPT ![k0] = ch] /\ i' = k0 + 1
      /\ line' = Append(line, ch)
      /\ pc' = "getc" /\ UNCHANGED <<ch, todo>>
  BY DEF LineInv, ParserTypeOK, BufferHoldsLine, StoreChar, Store
<1>2. /\ Len(line) \in Nat
      /\ line' \in Seq(Char) /\ Len(line') = Len(line) + 1
      /\ \A k \in 1 .. Len(line) : line'[k] = line[k]
      /\ line'[Len(line) + 1] = ch
  BY <1>1, LenProperties, AppendProperties
<1>3. /\ Len(line) <= N => n = Len(line)
      /\ Len(line) > N => n = N
      /\ \A k \in 1 .. n : Kept(line)[k] = IF k = N THEN line[Len(line)] ELSE line[k]
  BY <1>1, KeptProperties
<1>4. /\ Len(line') <= N => Len(Kept(line')) = Len(line')
      /\ Len(line') > N => Len(Kept(line')) = N
      /\ \A k \in 1 .. Len(Kept(line')) :
            Kept(line')[k] = IF k = N THEN line'[Len(line')] ELSE line'[k]
  BY <1>2, KeptProperties
<1> HIDE DEF n
<1>5. k0 \in Cell /\ i' = Len(Kept(line')) /\ k0 \in 0 .. N - 1
  <2>1. n \in 0 .. N /\ i = n
    BY <1>1, <1>2, <1>3
  <2>2. k0 \in 0 .. N - 1 /\ i' = k0 + 1
    <3>1. k0 \in 0 .. N - 1
      BY <2>1
    <3>2. i' = k0 + 1
      BY <1>1
    <3>. QED
      BY <3>1, <3>2
  <2>3. CASE Len(line) < N
    BY <1>2, <1>3, <1>4, <2>1, <2>2, <2>3 DEF Cell
  <2>4. CASE ~(Len(line) < N)
    BY <1>2, <1>3, <1>4, <2>1, <2>2, <2>4 DEF Cell
  <2>. QED
    BY <2>3, <2>4
<1>6. ParserTypeOK'
  BY <1>1, <1>2, <1>5 DEF LineInv, ParserTypeOK, Cell
<1>7. \A k \in 1 .. k0 : data'[k - 1] = data[k - 1]
  BY <1>1, <1>5 DEF Cell
<1>8. data'[k0] = ch
  BY <1>1, <1>5
<1>9. ASSUME NEW k \in 1 .. Len(Kept(line'))
      PROVE  data'[k - 1] = Kept(line')[k]
  <2>1. k \in 1 .. k0 + 1
    BY <1>1, <1>5
  <2>2. CASE k = k0 + 1
    <3>1. Kept(line')[k] = ch
      BY <1>1, <1>2, <1>3, <1>4, <1>5, <2>2
    <3>. QED
      BY <1>5, <1>8, <2>2, <3>1
  <2>3. CASE k # k0 + 1
    <3>1. k \in 1 .. k0 /\ k \in 1 .. n /\ k < N /\ k \in 1 .. Len(line)
      BY <1>1, <1>2, <1>3, <1>5, <2>1, <2>3
    <3>2. Kept(line)[k] = line[k] /\ Kept(line')[k] = line'[k] /\ line'[k] = line[k]
      BY <1>2, <1>3, <1>4, <3>1
    <3>. QED
      BY <1>1, <1>7, <3>1, <3>2
  <2>. QED
    BY <2>2, <2>3
<1>. QED
  BY <1>1, <1>5, <1>6, <1>9 DEF LineInv, BufferHoldsLine, IndexAfterTerminator

\* Closing the string leaves the characters before it alone.
LEMMA EndLineLine ==
    ASSUME LineInv, EndLine
    PROVE  LineInv'
<1> DEFINE n == Len(Kept(line))
           N == ONE_DATA_MAXLEN
<1>1. /\ data \in [Cell -> Char] /\ line \in Seq(Char) /\ i = n
      /\ \A k \in 1 .. n : data[k - 1] = Kept(line)[k]
      /\ data' = [data EXCEPT ![n] = NUL] /\ i' = n + 1
      /\ pc' = "send" /\ UNCHANGED <<ch, line>>
  BY DEF LineInv, ParserTypeOK, BufferHoldsLine, EndLine, Terminate
<1>2. n \in 0 .. N
  BY <1>1, KeptProperties, LenProperties
<1>3. todo' \in Seq(Box)
  BY RouteType DEF EndLine
<1> HIDE DEF n
<1>4. data'[n] = NUL /\ \A k \in 1 .. n : data'[k - 1] = data[k - 1]
  BY <1>1, <1>2 DEF Cell
<1>5. ParserTypeOK'
  BY <1>1, <1>2, <1>3 DEF LineInv, ParserTypeOK, Cell
<1>6. Len(Kept(line))' = n /\ Kept(line)' = Kept(line)
  BY <1>1 DEF n
<1>. QED
  BY <1>1, <1>4, <1>5, <1>6 DEF LineInv, BufferHoldsLine, IndexAfterTerminator

\* Every step preserves the invariant.
LEMMA NextLine == LineInv /\ [ParserNext]_parserVars => LineInv'
<1> SUFFICES ASSUME LineInv, [ParserNext]_parserVars
             PROVE  LineInv'
  OBVIOUS
<1>1. ASSUME NEW c \in Input, GetChar(c)
      PROVE  LineInv'
  <2>1. UNCHANGED <<data, i, todo, line>> /\ pc = "getc" /\ pc' = "parse" /\ ch' \in Char
    BY <1>1 DEF GetChar
  <2>. QED
    BY <2>1 DEF LineInv, ParserTypeOK, BufferHoldsLine, IndexAfterTerminator
<1>2. CASE Send
  <2>1. UNCHANGED <<data, i, ch, pc, line>> /\ todo' \in Seq(Box)
    BY <1>2 DEF Send, LineInv, ParserTypeOK
  <2>. QED
    BY <2>1 DEF LineInv, ParserTypeOK, BufferHoldsLine, IndexAfterTerminator
<1>3. CASE Restart
  <2>1. << >> \in Seq(Char) /\ Len(<< >>) = 0
    BY EmptySeq
  <2>2. UNCHANGED <<data, ch, todo>> /\ i' = 0 /\ pc' = "getc" /\ line' = << >>
    BY <1>3 DEF Restart
  <2>3. Len(Kept(line')) = 0
    BY <2>2, KeptEmpty
  <2>4. ParserTypeOK'
    BY <2>1, <2>2 DEF LineInv, ParserTypeOK
  <2>. QED
    BY <2>2, <2>3, <2>4 DEF LineInv, BufferHoldsLine, IndexAfterTerminator
<1>4. CASE UNCHANGED parserVars
  BY <1>4 DEF parserVars, LineInv, ParserTypeOK, BufferHoldsLine, IndexAfterTerminator
<1>. QED
  BY <1>1, StoreLine, EndLineLine, <1>2, <1>3, <1>4 DEF ParserNext

(***************************************************************************)
(* Whatever is received, the buffer of data_parsing holds what is kept of  *)
(* the current line and nothing else before the cell i, and the string is  *)
(* closed right behind it while its mails are sent.                        *)
(***************************************************************************)
THEOREM ParserBufferHoldsLine == ParserSpec => []BufferHoldsLine
<1>1. LineInv => BufferHoldsLine
  BY DEF LineInv
<1>. QED
  BY <1>1, InitLine, NextLine, PTL DEF ParserSpec
-----------------------------------------------------------------------------
(* The hand-over of the buffer.                                            *)

\* The receivers that wait for their mails.
Waiting == {"main", "oled_text"}

\* The shape of the state, as far as the argument needs it.
Shape ==
    /\ mb \in [Box -> Mailbox]
    /\ at \in [Receiver -> Place]
    /\ held \in [Receiver -> Mail]
    /\ \A r \in Receiver : mb[BoxOf[r]].susp \in {<< >>, <<r>>}

\* A suspended receiver has an empty box and is in rt_mb_recv.
SleepsOnEmpty(r) ==
    mb[BoxOf[r]].susp # << >> => at[r] = "wait" /\ mb[BoxOf[r]].mails = << >>

\* Before a receiver is up its box holds early mails only.
EarlyUntilUp(r) ==
    ~InService(BoxOf[r]) =>
        \A k \in 1 .. Len(mb[BoxOf[r]].mails) : mb[BoxOf[r]].mails[k].early

\* The mails in a box are what the buffer holds ...
BoxFresh(r) ==
    \A k \in 1 .. Len(mb[BoxOf[r]].mails) :
        ~mb[BoxOf[r]].mails[k].early => mb[BoxOf[r]].mails[k].str = CString(data)

\* ... and so is the mail that is about to be copied.
CopyFresh(r) == at[r] = "copy" /\ ~held[r].early => CString(data) = held[r].str

BoxInv(r) == SleepsOnEmpty(r) /\ EarlyUntilUp(r) /\ BoxFresh(r) /\ CopyFresh(r)

\* The display threads are started after the display has come up.
StartOrder == at["main"] \in {"init", "begin"} => at["oled_text"] = "dormant"

PipeInv == LineInv /\ Shape /\ StartOrder /\ \A r \in Waiting : BoxInv(r)

-----------------------------------------------------------------------------
\* A buffer that has a NUL holds a C string.
LEMMA CStringType ==
    ASSUME NEW d \in [Cell -> Char], NEW n \in Cell, d[n] = NUL
    PROVE  CString(d) \in Seq(Char)
<1> DEFINE T == {m \in Cell : d[m] = NUL}
           P(m) == d[m] = NUL /\ \A j \in Cell : j < m => d[j] # NUL
           end == CHOOSE m \in Cell : P(m)
<1>1. T \subseteq Nat /\ T # {}
  BY DEF Cell
<1>2. PICK m \in T : \A j \in T : ~(<<j, m>> \in OpToRel(<, Nat))
  BY <1>1, NatLessThanWellFounded, WFMin
<1>3. \A j \in T : ~(j < m)
  BY <1>1, <1>2 DEF OpToRel
<1>4. m \in Cell /\ P(m)
  BY <1>3
<1>5. end \in Cell
  BY <1>4
<1>6. CString(d) = [k \in 1 .. end |-> d[k - 1]]
  BY DEF CString
<1> HIDE DEF end
<1>7. end \in Nat /\ \A k \in 1 .. end : k - 1 \in Cell
  BY <1>5 DEF Cell
<1>8. [k \in 1 .. end |-> d[k - 1]] \in [1 .. end -> Char]
  BY <1>7
<1>. QED
  BY <1>6, <1>7, <1>8

\* While a message is being sent the buffer holds a C string.
LEMMA SentIsMail ==
    ASSUME LineInv, pc = "send"
    PROVE  CString(data) \in Seq(Char)
<1>1. Len(Kept(line)) \in Cell
  BY KeptProperties, LenProperties DEF LineInv, ParserTypeOK, Cell
<1>. QED
  BY <1>1, CStringType DEF LineInv, ParserTypeOK, BufferHoldsLine

\* Boxes and receivers belong to each other.
LEMMA BoxesAndReceivers ==
    /\ \A r \in Receiver : BoxOf[r] \in Box /\ ReceiverOf[BoxOf[r]] = r
    /\ \A b \in Box : ReceiverOf[b] \in Receiver /\ BoxOf[ReceiverOf[b]] = b
    /\ Waiting \subseteq Receiver
BY DEF BoxOf, ReceiverOf, Box, Receiver, Waiting

\* Who may run: while "ble" runs, a waiting receiver is not up or suspended.
LEMMA BleRunsAlone ==
    ASSUME Shape, CanRun("ble"), NEW r \in Waiting
    PROVE  at[r] \in {"begin", "dormant"} \/ mb[BoxOf[r]].susp # << >>
<1>1. ~Ready(r)
  BY DEF CanRun, Prio, Waiting, Thread, Receiver
<1>2. at[r] \in {"begin", "dormant"} \/ IsSuspended(mb[BoxOf[r]], r)
  BY <1>1 DEF Ready, Waiting
<1>. QED
  BY <1>2 DEF IsSuspended

\* A waiting receiver that runs is not in its box's list.
LEMMA RunnerNotSuspended ==
    ASSUME Shape, NEW r \in Waiting, CanRun(r)
    PROVE  mb[BoxOf[r]].susp = << >>
<1>1. ~IsSuspended(mb[BoxOf[r]], r)
  BY DEF CanRun, Ready, Waiting
<1>2. mb[BoxOf[r]].susp \in {<< >>, <<r>>}
  BY BoxesAndReceivers DEF Shape
<1>. QED
  BY <1>1, <1>2 DEF IsSuspended

\* What a step leaves alone of a receiver stays as good as it was.
LEMMA Untouched ==
    ASSUME NEW r \in Waiting, BoxInv(r),
           mb'[BoxOf[r]] = mb[BoxOf[r]], at'[r] = at[r], held'[r] = held[r], data' = data
    PROVE  BoxInv(r)'
<1>1. ReceiverOf[BoxOf[r]] = r
  BY BoxesAndReceivers
<1>. QED
  BY <1>1 DEF BoxInv, SleepsOnEmpty, EarlyUntilUp, BoxFresh, CopyFresh, InService

\* One mailbox changes, and perhaps where its receiver is.
LEMMA ShapeKept ==
    ASSUME Shape, NEW r \in Receiver, NEW m \in Mailbox, m.susp \in {<< >>, <<r>>},
           mb' = [mb EXCEPT ![BoxOf[r]] = m],
           at' \in [Receiver -> Place], held' \in [Receiver -> Mail]
    PROVE  /\ Shape'
           /\ mb'[BoxOf[r]] = m
           /\ \A s \in Receiver : s # r => mb'[BoxOf[s]] = mb[BoxOf[s]]
<1>1. \A s \in Receiver : BoxOf[s] \in Box /\ (BoxOf[s] = BoxOf[r] => s = r)
  BY BoxesAndReceivers
<1>2. mb' \in [Box -> Mailbox]
  BY DEF Shape
<1>3. \A s \in Receiver : s # r => mb'[BoxOf[s]] = mb[BoxOf[s]]
  BY <1>1 DEF Shape
<1>4. mb'[BoxOf[r]] = m
  BY <1>1 DEF Shape
<1>5. \A s \in Receiver : mb'[BoxOf[s]].susp \in {<< >>, <<s>>}
  BY <1>3, <1>4 DEF Shape
<1>. QED
  BY <1>2, <1>3, <1>4, <1>5 DEF Shape

\* rt_mb_recv by a waiting receiver that is running.
LEMMA RecvKeeps ==
    ASSUME PipeInv, NEW r \in Waiting, Recv(r), CanRun(r), UNCHANGED parserVars,
           at[r] \in {"recv", "wait"}
    PROVE  Shape' /\ BoxInv(r)'
<1> DEFINE b == BoxOf[r]
           old == mb[b].mails
<1>1. /\ b \in Box /\ ReceiverOf[b] = r /\ r \in Receiver
      /\ \A s \in Receiver : BoxOf[s] = b => s = r
  BY BoxesAndReceivers
<1>2. /\ mb \in [Box -> Mailbox] /\ mb[b] \in Mailbox
      /\ at \in [Receiver -> Place] /\ held \in [Receiver -> Mail]
      /\ old \in Seq(Mail) /\ mb[b].susp = << >>
      /\ \A s \in Receiver : mb[BoxOf[s]].susp \in {<< >>, <<s>>}
      /\ data' = data
  <2>1. mb[b] \in Mailbox /\ mb[b].mails \in Seq(Mail)
    BY <1>1 DEF PipeInv, Shape, Mailbox
  <2>. QED
    BY <1>1, <2>1, RunnerNotSuspended DEF PipeInv, Shape, parserVars
<1>3. InService(b)
  BY <1>1 DEF InService
<1>4. BoxFresh(r)
  BY DEF PipeInv, BoxInv
<1>5. CASE old # << >>
  <2>1. /\ Head(old) \in Mail /\ Tail(old) \in Seq(Mail)
        /\ Head(old) = old[1] /\ Len(old) >= 1
        /\ Len(Tail(old)) = Len(old) - 1
        /\ \A k \in 1 .. Len(Tail(old)) : Tail(old)[k] = old[k + 1]
    BY <1>2, <1>5, HeadTailProperties, EmptySeq
  <2>2. /\ held' = [held EXCEPT ![r] = Head(old)]
        /\ mb' = [mb EXCEPT ![b] = [mb[b] EXCEPT !.mails = Tail(old)]]
        /\ at' = [at EXCEPT ![r] = "copy"]
    BY <1>5 DEF Recv, MbTaken
  <2>3. /\ mb'[b].mails = Tail(old) /\ mb'[b].susp = << >>
        /\ at'[r] = "copy" /\ held'[r] = Head(old)
    BY <1>1, <1>2, <2>2 DEF Mailbox
  <2>4. Shape'
    <3> DEFINE m == [mb[b] EXCEPT !.mails = Tail(old)]
    <3>1. m \in Mailbox /\ m.susp = << >>
      BY <1>2, <2>1 DEF Mailbox
    <3>2. at' \in [Receiver -> Place] /\ held' \in [Receiver -> Mail]
      BY <1>1, <1>2, <2>1, <2>2 DEF Place
    <3> HIDE DEF m
    <3>. QED
      BY <1>1, <2>2, <3>1, <3>2, ShapeKept DEF PipeInv, m
  <2>5. BoxFresh(r)'
    BY <1>2, <1>4, <2>1, <2>3 DEF BoxFresh
  <2>6. CopyFresh(r)'
    BY <1>2, <1>4, <2>1, <2>3 DEF BoxFresh, CopyFresh
  <2>7. InService(b)'
    BY <1>1, <2>3 DEF InService
  <2>. QED
    BY <2>3, <2>4, <2>5, <2>6, <2>7 DEF BoxInv, SleepsOnEmpty, EarlyUntilUp
<1>6. CASE old = << >>
  <2>1. /\ held' = held
        /\ mb' = [mb EXCEPT ![b] = [mb[b] EXCEPT !.susp = Append(mb[b].susp, r)]]
        /\ at' = [at EXCEPT ![r] = "wait"]
    BY <1>6 DEF Recv, MbWait, Suspended
  <2>2. Append(mb[b].susp, r) = <<r>>
    BY <1>2
  <2>3. /\ mb'[b].mails = << >> /\ mb'[b].susp = <<r>>
        /\ at'[r] = "wait"
    BY <1>1, <1>2, <1>6, <2>1, <2>2 DEF Mailbox
  <2>4. Shape'
    <3> DEFINE m == [mb[b] EXCEPT !.susp = Append(mb[b].susp, r)]
    <3>1. m \in Mailbox /\ m.susp = <<r>>
      BY <1>1, <1>2, <2>2 DEF Mailbox
    <3>2. at' \in [Receiver -> Place] /\ held' \in [Receiver -> Mail]
      BY <1>1, <1>2, <2>1 DEF Place
    <3> HIDE DEF m
    <3>. QED
      BY <1>1, <2>1, <3>1, <3>2, ShapeKept DEF PipeInv, m
  <2>5. Len(<< >>) = 0
    BY EmptySeq
  <2>. QED
    BY <2>3, <2>4, <2>5 DEF BoxInv, SleepsOnEmpty, EarlyUntilUp, BoxFresh, CopyFresh
<1>. QED
  BY <1>5, <1>6

\* A receiver goes from one place to another, and perhaps gives up its mail.
LEMMA MoveKeeps ==
    ASSUME PipeInv, NEW r \in Waiting, NEW p \in Place \ {"copy", "wait"}, at[r] # "wait",
           at' = [at EXCEPT ![r] = p],
           held' \in {held, [held EXCEPT ![r] = Early]},
           UNCHANGED <<mb, data>>,
           InService(BoxOf[r]) => p \notin {"init", "begin", "speech", "dormant"}
    PROVE  Shape' /\ \A s \in Waiting : BoxInv(s)'
<1>1. /\ \A s \in Waiting : s \in Receiver /\ BoxOf[s] \in Box /\ ReceiverOf[BoxOf[s]] = s
  BY BoxesAndReceivers
<1>2. Early \in Mail
  BY EmptySeq DEF Early, Mail
<1>3. /\ at \in [Receiver -> Place] /\ held \in [Receiver -> Mail]
      /\ at'[r] = p /\ \A s \in Receiver : s # r => at'[s] = at[s] /\ held'[s] = held[s]
  BY <1>1 DEF PipeInv, Shape
<1>4. Shape'
  BY <1>1, <1>2, <1>3 DEF PipeInv, Shape
<1>5. BoxInv(r)'
  BY <1>1, <1>3 DEF PipeInv, BoxInv, SleepsOnEmpty, EarlyUntilUp, BoxFresh, CopyFresh, InService
<1>6. ASSUME NEW s \in Waiting, s # r
      PROVE  BoxInv(s)'
  BY <1>1, <1>3, <1>6, Untouched DEF PipeInv
<1>. QED
  BY <1>4, <1>5, <1>6

\* The threads are started in order.
LEMMA StartOrderKept == PipeInv /\ [Next]_vars => StartOrder'
<1> SUFFICES ASSUME Shape, StartOrder, [Next]_vars
             PROVE  StartOrder'
  BY DEF PipeInv
<1>1. at \in [Receiver -> Place] /\ {"main", "oled_text", "dst_show"} = Receiver
  BY DEF Shape, Receiver
<1>2. CASE Main
  <2>1. CASE MainStartBle
    BY <1>1, <2>1 DEF MainStartBle, StartOrder
  <2>2. CASE MainStartDisplay
    BY <1>1, <2>2 DEF MainStartDisplay, StartOrder
  <2>3. CASE MainEnterLoop \/ MainCopy \/ MainSpeak
    BY <1>1, <2>3 DEF MainEnterLoop, MainCopy, MainSpeak, StartOrder
  <2>4. CASE MainRecv
    BY <1>1, <2>4 DEF MainRecv, Recv, StartOrder
  <2>. QED
    BY <1>2, <2>1, <2>2, <2>3, <2>4 DEF Main
<1>3. CASE OledText
  <2>1. at["oled_text"] # "dormant" /\ at'["main"] = at["main"]
    BY <1>1, <1>3 DEF OledText, TextRecv, TextCopy, Recv
  <2>. QED
    BY <2>1 DEF StartOrder
<1>4. CASE DstShow \/ ShowWake
  <2>1. at'["main"] = at["main"] /\ at'["oled_text"] = at["oled_text"]
    BY <1>1, <1>4 DEF DstShow, ShowPoll, ShowCopy, ShowDraw, ShowWake
  <2>. QED
    BY <2>1 DEF StartOrder
<1>5. CASE Ble \/ UNCHANGED vars
  BY <1>5 DEF Ble, BleSend, BleParse, vars, StartOrder
<1>. QED
  BY <1>2, <1>3, <1>4, <1>5 DEF Next

\* The steps of main.
LEMMA MainKeeps ==
    ASSUME PipeInv, Main
    PROVE  Shape' /\ \A s \in Waiting : BoxInv(s)'
<1>1. /\ "main" \in Waiting /\ "oled_text" \in Waiting /\ Waiting \subseteq Receiver
      /\ \A s \in Waiting : BoxOf[s] \in Box /\ ReceiverOf[BoxOf[s]] = s
  BY BoxesAndReceivers DEF Waiting
<1>2. UNCHANGED parserVars /\ data' = data
  BY DEF Main, parserVars
<1>3. CASE MainStartBle
  <2>1. ~InService(BoxOf["main"])
    BY <1>1, <1>3 DEF MainStartBle, InService
  <2>. QED
    BY <1>1, <1>2, <1>3, <2>1, MoveKeeps DEF MainStartBle, Place
<1>4. CASE MainStartDisplay
  <2>1. at["main"] = "begin" /\ at["oled_text"] = "dormant"
    BY <1>4 DEF MainStartDisplay, PipeInv, StartOrder
  <2>2. /\ at' \in [Receiver -> Place]
        /\ at'["main"] = "speech" /\ at'["oled_text"] = "recv"
        /\ UNCHANGED <<mb, held>>
    BY <1>4 DEF MainStartDisplay, Receiver, Place
  <2>3. Shape'
    BY <2>2 DEF PipeInv, Shape
  <2>4. BoxInv("main")'
    BY <1>1, <1>2, <2>1, <2>2
    DEF PipeInv, BoxInv, SleepsOnEmpty, EarlyUntilUp, BoxFresh, CopyFresh, InService
  <2>5. BoxInv("oled_text")'
    BY <1>1, <1>2, <2>1, <2>2
    DEF PipeInv, BoxInv, SleepsOnEmpty, EarlyUntilUp, BoxFresh, CopyFresh, InService
  <2>. QED
    BY <2>3, <2>4, <2>5 DEF Waiting
<1>5. CASE MainEnterLoop
  BY <1>1, <1>2, <1>5, MoveKeeps DEF MainEnterLoop, Place
<1>6. CASE MainCopy
  BY <1>1, <1>2, <1>6, MoveKeeps DEF MainCopy, Place
<1>7. CASE MainSpeak
  BY <1>1, <1>2, <1>7, MoveKeeps DEF MainSpeak, Place
<1>8. CASE MainRecv
  <2>1. at["main"] \in {"recv", "wait"} /\ Recv("main") /\ CanRun("main")
    BY <1>8 DEF MainRecv, Main
  <2>2. Shape' /\ BoxInv("main")'
    BY <1>1, <1>2, <2>1, RecvKeeps
  <2>3. /\ mb'[BoxOf["oled_text"]] = mb[BoxOf["oled_text"]]
        /\ at'["oled_text"] = at["oled_text"] /\ held'["oled_text"] = held["oled_text"]
    BY <1>1, <2>1 DEF Recv, PipeInv, Shape, BoxOf
  <2>4. BoxInv("oled_text")'
    BY <1>1, <1>2, <2>3, Untouched DEF PipeInv
  <2>. QED
    BY <2>2, <2>4 DEF Waiting
<1>. QED
  BY <1>3, <1>4, <1>5, <1>6, <1>7, <1>8 DEF Main

\* The steps of oled_text.
LEMMA OledTextKeeps ==
    ASSUME PipeInv, OledText
    PROVE  Shape' /\ \A s \in Waiting : BoxInv(s)'
<1>1. /\ "main" \in Waiting /\ "oled_text" \in Waiting /\ Waiting \subseteq Receiver
      /\ \A s \in Waiting : BoxOf[s] \in Box /\ ReceiverOf[BoxOf[s]] = s
  BY BoxesAndReceivers DEF Waiting
<1>2. UNCHANGED parserVars /\ data' = data
  BY DEF OledText, parserVars
<1>3. CASE TextCopy
  BY <1>1, <1>2, <1>3, MoveKeeps DEF TextCopy, Place
<1>4. CASE TextRecv
  <2>1. at["oled_text"] \in {"recv", "wait"} /\ Recv("oled_text") /\ CanRun("oled_text")
    BY <1>4 DEF TextRecv, OledText
  <2>2. Shape' /\ BoxInv("oled_text")'
    BY <1>1, <1>2, <2>1, RecvKeeps
  <2>3. /\ mb'[BoxOf["main"]] = mb[BoxOf["main"]]
        /\ at'["main"] = at["main"] /\ held'["main"] = held["main"]
    BY <1>1, <2>1 DEF Recv, PipeInv, Shape, BoxOf
  <2>4. BoxInv("main")'
    BY <1>1, <1>2, <2>3, Untouched DEF PipeInv
  <2>. QED
    BY <2>2, <2>4 DEF Waiting
<1>. QED
  BY <1>3, <1>4 DEF OledText

\* dst_show and its timer touch no box of a waiting receiver.
LEMMA DstShowKeeps ==
    ASSUME PipeInv, DstShow \/ ShowWake
    PROVE  Shape' /\ \A s \in Waiting : BoxInv(s)'
<1> DEFINE r == "dst_show"
           b == BoxOf[r]
<1>1. /\ r \in Receiver /\ b = "ble_mb_time" /\ b \in Box /\ Waiting \subseteq Receiver
      /\ \A s \in Waiting : s # r
  BY BoxesAndReceivers DEF Receiver, BoxOf, Waiting
<1>2. /\ mb \in [Box -> Mailbox] /\ mb[b] \in Mailbox /\ mb[b].mails \in Seq(Mail)
      /\ at \in [Receiver -> Place] /\ held \in [Receiver -> Mail]
      /\ mb[b].susp \in {<< >>, <<r>>}
      /\ data' = data
  <2>1. mb[b] \in Mailbox /\ mb[b].mails \in Seq(Mail)
    BY <1>1 DEF PipeInv, Shape, Mailbox
  <2>. QED
    BY <1>1, <2>1 DEF PipeInv, Shape, DstShow, ShowWake, parserVars
<1>3. /\ at' \in [Receiver -> Place]
      /\ \A s \in Waiting : at'[s] = at[s]
  BY <1>1, <1>2 DEF DstShow, ShowPoll, ShowCopy, ShowDraw, ShowWake, Place
<1>4. Early \in Mail
  BY EmptySeq DEF Early, Mail
<1>5. \/ /\ mb' = mb
         /\ held' \in {held, [held EXCEPT ![r] = Early]}
      \/ /\ mb[b].mails # << >>
         /\ mb' = [mb EXCEPT ![b] = [mb[b] EXCEPT !.mails = Tail(mb[b].mails)]]
         /\ held' = [held EXCEPT ![r] = Head(mb[b].mails)]
  BY <1>1 DEF DstShow, ShowPoll, ShowCopy, ShowDraw, ShowWake, MbTaken
<1>6. /\ held' \in [Receiver -> Mail]
      /\ \A s \in Waiting : held'[s] = held[s]
  BY <1>1, <1>2, <1>4, <1>5, HeadTailProperties
<1>7. Shape' /\ \A s \in Waiting : mb'[BoxOf[s]] = mb[BoxOf[s]]
  <2>1. CASE mb' = mb
    BY <1>3, <1>6, <2>1 DEF PipeInv, Shape
  <2>2. CASE mb' # mb
    <3> DEFINE m == [mb[b] EXCEPT !.mails = Tail(mb[b].mails)]
    <3>1. mb' = [mb EXCEPT ![b] = m] /\ mb[b].mails # << >>
      BY <1>5, <2>2
    <3>2. Tail(mb[b].mails) \in Seq(Mail)
      BY <1>2, <3>1, HeadTailProperties
    <3>3. m \in Mailbox /\ m.susp = mb[b].susp
      BY <1>2, <3>2 DEF Mailbox
    <3> HIDE DEF m
    <3>. QED
      BY <1>1, <1>2, <1>3, <1>6, <3>1, <3>3, ShapeKept DEF PipeInv
  <2>. QED
    BY <2>1, <2>2
<1>. QED
  BY <1>2, <1>3, <1>6, <1>7, Untouched DEF PipeInv

\* A mail resumes the receiver, the only thread a list can hold.
LEMMA ResumedIsEmpty ==
    ASSUME NEW r \in Receiver, NEW susp \in {<< >>, <<r>>}
    PROVE  Resumed(susp) = << >>
<1>1. CASE susp = << >>
  BY <1>1 DEF Resumed
<1>2. CASE susp = <<r>>
  <2>1. susp \in Seq(Receiver) /\ Len(susp) = 1 /\ susp # << >>
    BY <1>2
  <2>2. Tail(susp) \in Seq(Receiver) /\ Len(Tail(susp)) = 0
    BY <2>1, HeadTailProperties
  <2>3. Tail(susp) = << >>
    BY <2>2, EmptySeq
  <2>. QED
    BY <2>1, <2>3 DEF Resumed
<1>. QED
  BY <1>1, <1>2

\* A mail is sent to the box of r, which is not up or suspended on an empty
\* box unless it is dst_show.
LEMMA SendKeeps ==
    ASSUME PipeInv, CanRun("ble"), NEW r \in Receiver, NEW x \in Mail,
           ~InService(BoxOf[r]) => x.early,
           ~x.early => x.str = CString(data),
           UNCHANGED <<data, at, held>>,
           NEW m, m = MbSend(mb[BoxOf[r]], x), mb' = [mb EXCEPT ![BoxOf[r]] = m]
    PROVE  Shape' /\ \A s \in Waiting : BoxInv(s)'
<1> DEFINE b == BoxOf[r]
           old == mb[b].mails
<1>1. b \in Box /\ ReceiverOf[b] = r /\ Waiting \subseteq Receiver
  BY BoxesAndReceivers
<1>2. /\ mb \in [Box -> Mailbox] /\ mb[b] \in Mailbox /\ old \in Seq(Mail)
      /\ at \in [Receiver -> Place] /\ held \in [Receiver -> Mail]
      /\ mb[b].susp \in {<< >>, <<r>>}
  <2>1. mb[b] \in Mailbox /\ old \in Seq(Mail)
    BY <1>1 DEF PipeInv, Shape, Mailbox
  <2>. QED
    BY <1>1, <2>1 DEF PipeInv, Shape
<1>3. m = mb[b] \/ m = [mails |-> Append(old, x), susp |-> << >>]
  BY <1>2, ResumedIsEmpty DEF MbSend
<1>4. /\ Append(old, x) \in Seq(Mail)
      /\ Len(old) \in Nat /\ Len(Append(old, x)) = Len(old) + 1
      /\ \A k \in 1 .. Len(old) : Append(old, x)[k] = old[k]
      /\ Append(old, x)[Len(old) + 1] = x
  BY <1>2, AppendProperties, LenProperties
<1>5. m \in Mailbox /\ m.susp \in {<< >>, <<r>>}
  <2>1. [mails |-> Append(old, x), susp |-> << >>] \in Mailbox
    BY <1>4 DEF Mailbox
  <2>2. [mails |-> Append(old, x), susp |-> << >>].susp = << >>
    OBVIOUS
  <2>. QED
    BY <1>2, <1>3, <2>1, <2>2
<1>6. /\ Shape'
      /\ mb'[b] = m
      /\ \A s \in Receiver : s # r => mb'[BoxOf[s]] = mb[BoxOf[s]]
  <2>1. at' \in [Receiver -> Place] /\ held' \in [Receiver -> Mail]
    BY <1>2
  <2>2. Shape
    BY DEF PipeInv
  <2>. QED
    BY <1>5, <2>1, <2>2, ShapeKept
<1>7. ASSUME NEW s \in Waiting, s # r
      PROVE  BoxInv(s)'
  BY <1>1, <1>6, <1>7, Untouched DEF PipeInv
<1>8. ASSUME r \in Waiting
      PROVE  BoxInv(r)'
  <2>1. /\ SleepsOnEmpty(r) /\ EarlyUntilUp(r) /\ BoxFresh(r) /\ CopyFresh(r)
        /\ at[r] \in {"begin", "dormant"} \/ mb[b].susp # << >>
    BY <1>8, BleRunsAlone DEF PipeInv, BoxInv
  <2>2. CASE m = mb[b]
    BY <1>6, <1>8, <2>2, Untouched DEF PipeInv
  <2>3. CASE m = [mails |-> Append(old, x), susp |-> << >>]
    <3>1. mb'[b].mails = Append(old, x) /\ mb'[b].susp = << >>
      BY <1>6, <2>3
    <3>2. InService(b)' <=> InService(b)
      BY DEF InService
    <3>3. EarlyUntilUp(r)'
      <4> SUFFICES ASSUME ~InService(b), NEW k \in 1 .. Len(Append(old, x))
                   PROVE  Append(old, x)[k].early
        BY <3>1, <3>2 DEF EarlyUntilUp
      <4>. QED
        BY <1>4, <2>1 DEF EarlyUntilUp
    <3>4. BoxFresh(r)'
      <4> SUFFICES ASSUME NEW k \in 1 .. Len(Append(old, x)), ~Append(old, x)[k].early
                   PROVE  Append(old, x)[k].str = CString(data)
        BY <3>1 DEF BoxFresh
      <4>. QED
        BY <1>4, <2>1 DEF BoxFresh
    <3>5. SleepsOnEmpty(r)' /\ CopyFresh(r)'
      BY <2>1, <3>1 DEF SleepsOnEmpty, CopyFresh
    <3>. QED
      BY <3>3, <3>4, <3>5 DEF BoxInv
  <2>. QED
    BY <1>3, <2>2, <2>3
<1>. QED
  BY <1>6, <1>7, <1>8

\* rt_mb_send by "ble".
LEMMA BleSendKeeps ==
    ASSUME PipeInv, CanRun("ble"), BleSend
    PROVE  Shape' /\ \A s \in Waiting : BoxInv(s)'
<1> DEFINE b == Head(todo)
           sent == [str |-> CString(data), early |-> FALSE]
           x == IF InService(b) THEN sent ELSE Early
<1>1. /\ pc = "send" /\ todo # << >> /\ todo \in Seq(Box)
      /\ UNCHANGED <<data, at, held>>
      /\ mb' = [mb EXCEPT ![b] = MbSend(mb[b], x)]
  BY DEF BleSend, Send, PipeInv, LineInv, ParserTypeOK
<1>2. PICK r \in Receiver : b = BoxOf[r]
  <2>1. b \in Box
    BY <1>1, HeadTailProperties
  <2>. QED
    BY <2>1, BoxesAndReceivers
<1>3. /\ x \in Mail
      /\ ~InService(b) => x.early
      /\ ~x.early => x.str = CString(data)
  BY <1>1, SentIsMail, EmptySeq DEF Early, Mail, PipeInv
<1> HIDE DEF b, x
<1>. QED
  BY <1>1, <1>2, <1>3, SendKeeps

\* "ble" writes the buffer: no waiting receiver has a mail to lose.
LEMMA BleParseKeeps ==
    ASSUME PipeInv, CanRun("ble"), UNCHANGED <<mb, at, held>>
    PROVE  Shape' /\ \A s \in Waiting : BoxInv(s)'
<1>1. Shape'
  BY DEF PipeInv, Shape
<1>2. ASSUME NEW s \in Waiting
      PROVE  BoxInv(s)'
  <2>1. s \in Receiver /\ ReceiverOf[BoxOf[s]] = s
    BY BoxesAndReceivers
  <2>2. /\ SleepsOnEmpty(s) /\ EarlyUntilUp(s)
        /\ at[s] \in {"begin", "dormant"} \/ mb[BoxOf[s]].susp # << >>
    BY BleRunsAlone DEF PipeInv, BoxInv
  <2>3. Len(<< >>) = 0
    BY EmptySeq
  <2>4. \A k \in 1 .. Len(mb[BoxOf[s]].mails) : mb[BoxOf[s]].mails[k].early
    BY <2>1, <2>2, <2>3 DEF SleepsOnEmpty, EarlyUntilUp, InService
  <2>5. at[s] # "copy"
    BY <2>2 DEF SleepsOnEmpty
  <2>. QED
    BY <2>2, <2>4, <2>5 DEF BoxInv, SleepsOnEmpty, EarlyUntilUp, BoxFresh, CopyFresh, InService
<1>. QED
  BY <1>1, <1>2

-----------------------------------------------------------------------------
\* The initial states satisfy the invariant.
LEMMA InitPipe == Init => PipeInv
<1> SUFFICES ASSUME Init
             PROVE  PipeInv
  OBVIOUS
<1>1. LineInv
  BY InitLine DEF Init
<1>2. << >> \in Seq(Mail) /\ << >> \in Seq(Char) /\ Len(<< >>) = 0
  BY EmptySeq
<1>3. \A s \in Receiver : BoxOf[s] \in Box /\ ReceiverOf[BoxOf[s]] = s
  BY BoxesAndReceivers
<1>4. \A s \in Receiver : /\ mb[BoxOf[s]].mails = << >> /\ mb[BoxOf[s]].susp = << >>
                          /\ at[s] \in {"init", "dormant"}
  BY <1>3 DEF Init, MbInit
<1>5. Shape
  BY <1>2, <1>4 DEF Init, Shape, MbInit, Mailbox, Early, Mail, Place
<1>6. StartOrder
  BY DEF Init, StartOrder, Receiver
<1>7. \A s \in Waiting : BoxInv(s)
  BY <1>2, <1>4, BoxesAndReceivers DEF BoxInv, SleepsOnEmpty, EarlyUntilUp, BoxFresh, CopyFresh
<1>. QED
  BY <1>1, <1>5, <1>6, <1>7 DEF PipeInv

\* Every step preserves the invariant.
LEMMA NextPipe == PipeInv /\ [Next]_vars => PipeInv'
<1> SUFFICES ASSUME PipeInv, [Next]_vars
             PROVE  PipeInv'
  OBVIOUS
<1>1. StartOrder'
  BY StartOrderKept
<1>2. [ParserNext]_parserVars
  BY DEF Next, Main, OledText, DstShow, ShowWake, Ble, BleSend, BleParse, ParserNext, vars
<1>3. LineInv'
  BY <1>2, NextLine DEF PipeInv
<1>4. Shape' /\ \A s \in Waiting : BoxInv(s)'
  <2>1. CASE Ble
    <3>1. CASE BleSend
      BY <2>1, <3>1, BleSendKeeps DEF Ble
    <3>2. CASE BleParse
      BY <2>1, <3>2, BleParseKeeps DEF Ble, BleParse
    <3>. QED
      BY <2>1, <3>1, <3>2 DEF Ble
  <2>2. CASE UNCHANGED vars
    <3>1. Shape'
      BY <2>2 DEF vars, PipeInv, Shape
    <3>2. UNCHANGED <<mb, at, held>> /\ data' = data
      BY <2>2 DEF vars, parserVars
    <3>. QED
      BY <3>1, <3>2, Untouched DEF PipeInv
  <2>. QED
    BY <2>1, <2>2, MainKeeps, OledTextKeeps, DstShowKeeps DEF Next
<1>. QED
  BY <1>1, <1>3, <1>4 DEF PipeInv

(***************************************************************************)
(* What main speaks and what oled_text shows is what the peer sent: "ble"  *)
(* never overwrites the buffer between the send and the copy.              *)
(***************************************************************************)
THEOREM PipelineHandoverIntact == Spec => []HandoverIntact
<1>1. PipeInv => HandoverIntact
  BY DEF PipeInv, BoxInv, CopyFresh, HandoverIntact, Waiting
<1>. QED
  BY <1>1, InitPipe, NextPipe, PTL DEF Spec

(***************************************************************************)
(* No rt_mb_send to a receiver that is up ever finds the mailbox full, or  *)
(* even a mail in it, so its ignored result loses nothing.                 *)
(***************************************************************************)
THEOREM PipelineSendFindsEmptyBox == Spec => []SendFindsEmptyBox
<1>1. ASSUME PipeInv
      PROVE  SendFindsEmptyBox
  <2> DEFINE b == Head(todo)
             r == ReceiverOf[b]
  <2> SUFFICES ASSUME pc = "send", todo # << >>, CanRun("ble"),
                      b # "ble_mb_time", InService(b)
               PROVE  mb[b].mails = << >>
    BY DEF SendFindsEmptyBox
  <2>1. b \in Box
    BY <1>1, HeadTailProperties DEF PipeInv, LineInv, ParserTypeOK
  <2>2. r \in Waiting /\ BoxOf[r] = b
    BY <2>1 DEF Box, ReceiverOf, Waiting, BoxOf
  <2>3. at[r] \notin {"begin", "dormant"}
    BY DEF InService
  <2>4. mb[b].susp # << >>
    BY <1>1, <2>2, <2>3, BleRunsAlone DEF PipeInv
  <2>. QED
    BY <1>1, <2>2, <2>4 DEF PipeInv, BoxInv, SleepsOnEmpty
<1>. QED
  BY <1>1, InitPipe, NextPipe, PTL DEF Spec

-----------------------------------------------------------------------------
\* The rest of the type invariant: where the receivers are, and how full their boxes.
InPlace == \A r \in Receiver : at[r] \in Location[r]
BoxesBounded == \A b \in Box : Len(mb[b].mails) <= MbSize

\* Every step leaves the receivers where their code has such a place.
LEMMA InPlaceKept == Shape /\ InPlace /\ [Next]_vars => InPlace'
<1> SUFFICES ASSUME Shape, InPlace, [Next]_vars
             PROVE  InPlace'
  OBVIOUS
<1> USE DEF InPlace, Location, Receiver
<1>1. at \in [Receiver -> Place]
  BY DEF Shape
<1>2. CASE Main
  <2>1. CASE MainStartBle
    BY <1>1, <2>1 DEF MainStartBle
  <2>2. CASE MainStartDisplay
    BY <1>1, <2>2 DEF MainStartDisplay
  <2>3. CASE MainEnterLoop
    BY <1>1, <2>3 DEF MainEnterLoop
  <2>4. CASE MainRecv
    <3>1. at' = [at EXCEPT !["main"] = "copy"] \/ at' = [at EXCEPT !["main"] = "wait"]
      BY <2>4 DEF MainRecv, Recv
    <3>. QED
      BY <1>1, <3>1
  <2>5. CASE MainCopy
    BY <1>1, <2>5 DEF MainCopy
  <2>6. CASE MainSpeak
    BY <1>1, <2>6 DEF MainSpeak
  <2>. QED
    BY <1>2, <2>1, <2>2, <2>3, <2>4, <2>5, <2>6 DEF Main
<1>3. CASE OledText
  <2>1. \/ at' = [at EXCEPT !["oled_text"] = "copy"]
        \/ at' = [at EXCEPT !["oled_text"] = "wait"]
        \/ at' = [at EXCEPT !["oled_text"] = "recv"]
    BY <1>3 DEF OledText, TextRecv, TextCopy, Recv
  <2>. QED
    BY <1>1, <2>1
<1>4. CASE DstShow \/ ShowWake
  <2>1. \/ at' = [at EXCEPT !["dst_show"] = "poll"]
        \/ at' = [at EXCEPT !["dst_show"] = "draw"]
        \/ at' = [at EXCEPT !["dst_show"] = "copy"]
        \/ at' = [at EXCEPT !["dst_show"] = "sleep"]
    BY <1>4 DEF DstShow, ShowPoll, ShowCopy, ShowDraw, ShowWake
  <2>. QED
    BY <1>1, <2>1
<1>5. CASE Ble \/ UNCHANGED vars
  BY <1>5 DEF Ble, BleSend, BleParse, vars
<1>. QED
  BY <1>2, <1>3, <1>4, <1>5 DEF Next

\* What a receiver or the sender makes of one box does not overfill it.
LEMMA OneBoxBounded ==
    ASSUME Shape, BoxesBounded, NEW b \in Box, NEW m, Len(m.mails) <= MbSize,
           mb' = [mb EXCEPT ![b] = m]
    PROVE  BoxesBounded'
BY DEF Shape, BoxesBounded

\* Taking a mail out makes a box no fuller.
LEMMA TakenBounded ==
    ASSUME NEW m \in Mailbox, Len(m.mails) <= MbSize, m.mails # << >>
    PROVE  Len(MbTaken(m).mails) <= MbSize
<1>1. m.mails \in Seq(Mail) /\ Len(Tail(m.mails)) = Len(m.mails) - 1 /\ Len(m.mails) \in Nat
  BY HeadTailProperties, LenProperties DEF Mailbox
<1>2. MbTaken(m).mails = Tail(m.mails)
  BY DEF MbTaken, Mailbox
<1>. QED
  BY <1>1, <1>2

\* rt_mb_send looks whether the box is full before it stores the mail.
LEMMA SendBounded ==
    ASSUME NEW m \in Mailbox, NEW x \in Mail, Len(m.mails) <= MbSize
    PROVE  Len(MbSend(m, x).mails) <= MbSize
<1>1. m.mails \in Seq(Mail) /\ Len(m.mails) \in Nat
  BY LenProperties DEF Mailbox
<1>2. CASE MbFull(m)
  BY <1>2 DEF MbSend
<1>3. CASE ~MbFull(m)
  <2>1. MbSend(m, x).mails = Append(m.mails, x)
    BY <1>3 DEF MbSend
  <2>2. Len(Append(m.mails, x)) = Len(m.mails) + 1
    BY <1>1
  <2>. QED
    BY <1>1, <1>3, <2>1, <2>2 DEF MbFull
<1>. QED
  BY <1>2, <1>3

\* A receive, whether it finds a mail or waits, leaves all boxes within bounds.
LEMMA RecvBounded ==
    ASSUME Shape, BoxesBounded, NEW r \in Receiver, Recv(r)
    PROVE  BoxesBounded'
<1>1. BoxOf[r] \in Box /\ mb[BoxOf[r]] \in Mailbox /\ Len(mb[BoxOf[r]].mails) <= MbSize
  BY BoxesAndReceivers DEF Shape, BoxesBounded
<1>2. CASE mb[BoxOf[r]].mails # << >>
  <2>1. mb' = [mb EXCEPT ![BoxOf[r]] = MbTaken(mb[BoxOf[r]])]
    BY <1>2 DEF Recv
  <2>. QED
    BY <1>1, <1>2, <2>1, TakenBounded, OneBoxBounded
<1>3. CASE ~(mb[BoxOf[r]].mails # << >>)
  <2>1. mb' = [mb EXCEPT ![BoxOf[r]] = MbWait(mb[BoxOf[r]], r)]
    BY <1>3 DEF Recv
  <2>2. MbWait(mb[BoxOf[r]], r).mails = mb[BoxOf[r]].mails
    BY <1>1 DEF MbWait, Mailbox
  <2>. QED
    BY <1>1, <2>1, <2>2, OneBoxBounded
<1>. QED
  BY <1>2, <1>3

\* Every step keeps all boxes within bounds.
LEMMA BoxesBoundedKept == PipeInv /\ BoxesBounded /\ [Next]_vars => BoxesBounded'
<1> SUFFICES ASSUME PipeInv, BoxesBounded, [Next]_vars
             PROVE  BoxesBounded'
  OBVIOUS
<1>1. Shape /\ LineInv
  BY DEF PipeInv
<1>2. CASE UNCHANGED mb
  BY <1>2 DEF BoxesBounded
<1>3. CASE MainRecv \/ TextRecv
  BY <1>1, <1>3, RecvBounded DEF MainRecv, TextRecv, Receiver
<1>4. CASE ShowPoll
  <2>1. CASE mb["ble_mb_time"].mails = << >>
    BY <1>2, <1>4, <2>1 DEF ShowPoll
  <2>2. CASE mb["ble_mb_time"].mails # << >>
    <3>1. mb' = [mb EXCEPT !["ble_mb_time"] = MbTaken(mb["ble_mb_time"])]
      BY <1>4, <2>2 DEF ShowPoll
    <3>2. /\ "ble_mb_time" \in Box /\ mb["ble_mb_time"] \in Mailbox
          /\ Len(mb["ble_mb_time"].mails) <= MbSize
      BY <1>1 DEF Shape, Box, BoxesBounded
    <3>. QED
      BY <1>1, <2>2, <3>1, <3>2, TakenBounded, OneBoxBounded
  <2>. QED
    BY <2>1, <2>2
<1>5. CASE BleSend
  <2> DEFINE b == Head(todo)
             x == IF InService(b) THEN [str |-> CString(data), early |-> FALSE] ELSE Early
  <2>1. pc = "send" /\ todo # << >> /\ mb' = [mb EXCEPT ![b] = MbSend(mb[b], x)]
    BY <1>5 DEF BleSend, Send
  <2>2. b \in Box
    BY <1>1, <2>1, HeadTailProperties DEF LineInv, ParserTypeOK
  <2>3. x \in Mail
    <3>1. CString(data) \in Seq(Char) /\ << >> \in Seq(Char)
      BY <1>1, <2>1, SentIsMail
    <3>. QED
      BY <3>1 DEF Mail, Early
  <2> HIDE DEF b, x
  <2>4. mb[b] \in Mailbox /\ Len(mb[b].mails) <= MbSize
    BY <1>1, <2>2 DEF Shape, BoxesBounded
  <2>. QED
    BY <1>1, <2>1, <2>2, <2>3, <2>4, SendBounded, OneBoxBounded
<1>. QED
  BY <1>2, <1>3, <1>4, <1>5
     DEF Next, Main, MainStartBle, MainStartDisplay, MainEnterLoop, MainCopy, MainSpeak,
         OledText, TextCopy, DstShow, ShowCopy, ShowDraw, ShowWake, Ble, BleParse, vars

(***************************************************************************)
(* Every receiver is at a place of its own code, and no mailbox ever holds *)
(* more mails than its pool has room for.                                  *)
(***************************************************************************)
THEOREM PipelineTypeCorrect == Spec => []TypeOK
<1>1. Init => InPlace /\ BoxesBounded
  <2> SUFFICES ASSUME Init PROVE InPlace /\ BoxesBounded
    OBVIOUS
  <2>1. InPlace
    BY DEF Init, InPlace, Location, Receiver
  <2>2. BoxesBounded
    BY DEF Init, MbInit, BoxesBounded
  <2>. QED
    BY <2>1, <2>2
<1>2. PipeInv => Shape
  BY DEF PipeInv
<1>3. PipeInv /\ InPlace /\ BoxesBounded => TypeOK
  BY BoxesAndReceivers DEF PipeInv, LineInv, Shape, InPlace, BoxesBounded, TypeOK
<1>. QED
  BY <1>1, <1>2, <1>3, InitPipe, NextPipe, InPlaceKept, BoxesBoundedKept, PTL DEF Spec
=============================================================================
