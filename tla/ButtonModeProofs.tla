-------------------------- MODULE ButtonModeProofs --------------------------
(***************************************************************************)
(* TypeOK, ModeFollowsButton and RefusedOnlyIfOvertaken for every size of  *)
(* the mailbox and every number of callbacks in a round.                   *)
(*                                                                         *)
(* ModeFollowsButton speaks of a state in which btn_ctrl is suspended; the *)
(* invariant says how it gets there.  The newest mail is that of the last  *)
(* press, so once it is taken the mode is the right one; btn_ctrl is in    *)
(* the list of ready threads or in the mailbox's list, never in both or in *)
(* neither; and in the latter there is no mail that it could have missed.  *)
(*                                                                         *)
(* RefusedOnlyIfOvertaken rests on a second invariant, Counted: the mails  *)
(* and the callbacks still to come are those of one round and of one more  *)
(* for each time that btn_ctrl was overtaken, and of another one while     *)
(* btn_scan waits behind it.                                               *)
(***************************************************************************)
EXTENDS ButtonMode, TLAPS, SequenceTheorems, FiniteSetTheorems

USE MbSizeAssumption, MaxEventsAssumption

\* The mode that a press asks for, and the mail its callback sends.
ModeOfEvent(e) == IF e = "BUTTON_DOUBLE" THEN "mode_dynamic" ELSE "mode_static"
MailOfEvent(e) == IF e = "BUTTON_DOUBLE" THEN "mb_once" ELSE "mb_doub"

\* Every list of ready threads that has none of the two twice.
ReadyLists ==
    {<< >>, <<"btn_scan">>, <<"btn_ctrl">>,
     <<"btn_scan", "btn_ctrl">>, <<"btn_ctrl", "btn_scan">>}

WithCtrl ==
    {<<"btn_ctrl">>, <<"btn_scan", "btn_ctrl">>, <<"btn_ctrl", "btn_scan">>}

CtrlReady == ready \in WithCtrl

\* The mailbox as far as its type goes.
BoxType ==
    /\ btn_oled_mbt = [mails |-> btn_oled_mbt.mails, susp |-> btn_oled_mbt.susp]
    /\ btn_oled_mbt.mails \in Seq(Mail)
    /\ Len(btn_oled_mbt.mails) <= MbSize
    /\ btn_oled_mbt.susp \in {<< >>, <<"btn_ctrl">>}

\* btn_ctrl is ready or suspended, and not both; when it is suspended it has
\* taken every mail.
ReadyOrSuspended ==
    /\ CtrlReady <=> btn_oled_mbt.susp = << >>
    /\ btn_oled_mbt.susp # << >> => btn_oled_mbt.mails = << >>

\* The last press is the newest mail, or has been obeyed.
NewestMailIsLast ==
    IF btn_oled_mbt.mails = << >> THEN mode = ModeOfEvent(last)
    ELSE btn_oled_mbt.mails[Len(btn_oled_mbt.mails)] = MailOfEvent(last)

ButtonInv ==
    /\ BoxType
    /\ mode \in Mode
    /\ ready \in ReadyLists
    /\ events \in Events
    /\ last \in Event \cup {"none"}
    /\ ReadyOrSuspended
    /\ NewestMailIsLast

-----------------------------------------------------------------------------
\* What is taken off the callbacks of a round is again the rest of a round.
LEMMA TailOfEvents ==
    ASSUME NEW e \in Events, e # << >>
    PROVE  Tail(e) \in Events /\ Head(e) \in Event
<1>1. PICK n \in 0 .. MaxEvents : e \in [1 .. n -> Event]
  BY DEF Events
<1>2. e \in Seq(Event) /\ Len(e) = n
  BY <1>1
<1>3. Head(e) \in Event /\ Tail(e) \in Seq(Event) /\ Len(Tail(e)) = n - 1 /\ n > 0
  BY <1>2, HeadTailProperties
<1>4. Tail(e) \in [1 .. n - 1 -> Event]
  BY <1>3, LenProperties
<1>5. n - 1 \in 0 .. MaxEvents
  BY <1>3
<1>. QED
  BY <1>3, <1>4, <1>5 DEF Events

\* The newest mail stays the newest when the oldest of several is taken.
LEMMA TailKeepsLast ==
    ASSUME NEW s \in Seq(Mail), s # << >>
    PROVE  /\ Head(s) \in Mail /\ Tail(s) \in Seq(Mail)
           /\ Len(Tail(s)) = Len(s) - 1
           /\ Tail(s) = << >> => Head(s) = s[Len(s)]
           /\ Tail(s) # << >> => Tail(s)[Len(Tail(s))] = s[Len(s)]
<1>1. Len(s) \in Nat /\ Len(s) > 0 /\ Head(s) = s[1] /\ Head(s) \in Mail
  BY LenProperties, HeadTailProperties
<1>2. Tail(s) \in Seq(Mail) /\ Len(Tail(s)) = Len(s) - 1
  BY HeadTailProperties
<1>3. \A n \in 1 .. Len(Tail(s)) : Tail(s)[n] = s[n + 1]
  BY HeadTailProperties
<1>4. ASSUME Tail(s) = << >>  PROVE Head(s) = s[Len(s)]
  BY <1>1, <1>2, <1>4
<1>5. ASSUME Tail(s) # << >>  PROVE Tail(s)[Len(Tail(s))] = s[Len(s)]
  <2>1. Len(Tail(s)) \in 1 .. Len(Tail(s))
    BY <1>1, <1>2, <1>5, LenProperties
  <2>. QED
    BY <1>1, <1>2, <1>3, <2>1
<1>. QED
  BY <1>1, <1>2, <1>4, <1>5

\* The thread is in the mailbox's list exactly when the list is not empty.
LEMMA SuspIsCtrl ==
    ASSUME NEW mb, mb.susp \in {<< >>, <<"btn_ctrl">>}
    PROVE  IsSuspended(mb, "btn_ctrl") <=> mb.susp # << >>
BY DEF IsSuspended

\* A second thread put at the end of the list.
LEMMA AppendToOne ==
    ASSUME NEW a, NEW b
    PROVE  Append(<<a>>, b) = <<a, b>>
<1> DEFINE S == {a, b}
<1>1. <<a>> \in Seq(S) /\ b \in S /\ Len(<<a>>) = 1 /\ <<a>>[1] = a
  OBVIOUS
<1>2. <<a, b>> \in Seq(S) /\ Len(<<a, b>>) = 2 /\ <<a, b>>[1] = a /\ <<a, b>>[2] = b
  OBVIOUS
<1> HIDE DEF S
<1>3. /\ Append(<<a>>, b) \in Seq(S) /\ Len(Append(<<a>>, b)) = 2
      /\ Append(<<a>>, b)[1] = a /\ Append(<<a>>, b)[2] = b
  BY <1>1, AppendProperties
<1>4. \A i \in 1 .. 2 : Append(<<a>>, b)[i] = <<a, b>>[i]
  BY <1>2, <1>3
<1>. QED
  BY <1>2, <1>3, <1>4, SeqEqual

\* The scheduler's steps on a list of ready threads: preemption, the sleep of
\* either thread at its head, and the return of the one that is not in it.
LEMMA ListSteps ==
    ASSUME NEW r \in ReadyLists
    PROVE  /\ r # << >> =>
                /\ Append(Tail(r), Head(r)) \in ReadyLists
                /\ Append(Tail(r), Head(r)) \in WithCtrl <=> r \in WithCtrl
           /\ r # << >> /\ Head(r) = "btn_scan" =>
                /\ Tail(r) \in ReadyLists
                /\ Tail(r) \in WithCtrl <=> r \in WithCtrl
                /\ r \notin WithCtrl => Append(r, "btn_ctrl") \in ReadyLists \cap WithCtrl
           /\ r # << >> /\ Head(r) = "btn_ctrl" =>
                /\ r \in WithCtrl
                /\ Tail(r) \in ReadyLists \ WithCtrl
           /\ (\A n \in DOMAIN r : r[n] # "btn_scan") =>
                /\ Append(r, "btn_scan") \in ReadyLists
                /\ Append(r, "btn_scan") \in WithCtrl <=> r \in WithCtrl
<1>0. /\ << >> \notin WithCtrl /\ <<"btn_scan">> \notin WithCtrl
      /\ << >> \in ReadyLists /\ <<"btn_scan">> \in ReadyLists
      /\ \A q \in WithCtrl : q \in ReadyLists
  BY DEF ReadyLists, WithCtrl
<1>a. /\ <<"btn_ctrl">> \in WithCtrl /\ <<"btn_scan", "btn_ctrl">> \in WithCtrl
      /\ <<"btn_ctrl", "btn_scan">> \in WithCtrl
      /\ "btn_scan" # "btn_ctrl"
  BY DEF WithCtrl
<1>1. CASE r = << >>
  <2>1. Append(<< >>, "btn_scan") = <<"btn_scan">>
    BY <1>1
  <2>. QED
    BY <1>1, <2>1, <1>0, <1>a, AppendToOne, Zenon
<1>2. CASE r = <<"btn_scan">>
  <2>1. /\ Head(r) = "btn_scan" /\ Tail(r) = << >>
        /\ Append(<< >>, "btn_scan") = <<"btn_scan">>
        /\ r[1] = "btn_scan" /\ 1 \in DOMAIN r
    BY <1>2
  <2>. QED
    BY <1>2, <2>1, <1>0, <1>a, AppendToOne, Zenon
<1>3. CASE r = <<"btn_ctrl">>
  <2>1. /\ Head(r) = "btn_ctrl" /\ Tail(r) = << >>
        /\ Append(<< >>, "btn_ctrl") = <<"btn_ctrl">>
    BY <1>3
  <2>. QED
    BY <1>3, <2>1, <1>0, <1>a, AppendToOne, Zenon
<1>4. CASE r = <<"btn_scan", "btn_ctrl">>
  <2>1. /\ Head(r) = "btn_scan" /\ Tail(r) = <<"btn_ctrl">>
        /\ r[1] = "btn_scan" /\ 1 \in DOMAIN r
    BY <1>4
  <2>. QED
    BY <1>4, <2>1, <1>0, <1>a, AppendToOne, Zenon
<1>5. CASE r = <<"btn_ctrl", "btn_scan">>
  <2>1. /\ Head(r) = "btn_ctrl" /\ Tail(r) = <<"btn_scan">>
        /\ r[2] = "btn_scan" /\ 2 \in DOMAIN r
    BY <1>5
  <2>. QED
    BY <1>5, <2>1, <1>0, <1>a, AppendToOne, Zenon
<1>. QED
  BY <1>1, <1>2, <1>3, <1>4, <1>5 DEF ReadyLists

\* A list of ready threads has no thread twice.
LEMMA ReadyOnce ==
    ASSUME NEW r \in ReadyLists, NEW t \in Thread
    PROVE  /\ r \in Seq(Thread)
           /\ Cardinality({n \in DOMAIN r : r[n] = t}) <= 1
<1> DEFINE S == {n \in DOMAIN r : r[n] = t}
<1>1. r \in Seq(Thread) /\ \A m, n \in DOMAIN r : r[m] = r[n] => m = n
  <2>1. CASE r = << >>
    BY <2>1 DEF Thread
  <2>2. CASE r = <<"btn_scan">>
    BY <2>2 DEF Thread
  <2>3. CASE r = <<"btn_ctrl">>
    BY <2>3 DEF Thread
  <2>4. CASE r = <<"btn_scan", "btn_ctrl">>
    BY <2>4 DEF Thread
  <2>5. CASE r = <<"btn_ctrl", "btn_scan">>
    BY <2>5 DEF Thread
  <2>. QED
    BY <2>1, <2>2, <2>3, <2>4, <2>5 DEF ReadyLists
<1>2. CASE S = {}
  <2>1. Cardinality(S) = 0
    BY <1>2, FS_EmptySet
  <2>. QED
    BY <1>1, <2>1
<1>3. CASE S # {}
  <2>1. PICK n : n \in S
    BY <1>3
  <2>2. S = {n}
    BY <1>1, <2>1
  <2>3. Cardinality(S) = 1
    BY <2>2, FS_Singleton
  <2>. QED
    BY <1>1, <2>3
<1>. QED
  BY <1>2, <1>3

\* What a send does to a mailbox of this type.
LEMMA SendToBox ==
    ASSUME BoxType, NEW mail \in Mail, NEW mb,
           mb = MbSend(btn_oled_mbt, mail)
    PROVE  /\ MbFull(btn_oled_mbt) => mb = btn_oled_mbt /\ btn_oled_mbt.mails # << >>
           /\ ~MbFull(btn_oled_mbt) => /\ mb = [mails |-> mb.mails, susp |-> << >>]
                                       /\ mb.mails \in Seq(Mail)
                                       /\ Len(mb.mails) <= MbSize
                                       /\ mb.mails # << >>
                                       /\ mb.mails[Len(mb.mails)] = mail
                                       /\ mb.susp = << >>
<1> DEFINE s == btn_oled_mbt.mails
<1>1. s \in Seq(Mail) /\ Len(s) \in Nat /\ Len(s) <= MbSize
  BY LenProperties DEF BoxType
<1>2. ASSUME MbFull(btn_oled_mbt)
      PROVE  mb = btn_oled_mbt /\ btn_oled_mbt.mails # << >>
  BY <1>1, <1>2 DEF MbSend, MbFull
<1>3. ASSUME ~MbFull(btn_oled_mbt)
      PROVE  /\ mb = [mails |-> mb.mails, susp |-> << >>]
             /\ mb.mails = Append(s, mail)
             /\ mb.susp = << >>
  <2>1. Resumed(btn_oled_mbt.susp) = << >>
    <3>1. Tail(<<"btn_ctrl">>) = << >>
      OBVIOUS
    <3>. QED
      BY <3>1 DEF BoxType, Resumed
  <2>. QED
    BY <1>3, <2>1 DEF MbSend
<1>4. /\ Append(s, mail) \in Seq(Mail) /\ Len(Append(s, mail)) = Len(s) + 1
      /\ Append(s, mail)[Len(s) + 1] = mail /\ Append(s, mail) # << >>
  BY <1>1, AppendProperties
<1>5. ~MbFull(btn_oled_mbt) => Len(s) < MbSize
  BY <1>1 DEF MbFull
<1>. QED
  BY <1>1, <1>2, <1>3, <1>4, <1>5

-----------------------------------------------------------------------------
\* At the start both threads are ready and nothing has been pressed.
LEMMA InitButton == Init => ButtonInv
<1> SUFFICES ASSUME Init  PROVE ButtonInv
  OBVIOUS
<1>1. btn_oled_mbt = [mails |-> << >>, susp |-> << >>]
  BY DEF Init, MbInit
<1>2. BoxType
  BY <1>1 DEF BoxType
<1>3. CtrlReady
  BY DEF Init, CtrlReady, WithCtrl
<1>4. ReadyOrSuspended /\ NewestMailIsLast
  BY <1>1, <1>3 DEF Init, ReadyOrSuspended, NewestMailIsLast, ModeOfEvent
<1>. QED
  BY <1>2, <1>4 DEF Init, ButtonInv, ReadyLists, Mode

\* A callback: the mail it sends is that of the event, and a suspended btn_ctrl
\* goes from the one list to the other.
LEMMA CallBackButton == ButtonInv /\ ScanCallBack => ButtonInv'
<1> SUFFICES ASSUME ButtonInv, ScanCallBack  PROVE ButtonInv'
  OBVIOUS
<1> DEFINE e == Head(events)
<1>1. e \in Event /\ events' \in Events
  BY TailOfEvents DEF ButtonInv, ScanCallBack
<1>2. MailOfEvent(e) \in Mail /\ SendMail(MailOfEvent(e))
  BY <1>1 DEF ScanCallBack, Event, Mail, MailOfEvent, Btn1_Dowm_CallBack, Btn1_Double_CallBack
<1>3. btn_oled_mbt' = MbSend(btn_oled_mbt, MailOfEvent(e))
  BY <1>2 DEF SendMail
<1>4. CASE MbFull(btn_oled_mbt)
  <2>1. btn_oled_mbt' = btn_oled_mbt /\ btn_oled_mbt.mails # << >>
    BY <1>2, <1>3, <1>4, SendToBox DEF ButtonInv
  <2>2. ready' = ready
    BY <1>2, <2>1 DEF SendMail
  <2>3. mode' = mode /\ last' = last
    BY <1>4 DEF ScanCallBack
  <2>. QED
    BY <1>1, <2>1, <2>2, <2>3
    DEF ButtonInv, BoxType, ReadyOrSuspended, CtrlReady, NewestMailIsLast
<1>5. CASE ~MbFull(btn_oled_mbt)
  <2>1. /\ btn_oled_mbt' = [mails |-> btn_oled_mbt'.mails, susp |-> << >>]
        /\ btn_oled_mbt'.mails \in Seq(Mail)
        /\ Len(btn_oled_mbt'.mails) <= MbSize
        /\ btn_oled_mbt'.mails # << >>
        /\ btn_oled_mbt'.mails[Len(btn_oled_mbt'.mails)] = MailOfEvent(e)
        /\ btn_oled_mbt'.susp = << >>
    BY <1>2, <1>3, <1>5, SendToBox DEF ButtonInv
  <2>2. BoxType'
    BY <2>1 DEF BoxType
  <2>3. mode' = mode /\ last' = e
    BY <1>5 DEF ScanCallBack
  <2>4. NewestMailIsLast'
    BY <2>1, <2>3 DEF NewestMailIsLast
  <2>5. ~IsSuspended(btn_oled_mbt', "btn_ctrl")
    BY <2>1 DEF IsSuspended
  <2>6. ready' \in ReadyLists /\ CtrlReady'
    <3>1. CASE btn_oled_mbt.susp = << >>
      <4>1. ready' = ready /\ CtrlReady
        BY <1>2, <3>1, SuspIsCtrl DEF SendMail, ButtonInv, BoxType, ReadyOrSuspended
      <4>. QED
        BY <4>1 DEF ButtonInv, CtrlReady
    <3>2. CASE btn_oled_mbt.susp # << >>
      <4>1. IsSuspended(btn_oled_mbt, "btn_ctrl") /\ ~CtrlReady
        BY <3>2, SuspIsCtrl DEF ButtonInv, BoxType, ReadyOrSuspended
      <4>2. ready' = Append(ready, "btn_ctrl")
        BY <1>2, <2>5, <4>1 DEF SendMail, MadeReady
      <4>. QED
        BY <4>1, <4>2, ListSteps DEF ButtonInv, CtrlReady, ScanCallBack, Running
    <3>. QED
      BY <3>1, <3>2
  <2>7. ReadyOrSuspended'
    BY <2>1, <2>6 DEF ReadyOrSuspended
  <2>. QED
    BY <1>1, <2>2, <2>3, <2>4, <2>6, <2>7 DEF ButtonInv
<1>. QED
  BY <1>4, <1>5

\* The steps of the scheduler and of btn_scan's delay only move threads.
LEMMA MoveButton ==
    ASSUME ButtonInv, events' \in Events,
           UNCHANGED <<btn_oled_mbt, mode, last>>,
           ready' \in ReadyLists, CtrlReady' <=> CtrlReady
    PROVE  ButtonInv'
BY DEF ButtonInv, BoxType, ReadyOrSuspended, NewestMailIsLast

\* btn_ctrl takes a mail or goes to sleep on an empty mailbox.
LEMMA CtrlButton == ButtonInv /\ btn_ctrl_entry => ButtonInv'
<1> SUFFICES ASSUME ButtonInv, btn_ctrl_entry  PROVE ButtonInv'
  OBVIOUS
<1>0. CtrlReady /\ btn_oled_mbt.susp = << >> /\ events' = events /\ last' = last
  BY ListSteps DEF btn_ctrl_entry, Running, ButtonInv, CtrlReady, ReadyOrSuspended
<1>1. CASE btn_oled_mbt.mails # << >>
  <2> DEFINE s == btn_oled_mbt.mails
  <2>1. /\ Head(s) \in Mail /\ Tail(s) \in Seq(Mail)
        /\ Len(Tail(s)) = Len(s) - 1
        /\ Tail(s) = << >> => Head(s) = s[Len(s)]
        /\ Tail(s) # << >> => Tail(s)[Len(Tail(s))] = s[Len(s)]
    BY <1>1, TailKeepsLast DEF ButtonInv, BoxType
  <2>2. btn_oled_mbt' = [mails |-> Tail(s), susp |-> << >>]
    BY <1>0, <1>1 DEF btn_ctrl_entry, MbTaken, ButtonInv, BoxType
  <2>3. mode' = ModeFor(Head(s)) /\ ready' = ready
    BY <1>1 DEF btn_ctrl_entry
  <2>4. s[Len(s)] = MailOfEvent(last) /\ Len(s) \in Nat /\ Len(s) <= MbSize
    BY <1>1, LenProperties DEF ButtonInv, BoxType, NewestMailIsLast
  <2>5. BoxType'
    BY <2>1, <2>2, <2>4 DEF BoxType
  <2>6. ModeFor(MailOfEvent(last)) = ModeOfEvent(last)
    BY DEF ModeFor, MailOfEvent, ModeOfEvent
  <2>7. NewestMailIsLast'
    BY <1>0, <2>1, <2>2, <2>3, <2>4, <2>6 DEF NewestMailIsLast
  <2>8. ReadyOrSuspended'
    BY <1>0, <2>2, <2>3 DEF ReadyOrSuspended, CtrlReady
  <2>9. mode' \in Mode
    BY <2>3 DEF ModeFor, Mode
  <2>. QED
    BY <1>0, <2>3, <2>5, <2>7, <2>8, <2>9 DEF ButtonInv
<1>2. CASE btn_oled_mbt.mails = << >>
  <2>1. btn_oled_mbt' = [mails |-> << >>, susp |-> <<"btn_ctrl">>]
    BY <1>0, <1>2 DEF btn_ctrl_entry, MbWait, Suspended, ButtonInv, BoxType
  <2>2. ready' = Tail(ready) /\ mode' = mode
    BY <1>2 DEF btn_ctrl_entry
  <2>3. ready' \in ReadyLists /\ ~CtrlReady'
    BY <2>2, ListSteps DEF btn_ctrl_entry, Running, ButtonInv, CtrlReady
  <2>4. BoxType'
    BY <2>1 DEF BoxType
  <2>5. ReadyOrSuspended' /\ NewestMailIsLast'
    BY <1>0, <1>2, <2>1, <2>2, <2>3 DEF ReadyOrSuspended, NewestMailIsLast, ButtonInv
  <2>. QED
    BY <1>0, <2>2, <2>3, <2>4, <2>5 DEF ButtonInv
<1>. QED
  BY <1>1, <1>2

\* Every step preserves the invariant.
LEMMA NextButton == ButtonInv /\ [Next]_vars => ButtonInv'
<1> SUFFICES ASSUME ButtonInv, [Next]_vars  PROVE ButtonInv'
  OBVIOUS
<1>1. CASE ScanCallBack
  BY <1>1, CallBackButton
<1>2. CASE ScanSleep
  <2>1. ready' \in ReadyLists /\ (CtrlReady' <=> CtrlReady)
    BY <1>2, ListSteps DEF ScanSleep, Running, ButtonInv, CtrlReady
  <2>. QED
    BY <1>2, <2>1, MoveButton DEF ScanSleep, ButtonInv
<1>3. CASE Preempt
  <2>1. ready' \in ReadyLists /\ (CtrlReady' <=> CtrlReady)
    BY <1>3, ListSteps DEF Preempt, ButtonInv, CtrlReady
  <2>. QED
    BY <1>3, <2>1, MoveButton DEF Preempt, ButtonInv
<1>4. ASSUME NEW e \in Events, ScanWake(e)  PROVE ButtonInv'
  <2>1. ready' \in ReadyLists /\ (CtrlReady' <=> CtrlReady)
    BY <1>4, ListSteps DEF ScanWake, MadeReady, ButtonInv, CtrlReady
  <2>. QED
    BY <1>4, <2>1, MoveButton DEF ScanWake
<1>5. CASE btn_ctrl_entry
  BY <1>5, CtrlButton
<1>6. CASE UNCHANGED vars
  BY <1>6 DEF vars, ButtonInv, BoxType, ReadyOrSuspended, NewestMailIsLast, CtrlReady
<1>. QED
  BY <1>1, <1>2, <1>3, <1>4, <1>5, <1>6 DEF Next

\* ButtonInv is an invariant of the specification.
THEOREM ButtonInvariant == Spec => []ButtonInv
<1>. QED
  BY InitButton, NextButton, PTL DEF Spec

-----------------------------------------------------------------------------
(* How many mails there can be.                                            *)

\* n mails, e callbacks to come, and btn_ctrl overtaken k times, with the threads
\* r ready.
Within(r, n, e, k) ==
    /\ n \in Nat /\ n <= MbSize /\ e \in Nat /\ e <= MaxEvents /\ k \in Nat /\ k <= MbSize
    /\ n = 0 => k = 0
    /\ r = <<"btn_scan", "btn_ctrl">> => n + e <= MaxEvents * (1 + k)
    /\ r = <<"btn_ctrl", "btn_scan">> => n + e <= MaxEvents * (2 + k)
    /\ r = <<"btn_ctrl">> => n <= MaxEvents * (1 + k)
    /\ r \in {<< >>, <<"btn_scan">>} => n = 0

Counted == Within(ready, Len(btn_oled_mbt.mails), Len(events), overtaken)

\* The lists of ready threads are different from each other,
LEMMA ListsDiffer ==
    /\ << >> # <<"btn_scan">> /\ << >> # <<"btn_ctrl">> /\ <<"btn_scan">> # <<"btn_ctrl">>
    /\ <<"btn_scan", "btn_ctrl">> # << >> /\ <<"btn_scan", "btn_ctrl">> # <<"btn_scan">>
    /\ <<"btn_scan", "btn_ctrl">> # <<"btn_ctrl">>
    /\ <<"btn_ctrl", "btn_scan">> # << >> /\ <<"btn_ctrl", "btn_scan">> # <<"btn_scan">>
    /\ <<"btn_ctrl", "btn_scan">> # <<"btn_ctrl">>
    /\ <<"btn_ctrl", "btn_scan">> # <<"btn_scan", "btn_ctrl">>
OBVIOUS

\* and what the scheduler's steps make of each.
LEMMA ListMoves ==
    ASSUME NEW r \in ReadyLists
    PROVE  /\ r # << >> /\ Head(r) = "btn_scan" =>
                \/ /\ r = <<"btn_scan">> /\ Tail(r) = << >>
                   /\ Append(r, "btn_ctrl") = <<"btn_scan", "btn_ctrl">>
                   /\ Append(Tail(r), Head(r)) = r
                \/ /\ r = <<"btn_scan", "btn_ctrl">> /\ Tail(r) = <<"btn_ctrl">>
                   /\ Append(Tail(r), Head(r)) = <<"btn_ctrl", "btn_scan">>
           /\ r # << >> /\ Head(r) # "btn_scan" =>
                \/ /\ r = <<"btn_ctrl">> /\ Tail(r) = << >>
                   /\ Append(Tail(r), Head(r)) = r
                \/ /\ r = <<"btn_ctrl", "btn_scan">> /\ Tail(r) = <<"btn_scan">>
                   /\ Append(Tail(r), Head(r)) = <<"btn_scan", "btn_ctrl">>
           /\ (\A n \in DOMAIN r : r[n] # "btn_scan") =>
                \/ r = << >> /\ Append(r, "btn_scan") = <<"btn_scan">>
                \/ r = <<"btn_ctrl">> /\ Append(r, "btn_scan") = <<"btn_ctrl", "btn_scan">>
<1>0. "btn_scan" # "btn_ctrl" /\ \A t : Append(<< >>, t) = <<t>>
  OBVIOUS
<1>1. CASE r = << >>
  BY <1>1, <1>0, Zenon
<1>2. CASE r = <<"btn_scan">>
  <2>1. /\ Head(r) = "btn_scan" /\ Tail(r) = << >> /\ r[1] = "btn_scan" /\ 1 \in DOMAIN r
    BY <1>2
  <2>. QED
    BY <1>2, <2>1, <1>0, AppendToOne, Zenon
<1>3. CASE r = <<"btn_ctrl">>
  <2>1. Head(r) = "btn_ctrl" /\ Tail(r) = << >>
    BY <1>3
  <2>. QED
    BY <1>3, <2>1, <1>0, AppendToOne, Zenon
<1>4. CASE r = <<"btn_scan", "btn_ctrl">>
  <2>1. /\ Head(r) = "btn_scan" /\ Tail(r) = <<"btn_ctrl">>
        /\ r[1] = "btn_scan" /\ 1 \in DOMAIN r
    BY <1>4
  <2>. QED
    BY <1>4, <2>1, <1>0, AppendToOne, Zenon
<1>5. CASE r = <<"btn_ctrl", "btn_scan">>
  <2>1. /\ Head(r) = "btn_ctrl" /\ Tail(r) = <<"btn_scan">>
        /\ r[2] = "btn_scan" /\ 2 \in DOMAIN r
    BY <1>5
  <2>. QED
    BY <1>5, <2>1, <1>0, AppendToOne, Zenon
<1>. QED
  BY <1>1, <1>2, <1>3, <1>4, <1>5 DEF ReadyLists

\* The rounds of callbacks, multiplied out.
LEMMA Rounds ==
    ASSUME NEW k \in Nat
    PROVE  /\ MaxEvents * (1 + k) \in Nat /\ MaxEvents * (2 + k) \in Nat
           /\ MaxEvents * (2 + k) = MaxEvents * (1 + k) + MaxEvents
           /\ MaxEvents * (1 + (k + 1)) = MaxEvents * (2 + k)
           /\ MaxEvents * (1 + k) >= MaxEvents
           /\ MaxEvents * (1 + 0) = MaxEvents
           /\ k = MbSize /\ MaxEvents > 0 => MaxEvents * (1 + k) >= MaxEvents + MbSize
<1>1. MaxEvents * k \in Nat
  OBVIOUS
<1>2. /\ MaxEvents * (1 + k) = MaxEvents + MaxEvents * k
      /\ MaxEvents * (2 + k) = 2 * MaxEvents + MaxEvents * k
  OBVIOUS
<1>3. MaxEvents > 0 => MaxEvents * k >= k
  <2>1. MaxEvents > 0 => MaxEvents * k = k + (MaxEvents - 1) * k
    OBVIOUS
  <2>2. MaxEvents > 0 => (MaxEvents - 1) * k \in Nat
    <3>1. MaxEvents > 0 => MaxEvents - 1 \in Nat
      OBVIOUS
    <3>. QED
      BY <3>1
  <2>. QED
    BY <2>1, <2>2
<1>4. 1 + (k + 1) = 2 + k /\ 1 + 0 = 1 /\ MaxEvents * 1 = MaxEvents
  OBVIOUS
<1>5. MaxEvents * (1 + (k + 1)) = MaxEvents * (2 + k) /\ MaxEvents * (1 + 0) = MaxEvents
  BY <1>4
<1>. QED
  BY <1>1, <1>2, <1>3, <1>5

\* The lengths that Counted is about.
LEMMA Lengths ==
    ASSUME NEW s \in Seq(Mail), Len(s) <= MbSize, NEW q \in Events
    PROVE  /\ Len(s) \in Nat /\ Len(s) <= MbSize /\ (Len(s) = 0 <=> s = << >>)
           /\ Len(q) \in Nat /\ Len(q) <= MaxEvents
           /\ q = << >> => Len(q) = 0
           /\ q # << >> => Len(q) > 0 /\ Len(Tail(q)) = Len(q) - 1
<1>1. Len(s) \in Nat /\ (Len(s) = 0 <=> s = << >>)
  BY EmptySeq, LenProperties
<1>2. PICK n \in 0 .. MaxEvents : q \in [1 .. n -> Event]
  BY DEF Events
<1>3. q \in Seq(Event) /\ Len(q) = n
  BY <1>2
<1>4. q # << >> => Len(q) > 0 /\ Len(Tail(q)) = Len(q) - 1
  BY <1>3, HeadTailProperties, EmptySeq, LenProperties
<1>. QED
  BY <1>1, <1>3, <1>4

\* Nothing has been sent at the start.
LEMMA InitCounted == Init => Counted
<1> SUFFICES ASSUME Init  PROVE Counted
  OBVIOUS
<1>1. btn_oled_mbt.mails = << >> /\ events \in Events
  BY DEF Init, MbInit
<1>2. /\ Len(btn_oled_mbt.mails) = 0 /\ Len(events) \in Nat /\ Len(events) <= MaxEvents
      /\ overtaken = 0 /\ ready = <<"btn_scan", "btn_ctrl">>
  <2> DEFINE none == << >>
  <2>1. none \in Seq(Mail) /\ Len(none) = 0 /\ Len(none) <= MbSize /\ btn_oled_mbt.mails = none
    BY <1>1
  <2> HIDE DEF none
  <2>2. Len(events) \in Nat /\ Len(events) <= MaxEvents
    BY <1>1, <2>1, Lengths
  <2>. QED
    BY <2>1, <2>2 DEF Init
<1>. QED
  BY <1>2, ListsDiffer, Rounds DEF Counted, Within

\* Every step keeps to the count.
LEMMA NextCounted == ButtonInv /\ ButtonInv' /\ Counted /\ [Next]_vars => Counted'
<1> SUFFICES ASSUME ButtonInv, ButtonInv', Counted, [Next]_vars  PROVE Counted'
  OBVIOUS
<1> DEFINE r == ready
           n == Len(btn_oled_mbt.mails)
           e == Len(events)
           k == overtaken
           r1 == ready'
           n1 == Len(btn_oled_mbt'.mails)
           e1 == Len(events')
           k1 == overtaken'
<1>0. /\ Within(r, n, e, k) /\ (Counted' <=> Within(r1, n1, e1, k1))
      /\ r \in ReadyLists /\ r1 \in ReadyLists
  BY DEF Counted, ButtonInv
<1>a. /\ n = 0 <=> btn_oled_mbt.mails = << >>
      /\ events = << >> => e = 0
      /\ events # << >> => e > 0 /\ Len(Tail(events)) = e - 1
      /\ n1 \in Nat /\ n1 <= MbSize /\ e1 \in Nat /\ e1 <= MaxEvents
      /\ n1 = 0 <=> btn_oled_mbt'.mails = << >>
  <2>1. /\ btn_oled_mbt.mails \in Seq(Mail) /\ n <= MbSize /\ events \in Events
        /\ btn_oled_mbt'.mails \in Seq(Mail) /\ n1 <= MbSize /\ events' \in Events
    BY DEF ButtonInv, BoxType
  <2>. QED
    BY <2>1, Lengths
<1>b. /\ n \in Nat /\ e \in Nat /\ e <= MaxEvents /\ k \in Nat /\ k <= MbSize
      /\ r \in {<< >>, <<"btn_scan">>} => n = 0
  BY <1>0 DEF Within
<1>1. CASE ScanCallBack
  <2>1. /\ r # << >> /\ Head(r) = "btn_scan" /\ e1 = e - 1 /\ e > 0 /\ k1 = k
    BY <1>1, <1>a DEF ScanCallBack, Running
  <2>2. /\ SendMail(MailOfEvent(Head(events)))
        /\ MailOfEvent(Head(events)) \in Mail
    <3>1. Head(events) \in Event
      BY <1>1, TailOfEvents DEF ScanCallBack, ButtonInv
    <3>. QED
      BY <1>1, <3>1
      DEF ScanCallBack, Event, Mail, MailOfEvent, Btn1_Dowm_CallBack, Btn1_Double_CallBack
  <2>3. n1 = n \/ n1 = n + 1
    BY <2>2 DEF SendMail, MbSend, ButtonInv, BoxType
  <2>4. r1 = r \/ (r1 = Append(r, "btn_ctrl") /\ r = <<"btn_scan">>)
    <3>1. r1 = r \/ (r1 = Append(r, "btn_ctrl") /\ IsSuspended(btn_oled_mbt, "btn_ctrl"))
      BY <2>2 DEF SendMail, MadeReady
    <3>2. IsSuspended(btn_oled_mbt, "btn_ctrl") => r \notin WithCtrl
      BY SuspIsCtrl DEF ButtonInv, BoxType, ReadyOrSuspended, CtrlReady
    <3>3. r = <<"btn_scan">> \/ r = <<"btn_scan", "btn_ctrl">>
      BY <1>0, <2>1, ListMoves
    <3>4. <<"btn_scan", "btn_ctrl">> \in WithCtrl
      BY DEF WithCtrl
    <3>. QED
      BY <3>1, <3>2, <3>3, <3>4, Zenon
  <2>5. n1 # 0
    <3>1. btn_oled_mbt'.mails # << >>
      BY <2>2, SendToBox DEF SendMail, ButtonInv
    <3>. QED
      BY <1>a, <3>1
  <2>6. r1 = <<"btn_scan", "btn_ctrl">>
    <3>1. CtrlReady'
      <4>1. btn_oled_mbt'.susp = << >>
        BY <2>5, <1>a DEF ButtonInv, ReadyOrSuspended
      <4>. QED
        BY <4>1 DEF ButtonInv, ReadyOrSuspended
    <3>2. r1 \notin {<< >>, <<"btn_scan">>}
      BY <3>1, ListsDiffer DEF CtrlReady, WithCtrl
    <3>3. CASE r1 = r
      BY <1>0, <2>1, <3>2, <3>3, ListMoves
    <3>4. CASE r1 = Append(r, "btn_ctrl") /\ r = <<"btn_scan">>
      BY <3>4, AppendToOne, Zenon
    <3>. QED
      BY <2>4, <3>3, <3>4
  <2>7. n + e <= MaxEvents * (1 + k)
    <3>1. CASE r = <<"btn_scan", "btn_ctrl">>
      BY <1>0, <3>1 DEF Within
    <3>2. CASE r = <<"btn_scan">>
      <4>1. n = 0
        BY <1>b, <3>2
      <4>. QED
        BY <1>b, <4>1, Rounds
    <3>. QED
      BY <1>0, <2>1, <3>1, <3>2, ListMoves
  <2> HIDE DEF r, n, e, k, r1, n1, e1, k1
  <2>8. n1 + e1 <= MaxEvents * (1 + k1)
    BY <1>a, <1>b, <2>1, <2>3, <2>7, Rounds
  <2>. QED
    BY <1>0, <1>a, <1>b, <2>1, <2>5, <2>6, <2>8, ListsDiffer DEF Within
<1>2. CASE ScanSleep
  <2>1. /\ r # << >> /\ Head(r) = "btn_scan" /\ e = 0 /\ r1 = Tail(r)
        /\ n1 = n /\ e1 = e /\ k1 = k
    BY <1>2, <1>a DEF ScanSleep, Running
  <2>2. \/ r = <<"btn_scan">> /\ r1 = << >>
        \/ r = <<"btn_scan", "btn_ctrl">> /\ r1 = <<"btn_ctrl">>
    BY <1>0, <2>1, ListMoves
  <2> HIDE DEF r, n, e, k, r1, n1, e1, k1
  <2>. QED
    BY <1>0, <1>b, <2>1, <2>2, ListsDiffer DEF Within
<1>3. CASE Preempt
  <2>1. /\ r # << >> /\ r1 = Append(Tail(r), Head(r)) /\ n1 = n /\ e1 = e
        /\ k1 = IF n # 0 /\ r = <<"btn_ctrl", "btn_scan">> /\ k < MbSize THEN k + 1 ELSE k
    BY <1>3, <1>a DEF Preempt
  <2>2. \/ r1 = r /\ r \in {<<"btn_scan">>, <<"btn_ctrl">>}
        \/ r = <<"btn_scan", "btn_ctrl">> /\ r1 = <<"btn_ctrl", "btn_scan">>
        \/ r = <<"btn_ctrl", "btn_scan">> /\ r1 = <<"btn_scan", "btn_ctrl">>
    BY <1>0, <2>1, ListMoves
  <2> HIDE DEF r, n, e, k, r1, n1, e1, k1
  <2>3. CASE r1 = r
    BY <1>0, <2>1, <2>2, <2>3, ListsDiffer
  <2>4. CASE r = <<"btn_scan", "btn_ctrl">> /\ r1 = <<"btn_ctrl", "btn_scan">>
    <3>1. k1 = k /\ n + e <= MaxEvents * (1 + k)
      BY <1>0, <2>1, <2>4, ListsDiffer DEF Within
    <3>2. n + e <= MaxEvents * (2 + k)
      BY <1>b, <3>1, Rounds
    <3>. QED
      BY <1>0, <1>b, <2>1, <2>4, <3>1, <3>2, ListsDiffer DEF Within
  <2>5. CASE r = <<"btn_ctrl", "btn_scan">> /\ r1 = <<"btn_scan", "btn_ctrl">>
    <3>1. n + e <= MaxEvents * (2 + k) /\ n <= MbSize /\ (n = 0 => k = 0)
      BY <1>0, <2>5 DEF Within
    <3>2. n1 + e1 <= MaxEvents * (1 + k1) /\ k1 \in Nat /\ k1 <= MbSize /\ (n1 = 0 => k1 = 0)
      <4>1. CASE n = 0
        <5>1. k1 = k /\ n1 + e1 = e
          BY <1>b, <2>1, <4>1
        <5>. QED
          BY <1>b, <2>1, <3>1, <4>1, <5>1, Rounds
      <4>2. CASE n # 0 /\ k < MbSize
        <5>1. k1 = k + 1
          BY <2>1, <2>5, <4>2
        <5>2. MaxEvents * (1 + (k + 1)) = MaxEvents * (2 + k)
          BY <1>b, Rounds
        <5>. QED
          BY <1>b, <2>1, <3>1, <4>2, <5>1, <5>2
      <4>3. CASE n # 0 /\ k = MbSize
        <5>1. k1 = k
          BY <1>b, <2>1, <4>3
        <5>2. MaxEvents > 0
          <6> SUFFICES ASSUME MaxEvents = 0  PROVE FALSE
            OBVIOUS
          <6>1. MaxEvents * (2 + k) = 0
            BY <1>b
          <6>. QED
            BY <1>b, <3>1, <4>3, <6>1
        <5>3. MaxEvents * (1 + k) >= MaxEvents + MbSize /\ MaxEvents * (1 + k) \in Nat
          BY <1>b, <4>3, <5>2, Rounds
        <5>. QED
          BY <1>b, <2>1, <3>1, <4>3, <5>1, <5>3
      <4>. QED
        BY <1>b, <4>1, <4>2, <4>3
    <3>. QED
      BY <1>0, <1>b, <2>1, <2>5, <3>1, <3>2, ListsDiffer DEF Within
  <2>. QED
    BY <2>2, <2>3, <2>4, <2>5
<1>4. ASSUME NEW q \in Events, ScanWake(q)  PROVE Counted'
  <2>1. /\ r1 = Append(r, "btn_scan") /\ n1 = n /\ k1 = k
        /\ \A i \in DOMAIN r : r[i] # "btn_scan"
    BY <1>4 DEF ScanWake, MadeReady
  <2>2. \/ r = << >> /\ r1 = <<"btn_scan">>
        \/ r = <<"btn_ctrl">> /\ r1 = <<"btn_ctrl", "btn_scan">>
    BY <1>0, <2>1, ListMoves
  <2> HIDE DEF r, n, e, k, r1, n1, e1, k1
  <2>3. CASE r = << >> /\ r1 = <<"btn_scan">>
    BY <1>0, <1>a, <1>b, <2>1, <2>3, ListsDiffer DEF Within
  <2>4. CASE r = <<"btn_ctrl">> /\ r1 = <<"btn_ctrl", "btn_scan">>
    <3>1. n <= MaxEvents * (1 + k)
      BY <1>0, <2>4 DEF Within
    <3>2. n1 + e1 <= MaxEvents * (2 + k1)
      BY <1>a, <1>b, <2>1, <3>1, Rounds
    <3>. QED
      BY <1>0, <1>a, <1>b, <2>1, <2>4, <3>2, ListsDiffer DEF Within
  <2>. QED
    BY <2>2, <2>3, <2>4
<1>5. CASE btn_ctrl_entry
  <2>1. r # << >> /\ Head(r) # "btn_scan" /\ e1 = e /\ k1 = IF n1 = 0 THEN 0 ELSE k
    BY <1>5, <1>a DEF btn_ctrl_entry, Running
  <2>2. CASE btn_oled_mbt.mails # << >>
    <3>1. r1 = r /\ n1 = n - 1 /\ n > 0
      <4>1. /\ r1 = r /\ btn_oled_mbt' = MbTaken(btn_oled_mbt)
        BY <1>5, <2>2 DEF btn_ctrl_entry
      <4>2. btn_oled_mbt'.mails = Tail(btn_oled_mbt.mails)
        BY <4>1 DEF MbTaken, ButtonInv, BoxType
      <4>3. Len(Tail(btn_oled_mbt.mails)) = n - 1
        BY <2>2, TailKeepsLast DEF ButtonInv, BoxType
      <4>. QED
        BY <1>a, <1>b, <2>2, <4>1, <4>2, <4>3
    <3>2. r \in {<<"btn_ctrl">>, <<"btn_ctrl", "btn_scan">>}
      BY <1>0, <2>1, ListMoves
    <3> HIDE DEF r, n, e, k, r1, n1, e1, k1
    <3>3. CASE n1 = 0
      <4>1. k1 = 0 /\ n1 + e1 <= MaxEvents
        BY <1>a, <1>b, <2>1, <3>3
      <4>2. MaxEvents * (1 + k1) = MaxEvents /\ MaxEvents * (2 + k1) >= MaxEvents
        BY <4>1, Rounds
      <4>. QED
        BY <1>0, <1>a, <1>b, <3>1, <3>2, <3>3, <4>1, <4>2, ListsDiffer DEF Within
    <3>4. CASE n1 # 0
      <4>1. k1 = k
        BY <2>1, <3>4
      <4>. QED
        BY <1>0, <1>a, <1>b, <2>1, <3>1, <3>2, <3>4, <4>1, Rounds, ListsDiffer DEF Within
    <3>. QED
      BY <3>3, <3>4
  <2>3. CASE btn_oled_mbt.mails = << >>
    <3>1. r1 = Tail(r) /\ n1 = 0
      <4>1. r1 = Tail(r) /\ btn_oled_mbt' = MbWait(btn_oled_mbt, "btn_ctrl")
        BY <1>5, <2>3 DEF btn_ctrl_entry
      <4>2. btn_oled_mbt'.mails = btn_oled_mbt.mails
        BY <4>1 DEF MbWait, ButtonInv, BoxType
      <4>. QED
        BY <1>a, <2>3, <4>1, <4>2
    <3>2. r1 \in {<< >>, <<"btn_scan">>}
      BY <1>0, <2>1, <3>1, ListMoves
    <3> HIDE DEF r, n, e, k, r1, n1, e1, k1
    <3>. QED
      BY <1>0, <1>a, <2>1, <3>1, <3>2, ListsDiffer DEF Within
  <2>. QED
    BY <2>2, <2>3
<1>6. CASE UNCHANGED vars
  BY <1>6 DEF vars, Counted
<1>. QED
  BY <1>1, <1>2, <1>3, <1>4, <1>5, <1>6 DEF Next

\* Counted is an invariant of the specification.
LEMMA CountedAlways == Spec => []Counted
<1>. QED
  BY InitCounted, NextCounted, ButtonInvariant, PTL DEF Spec

-----------------------------------------------------------------------------
\* The types hold, and neither thread is ever in the list of ready threads twice,
\* whatever the order of presses, delays and preemptions.
THEOREM ButtonTypes == Spec => []TypeOK
<1>1. ButtonInv /\ Counted => TypeOK
  <2> SUFFICES ASSUME ButtonInv, Counted  PROVE TypeOK
    OBVIOUS
  <2>1. "btn_scan" \in Thread /\ ready \in ReadyLists
    BY DEF Thread, ButtonInv
  <2>2. /\ ready \in Seq(Thread)
        /\ \A t \in Thread : Cardinality({n \in DOMAIN ready : ready[n] = t}) <= 1
    BY <2>1, ReadyOnce, Zenon
  <2>3. overtaken \in 0 .. MbSize
    BY DEF Counted, Within
  <2>. QED
    BY <2>2, <2>3, Zenon DEF ButtonInv, BoxType, TypeOK
<1>. QED
  BY <1>1, ButtonInvariant, CountedAlways, PTL

\* Once btn_ctrl waits, every mail has been taken and the mode is that of the
\* last press the mailbox had room for.
THEOREM ModeIsTheButtons == Spec => []ModeFollowsButton
<1>1. ButtonInv => ModeFollowsButton
  BY SuspIsCtrl
  DEF ButtonInv, BoxType, ReadyOrSuspended, NewestMailIsLast, ModeOfEvent,
      ModeFollowsButton, Settled
<1>. QED
  BY <1>1, ButtonInvariant, PTL

\* A mail is refused, and a press lost, only after btn_ctrl has been overtaken so
\* often that the rounds of callbacks come to more mails than the mailbox holds,
\* whatever its size and however many callbacks a round has.
THEOREM RefusalNeedsOvertaking == Spec => []RefusedOnlyIfOvertaken
<1>1. ButtonInv /\ Counted => RefusedOnlyIfOvertaken
  <2> SUFFICES ASSUME ButtonInv, Counted, Running("btn_scan"), events # << >>,
                      MbFull(btn_oled_mbt)
               PROVE  MbSize < MaxEvents * (1 + overtaken)
    BY DEF RefusedOnlyIfOvertaken
  <2> DEFINE r == ready
             n == Len(btn_oled_mbt.mails)
             e == Len(events)
             k == overtaken
  <2>1. /\ Within(r, n, e, k) /\ r \in ReadyLists /\ r # << >> /\ Head(r) = "btn_scan"
        /\ n = MbSize
    BY DEF Counted, ButtonInv, Running, MbFull
  <2>2. e > 0
    BY Lengths DEF ButtonInv, BoxType
  <2>3. r # <<"btn_scan">>
    BY <2>1 DEF Within
  <2>4. r = <<"btn_scan", "btn_ctrl">>
    BY <2>1, <2>3, ListMoves
  <2> HIDE DEF r, n, e, k
  <2>5. k \in Nat /\ e \in Nat /\ n + e <= MaxEvents * (1 + k)
    BY <2>1, <2>4 DEF Within
  <2>6. MaxEvents * (1 + k) \in Nat
    BY <2>5, Rounds
  <2>7. MbSize < MaxEvents * (1 + k)
    BY <2>1, <2>2, <2>5, <2>6
  <2>. QED
    BY <2>7 DEF k
<1>. QED
  BY <1>1, ButtonInvariant, CountedAlways, PTL
=============================================================================
