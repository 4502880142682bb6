----------------------------- MODULE ButtonMode -----------------------------
(***************************************************************************)
(* The button (applications/oled_btn.cpp): the thread "btn_scan"           *)
(* (button_entry) polls it every 20 ms with the library's Button_Process,  *)
(* whose callbacks send a mail for a click and one for a double click; the *)
(* thread "btn_ctrl" (btn_ctrl_entry) waits for the mails and assigns the  *)
(* display mode.                                                           *)
(*                                                                         *)
(* The two threads have the same priority (21), so they share one list of  *)
(* ready threads: the first of it runs, and a thread that becomes ready,   *)
(* or that is interrupted by one of higher priority or has used up its     *)
(* time slice, goes to its end.                                            *)
(***************************************************************************)
EXTENDS FiniteSets, RtMailbox

CONSTANT MaxEvents  \* most callbacks of one Button_Process (one button)

ASSUME MaxEventsAssumption == MaxEvents \in Nat

VARIABLES
    btn_oled_mbt,   \* the mailbox between the two threads
    mode,           \* what u8g2_dst_thread reads
    ready,          \* the ready threads of priority 21, first to run first
    events,         \* the callbacks Button_Process has yet to call
    last,           \* history: the event of the last mail that was not refused
    overtaken       \* history: how often btn_ctrl has had to give way to btn_scan
                    \* since the mailbox was empty; it stops at MbSize

vars == <<btn_oled_mbt, mode, ready, events, last, overtaken>>

Event == {"BUTTON_DOWM", "BUTTON_DOUBLE"}
Mail == {"mb_once", "mb_doub"}
Mode == {"mode_static", "mode_dynamic"}
Thread == {"btn_scan", "btn_ctrl"}

Events == UNION {[1 .. n -> Event] : n \in 0 .. MaxEvents}

TypeOK ==
    /\ btn_oled_mbt.mails \in Seq(Mail)
    /\ Len(btn_oled_mbt.mails) <= MbSize
    /\ btn_oled_mbt.susp \in {<< >>, <<"btn_ctrl">>}
    /\ mode \in Mode
    /\ ready \in Seq(Thread)
    /\ \A t \in Thread : Cardinality({n \in DOMAIN ready : ready[n] = t}) <= 1
    /\ events \in Events
    /\ last \in Event \cup {"none"}
    /\ overtaken \in 0 .. MbSize

\* BSP_Init and button_u8g2_init, which starts btn_scan first.
Init ==
    /\ btn_oled_mbt = MbInit
    /\ mode = "mode_static"
    /\ ready = <<"btn_scan", "btn_ctrl">>
    /\ events \in Events
    /\ last = "none"
    /\ overtaken = 0

Running(t) == ready # << >> /\ Head(ready) = t

-----------------------------------------------------------------------------
(* Forms the code could have had by mistake.                               *)

\* A click does not end the scrolling.
ModeForOnce(str) == IF str = "mb_once" THEN "mode_dynamic" ELSE mode

\* A thread that becomes ready goes before the others of its priority.
MadeReadyFirst(t) == <<t>> \o ready
-----------------------------------------------------------------------------

\* rt_schedule_insert_thread: to the end of the list of its priority
MadeReady(t) == Append(ready, t)

\* rt_mb_send to btn_oled_mbt, which makes a suspended btn_ctrl ready
SendMail(mail) ==
    /\ btn_oled_mbt' = MbSend(btn_oled_mbt, mail)
    /\ ready' = IF IsSuspended(btn_oled_mbt, "btn_ctrl") /\ ~IsSuspended(btn_oled_mbt', "btn_ctrl")
                THEN MadeReady("btn_ctrl") ELSE ready

Btn1_Dowm_CallBack == SendMail("mb_doub")
Btn1_Double_CallBack == SendMail("mb_once")

\* Button_Process calls back.
ScanCallBack ==
    /\ Running("btn_scan")
    /\ events # << >>
    /\ IF Head(events) = "BUTTON_DOWM" THEN Btn1_Dowm_CallBack ELSE Btn1_Double_CallBack
    /\ last' = IF MbFull(btn_oled_mbt) THEN last ELSE Head(events)
    /\ events' = Tail(events)
    /\ UNCHANGED <<mode, overtaken>>

\* rt_schedule: the running thread has to give way
Preempt ==
    /\ ready # << >>
    /\ ready' = Append(Tail(ready), Head(ready))
    /\ overtaken' = IF /\ btn_oled_mbt.mails # << >> /\ ready = <<"btn_ctrl", "btn_scan">>
                       /\ overtaken < MbSize
                    THEN overtaken + 1 ELSE overtaken
    /\ UNCHANGED <<btn_oled_mbt, mode, events, last>>

\* Button_Process returns; rt_thread_mdelay(20)
ScanSleep ==
    /\ Running("btn_scan")
    /\ events = << >>
    /\ ready' = Tail(ready)
    /\ UNCHANGED <<btn_oled_mbt, mode, events, last, overtaken>>

\* The delay is over; the next Button_Process will find these events.
ScanWake(e) ==
    /\ \A n \in DOMAIN ready : ready[n] # "btn_scan"
    /\ ready' = MadeReady("btn_scan")
    /\ events' = e
    /\ UNCHANGED <<btn_oled_mbt, mode, last, overtaken>>

ModeFor(str) == IF str = "mb_once" THEN "mode_dynamic" ELSE "mode_static"

\* btn_ctrl_entry: the mail is taken and the mode assigned, or there is none
\* and the thread is suspended.
btn_ctrl_entry ==
    /\ Running("btn_ctrl")
    /\ IF btn_oled_mbt.mails # << >>
       THEN /\ mode' = ModeFor(Head(btn_oled_mbt.mails))
            /\ btn_oled_mbt' = MbTaken(btn_oled_mbt)
            /\ UNCHANGED ready
       ELSE /\ btn_oled_mbt' = MbWait(btn_oled_mbt, "btn_ctrl")
            /\ ready' = Tail(ready)
            /\ UNCHANGED mode
    /\ overtaken' = IF btn_oled_mbt'.mails = << >> THEN 0 ELSE overtaken
    /\ UNCHANGED <<events, last>>

Next ==
    \/ ScanCallBack
    \/ ScanSleep
    \/ Preempt
    \/ \E e \in Events : ScanWake(e)
    \/ btn_ctrl_entry

Spec == Init /\ [][Next]_vars

-----------------------------------------------------------------------------
\* btn_ctrl waits for a mail.
Settled == IsSuspended(btn_oled_mbt, "btn_ctrl")

(***************************************************************************)
(* The mode follows the button: when btn_ctrl has come to rest no mail is  *)
(* left, and the display is in the mode that the last press has asked for  *)
(* that the mailbox had room for, a double click for scrolling and a click *)
(* for standing still.  The order of the presses is kept and no wake-up is *)
(* lost, whatever the order in which the two threads run.                  *)
(***************************************************************************)
ModeFollowsButton ==
    Settled =>
        /\ btn_oled_mbt.mails = << >>
        /\ mode = IF last = "BUTTON_DOUBLE" THEN "mode_dynamic" ELSE "mode_static"

(***************************************************************************)
(* When a press is lost: the callbacks ignore that rt_mb_send refuses a    *)
(* mail.  It does so only if the scheduler has let btn_scan go before a    *)
(* btn_ctrl with mails to take so often that the rounds of callbacks since *)
(* the mailbox was empty, one and another for each time, come to more than *)
(* it holds.  A btn_ctrl that is not interrupted loses nothing, as long as *)
(* the mailbox holds the mails of one round.                               *)
(***************************************************************************)
RefusedOnlyIfOvertaken ==
    Running("btn_scan") /\ events # << >> /\ MbFull(btn_oled_mbt) =>
        MbSize < MaxEvents * (1 + overtaken)
=============================================================================
