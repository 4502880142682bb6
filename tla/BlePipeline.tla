----------------------------- MODULE BlePipeline -----------------------------
(***************************************************************************)
(* The way of a message through the program: the thread "ble" (BleParser)  *)
(* sends the ADDRESS of its one buffer to the mailboxes of the receivers,  *)
(*                                                                         *)
(*   main        speaks the messages of ble_mb_6288  (main.cpp)            *)
(*   oled_text   takes over those of ble_mb_oled     (oled_btn.cpp)        *)
(*   dst_show    sets the clock by those of ble_mb_time, which it polls    *)
(*               once per round of drawing           (oled_btn.cpp)        *)
(*                                                                         *)
(* and each of them copies the string out of that buffer when it gets to   *)
(* it.  Nothing but the priorities of the threads keeps "ble" from writing *)
(* the next message over one that has not been copied yet.                 *)
(*                                                                         *)
(* A mail is modelled by what it is meant to carry: the string that is in  *)
(* the buffer when it is sent.  Of a mail sent before its receiver is up   *)
(* ("early") only that is recorded.                                        *)
(* There is one processor: a thread runs only when no thread of higher     *)
(* priority (a smaller number) is ready.  u8g2.begin, a library call,      *)
(* sleeps while the display starts.                                        *)
(***************************************************************************)
EXTENDS BleParser, RtMailbox

VARIABLES
    mb,         \* the three mailboxes
    at,         \* where each receiver is
    held        \* the mail each receiver has taken and not yet copied

vars == <<parserVars, mb, at, held>>

Receiver == {"main", "oled_text", "dst_show"}
Thread == Receiver \cup {"ble"}

\* The receiver of each mailbox, and the mailbox of each receiver.
ReceiverOf == [ble_mb_6288 |-> "main", ble_mb_oled |-> "oled_text", ble_mb_time |-> "dst_show"]
BoxOf == [main |-> "ble_mb_6288", oled_text |-> "ble_mb_oled", dst_show |-> "ble_mb_time"]

Location ==
    [main |-> {"init", "begin", "speech", "recv", "wait", "copy", "speak"},
     oled_text |-> {"dormant", "recv", "wait", "copy"},
     dst_show |-> {"dormant", "poll", "copy", "draw", "sleep"}]

Place == {"init", "begin", "speech", "recv", "wait", "copy", "speak",
          "dormant", "poll", "draw", "sleep"}

Mail == [str : Seq(Char), early : BOOLEAN]
Mailbox == [mails : Seq(Mail), susp : {<< >>} \cup {<<r>> : r \in Receiver}]
Early == [str |-> << >>, early |-> TRUE]

TypeOK ==
    /\ ParserTypeOK
    /\ mb \in [Box -> Mailbox]
    /\ at \in [Receiver -> Place]
    /\ held \in [Receiver -> Mail]
    /\ \A r \in Receiver :
         /\ at[r] \in Location[r]
         /\ mb[BoxOf[r]].susp \in {<< >>, <<r>>}
         /\ Len(mb[BoxOf[r]].mails) <= MbSize

\* mailbox_init; no thread but main exists yet.
Init ==
    /\ ParserInit
    /\ mb = [b \in Box |-> MbInit]
    /\ at = [r \in Receiver |-> IF r = "main" THEN "init" ELSE "dormant"]
    /\ held = [r \in Receiver |-> Early]

-----------------------------------------------------------------------------
(* A form the code could have had by mistake.                              *)

\* The thread that takes over the messages of "ble" has its priority.
PrioEqual == [main |-> 10, oled_text |-> 25, dst_show |-> 23, ble |-> 25]
-----------------------------------------------------------------------------
(* Scheduling                                                              *)

\* The priorities the threads are created with.
Prio == [main |-> 10, oled_text |-> 20, dst_show |-> 23, ble |-> 25]

\* A thread that exists and neither sleeps nor is suspended on its mailbox.  The
\* thread "ble" counts as ready while it waits for a character, too: it has the
\* lowest priority and keeps nobody from running.
Ready(t) ==
    \/ t = "ble" /\ at["main"] # "init"
    \/ t = "dst_show" /\ at[t] \notin {"dormant", "sleep"}
    \/ /\ t \in {"main", "oled_text"}
       /\ at[t] \notin {"begin", "dormant"}
       /\ ~IsSuspended(mb[BoxOf[t]], t)

\* rt_schedule always switches to a ready thread of the highest priority.
CanRun(t) == Ready(t) /\ \A u \in Thread : Ready(u) => Prio[t] <= Prio[u]

-----------------------------------------------------------------------------
(* Receivers                                                               *)

\* rt_mb_recv(mb, &str, RT_WAITING_FOREVER): takes a mail or is suspended; a
\* receiver that has been resumed looks again.
Recv(r) ==
    IF mb[BoxOf[r]].mails # << >>
    THEN /\ held' = [held EXCEPT ![r] = Head(mb[BoxOf[r]].mails)]
         /\ mb' = [mb EXCEPT ![BoxOf[r]] = MbTaken(@)]
         /\ at' = [at EXCEPT ![r] = "copy"]
    ELSE /\ mb' = [mb EXCEPT ![BoxOf[r]] = MbWait(@, r)]
         /\ at' = [at EXCEPT ![r] = "wait"]
         /\ UNCHANGED held

\* bluetooth_init starts "ble"; main goes on into button_u8g2_init, where
\* u8g2.begin sleeps.
MainStartBle ==
    /\ at["main"] = "init"
    /\ at' = [at EXCEPT !["main"] = "begin"]
    /\ UNCHANGED <<mb, held>>

\* The display is up (u8g2.begin has returned): the rest of button_u8g2_init
\* starts the two display threads.
MainStartDisplay ==
    /\ at["main"] = "begin"
    /\ at' = [main |-> "speech", oled_text |-> "recv", dst_show |-> "poll"]
    /\ UNCHANGED <<mb, held>>

\* SYN6288_init and the first frame, sent by polling.
MainEnterLoop ==
    /\ at["main"] = "speech"
    /\ at' = [at EXCEPT !["main"] = "recv"]
    /\ UNCHANGED <<mb, held>>

MainRecv == at["main"] \in {"recv", "wait"} /\ Recv("main")

\* strcat(head, str)
MainCopy ==
    /\ at["main"] = "copy"
    /\ at' = [at EXCEPT !["main"] = "speak"]
    /\ held' = [held EXCEPT !["main"] = Early]
    /\ UNCHANGED mb

\* utf82gbk, SYN_FrameInfo (sent by polling), rt_free
MainSpeak ==
    /\ at["main"] = "speak"
    /\ at' = [at EXCEPT !["main"] = "recv"]
    /\ UNCHANGED <<mb, held>>

Main ==
    /\ \/ MainStartBle \/ MainStartDisplay \/ MainEnterLoop
       \/ MainRecv \/ MainCopy \/ MainSpeak
    /\ at["main"] # "begin" => CanRun("main")
    /\ UNCHANGED parserVars

\* u8g2_get_txt
TextRecv == at["oled_text"] \in {"recv", "wait"} /\ Recv("oled_text")

\* memset and strncpy into text, rt_sem_release
TextCopy ==
    /\ at["oled_text"] = "copy"
    /\ at' = [at EXCEPT !["oled_text"] = "recv"]
    /\ held' = [held EXCEPT !["oled_text"] = Early]
    /\ UNCHANGED mb

OledText ==
    /\ TextRecv \/ TextCopy
    /\ CanRun("oled_text")
    /\ UNCHANGED parserVars

\* changeTime: rt_mb_recv(&ble_mb_time, &time_input, RT_WAITING_NO)
ShowPoll ==
    /\ at["dst_show"] = "poll"
    /\ IF mb["ble_mb_time"].mails = << >>
       THEN /\ at' = [at EXCEPT !["dst_show"] = "draw"]
            /\ UNCHANGED <<mb, held>>
       ELSE /\ held' = [held EXCEPT !["dst_show"] = Head(mb["ble_mb_time"].mails)]
            /\ mb' = [mb EXCEPT !["ble_mb_time"] = MbTaken(@)]
            /\ at' = [at EXCEPT !["dst_show"] = "copy"]

\* changeTime: strncpy into time_get, then the clock is set
ShowCopy ==
    /\ at["dst_show"] = "copy"
    /\ at' = [at EXCEPT !["dst_show"] = "draw"]
    /\ held' = [held EXCEPT !["dst_show"] = Early]
    /\ UNCHANGED mb

\* the rest of the round, up to rt_thread_mdelay(10)
ShowDraw ==
    /\ at["dst_show"] = "draw"
    /\ at' = [at EXCEPT !["dst_show"] = "sleep"]
    /\ UNCHANGED <<mb, held>>

DstShow ==
    /\ ShowPoll \/ ShowCopy \/ ShowDraw
    /\ CanRun("dst_show")
    /\ UNCHANGED parserVars

\* The timer ends rt_thread_mdelay(10).
ShowWake ==
    /\ at["dst_show"] = "sleep"
    /\ at' = [at EXCEPT !["dst_show"] = "poll"]
    /\ UNCHANGED <<parserVars, mb, held>>

-----------------------------------------------------------------------------
(* The sender                                                              *)

\* Is the receiver of box b up: has it got as far as its receive loop?
InService(b) ==
    at[ReceiverOf[b]] \notin {"init", "begin", "speech", "dormant"}

\* rt_mb_send(box, &_data_); the result is not looked at
BleSend ==
    /\ Send
    /\ LET b == Head(todo)
           mail == [str |-> CString(data), early |-> FALSE]
       IN  mb' = [mb EXCEPT ![b] = MbSend(@, IF InService(b) THEN mail ELSE Early)]
    /\ UNCHANGED <<at, held>>

BleParse ==
    /\ (\E c \in Input : GetChar(c)) \/ StoreChar \/ EndLine \/ Restart
    /\ UNCHANGED <<mb, at, held>>

Ble == CanRun("ble") /\ (BleSend \/ BleParse)

-----------------------------------------------------------------------------

Next == Main \/ OledText \/ DstShow \/ ShowWake \/ Ble

Spec == Init /\ [][Next]_vars

(***************************************************************************)
(* Fairness.  A receiver that is ready and outranks the others runs, a     *)
(* sleeping thread is woken, and the display comes up.  Nothing is assumed *)
(* of the sender: the peer may stop sending at any time.                   *)
(***************************************************************************)
FairSpec ==
    /\ Spec
    /\ WF_vars(Main)
    /\ WF_vars(OledText)
    /\ WF_vars(DstShow)
    /\ WF_vars(ShowWake)

-----------------------------------------------------------------------------
(***************************************************************************)
(* A message reaches the speech chip and the display text as it was sent,  *)
(* although only its address is passed: when main or oled_text copies the  *)
(* buffer, it still holds the string of the mail, provided the receiver    *)
(* was in its loop when the mail was sent.                                 *)
(***************************************************************************)
HandoverIntact ==
    \A r \in {"main", "oled_text"} :
        at[r] = "copy" /\ ~held[r].early => CString(data) = held[r].str

(***************************************************************************)
(* The results of rt_mb_send need no looking at once the receiver is up:   *)
(* whenever "ble" is about to send to main or to oled_text, the mailbox    *)
(* has been emptied since the last mail.                                   *)
(***************************************************************************)
SendFindsEmptyBox ==
    pc = "send" /\ todo # << >> /\ CanRun("ble") =>
        LET b == Head(todo) IN
        b # "ble_mb_time" /\ InService(b) => mb[b].mails = << >>

(***************************************************************************)
(* Every mailbox that has a mail is served, those filled while the display *)
(* was starting included.                                                  *)
(***************************************************************************)
EveryBoxServed ==
    \A b \in Box : mb[b].mails # << >> ~> at[ReceiverOf[b]] = "copy"

(***************************************************************************)
(* What the comment at the send to ble_mb_time says: what is passed on is  *)
(* the time.  changeTime copies the characters behind the mark 'T', from   *)
(* the second cell to the NUL: they are those that were sent, if the       *)
(* thread was up when they were sent.                                      *)
(***************************************************************************)
TimeIntact ==
    at["dst_show"] = "copy" /\ ~held["dst_show"].early =>
        LET s == held["dst_show"].str IN
        \A k \in 1 .. Len(s) : data[k] = IF k < Len(s) THEN s[k + 1] ELSE NUL
=============================================================================
