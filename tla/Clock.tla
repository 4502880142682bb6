-------------------------------- MODULE Clock --------------------------------
(***************************************************************************)
(* The clock: the software RTC (rtc/soft_rtc.c), which derives the time    *)
(* from the tick counter, and the threads that set and show it,            *)
(*                                                                         *)
(*   main        sets the date and the time once       (oled_btn.cpp)      *)
(*   tshell      runs the shell's command date, which sets the clock or    *)
(*               prints it                             (rtc/rtc.c)         *)
(*   dst_show    runs date for a time message, and then getStrTime, in     *)
(*               every round of drawing                (oled_btn.cpp)      *)
(*                                                                         *)
(* set_time and set_date each read the clock, change half of it and write  *)
(* it back; date calls the one and then the other.  Ticks come at any      *)
(* time, and a thread of higher priority may take over between any two     *)
(* steps.  localtime returns the address of its one struct tm.             *)
(*                                                                         *)
(* The fields of a message are any numbers: those it lacks are read from   *)
(* blocks of memory nobody has written to.                                 *)
(***************************************************************************)
EXTENDS Calendar, Sequences

CONSTANTS
    TickMod,                \* rt_tick_t has the values 0 .. TickMod - 1: 2^32
    RT_TICK_PER_SECOND,     \* 1000
    Messages,               \* the numbers of a date command or time message
    MaxAge                  \* bound: ticks during one call of date or getStrTime

\* The tick counter counts more than a second and wraps within 50 days.
ASSUME TickAssumption ==
    /\ RT_TICK_PER_SECOND \in Nat \ {0}
    /\ TickMod \in Nat /\ TickMod > RT_TICK_PER_SECOND
    /\ (TickMod - 1) \div RT_TICK_PER_SECOND <= 50 * SPD
\* A call takes less than a day.
ASSUME AgeAssumption == MaxAge \in Nat /\ MaxAge < RT_TICK_PER_SECOND * (SPD - 1)
\* The last year a message can name is 2099.
ASSUME LastYearAssumption == LastYear >= 2100
ASSUME MessageAssumption ==
    \A m \in Messages : DOMAIN m = 1 .. 6 /\ \A i \in 1 .. 6 : m[i] \in Nat

VARIABLES
    ticks,      \* rt_tick_get() - init_tick
    init_time,  \* the time at init_tick
    tmp,        \* the struct tm of localtime
    at,         \* where each thread is
    todo,       \* the calls it has yet to complete
    req,        \* the numbers it was given
    tm_new,     \* the local variable of set_time and set_date
    stamp,      \* what it is about to write to init_time
    now,        \* the global variable of getStrTime; 0 once it is not read any more
    shown,      \* the string of getStrTime
    hist        \* of each thread's call, for the properties only

vars == <<ticks, init_time, tmp, at, todo, req, tm_new, stamp, now, shown, hist>>

Thread == {"main", "tshell", "dst_show"}
Prio == [main |-> 10, tshell |-> 20, dst_show |-> 23]

\* SOFT_RTC_TIME_DEFAULT, and the calls of button_u8g2_init.
TimeDefault == mktime([tm_year |-> 118, tm_mon |-> 0, tm_mday |-> 1,
                       tm_hour |-> 0, tm_min |-> 0, tm_sec |-> 0])
Boot == [year |-> 2022, month |-> 5, day |-> 15, hour |-> 18, min |-> 0, sec |-> 0]

Request == [year : 2000 .. 2099, month : 1 .. 12, day : 1 .. 31,
            hour : 0 .. 23, min : 0 .. 59, sec : 0 .. 59]
tm == [tm_year : 70 .. LastYear - 1900, tm_mon : 0 .. 11, tm_mday : 1 .. 31,
       tm_hour : 0 .. 23, tm_min : 0 .. 59, tm_sec : 0 .. 59]
TimeOfDay(r) == (r.hour * 60 + r.min) * 60 + r.sec

\* A call has been under way for age ticks; times are the times of day that it,
\* or a thread that came in between, was asked to set; wrapped says that the tick
\* counter has wrapped meanwhile, and torn that another thread was about to set
\* the clock, or called localtime while the string was being made.
Begun(times) == [age |-> 0, times |-> times, wrapped |-> FALSE, torn |-> FALSE]

Idle == gmtime_r(0)

\* getStrTime reads the fields in this order.
Fields == {"tm_year", "tm_mon", "tm_mday", "tm_hour", "tm_min", "tm_sec"}
After == [tm_year |-> "tm_mon", tm_mon |-> "tm_mday", tm_mday |-> "tm_hour",
          tm_hour |-> "tm_min", tm_min |-> "tm_sec", tm_sec |-> "draw"]

TypeOK ==
    /\ ticks \in 0 .. TickMod - 1
    /\ init_time \in Nat /\ now \in Nat
    /\ tmp \in tm /\ shown \in tm
    /\ at \in [Thread -> {"idle", "call", "mktime", "store",
                          "time", "localtime", "draw"} \cup Fields]
    /\ todo \in [Thread -> {<< >>, <<"set_time">>, <<"set_date">>,
                            <<"set_time", "set_date">>, <<"set_date", "set_time">>}]
    /\ \A s \in Thread :
         (todo[s] = << >>) <=> at[s] \notin {"call", "mktime", "store"}
    /\ req \in [Thread -> Request]
    /\ tm_new \in [Thread -> tm]
    /\ stamp \in [Thread -> Nat]
    /\ hist \in [Thread -> [age : 0 .. MaxAge, times : SUBSET (0 .. SPD - 1),
                            wrapped : BOOLEAN, torn : BOOLEAN]]

\* rt_soft_rtc_init, and main on its way to button_u8g2_init.
Init ==
    /\ ticks = 0
    /\ init_time = TimeDefault
    /\ tmp = Idle /\ shown = Idle /\ now = 0
    /\ at = [s \in Thread |-> IF s = "main" THEN "call" ELSE "idle"]
    /\ todo = [s \in Thread |->
                  IF s = "main" THEN <<"set_date", "set_time">> ELSE << >>]
    /\ req = [s \in Thread |-> Boot]
    /\ tm_new = [s \in Thread |-> Idle]
    /\ stamp = [s \in Thread |-> 0]
    /\ hist = [s \in Thread |-> Begun(IF s = "main" THEN {TimeOfDay(Boot)} ELSE {})]

Active(s) == at[s] # "idle"
Runs(s) == \A s2 \in Thread : Active(s2) => Prio[s] <= Prio[s2]

-----------------------------------------------------------------------------
(* Forms the code could have had by mistake.                               *)

\* The ticks are taken for seconds.
GetTimeInTicks == init_time + ticks

\* Month 0 is not noticed.
InRangeMonth0(r) ==
    /\ r.year \in 2000 .. 2099 /\ r.month <= 12 /\ r.day \in 1 .. 31
    /\ r.hour <= 23 /\ r.min <= 59 /\ r.sec <= 59

\* The date is set first.
DateFirst == <<"set_date", "set_time">>

\* Each field is taken from the clock anew.
StrFieldAnew(f) ==
    /\ Runs("dst_show")
    /\ at["dst_show"] = f
    /\ shown' = [shown EXCEPT ![f] = gmtime_r(init_time + ticks \div RT_TICK_PER_SECOND)[f]]
    /\ at' = [at EXCEPT !["dst_show"] = After[f]]
    /\ UNCHANGED <<ticks, init_time, tmp, todo, req, tm_new, stamp, now, hist>>
-----------------------------------------------------------------------------

\* RT_DEVICE_CTRL_RTC_GET_TIME
Elapsed == ticks \div RT_TICK_PER_SECOND
GetTime == init_time + Elapsed

-----------------------------------------------------------------------------
(* The tick interrupt.                                                     *)

Tick ==
    /\ \A s \in Thread : Active(s) => hist[s].age < MaxAge
    /\ ticks' = (ticks + 1) % TickMod
    /\ hist' = [s \in Thread |->
                  IF ~Active(s) THEN hist[s]
                  ELSE [hist[s] EXCEPT !.age = @ + 1,
                                       !.wrapped = IF ticks' = 0 THEN TRUE ELSE @]]
    /\ UNCHANGED <<init_time, tmp, at, todo, req, tm_new, stamp, now, shown>>

-----------------------------------------------------------------------------
(* date, set_time and set_date.                                            *)

\* uint16_t year; uint8_t month, day, hour, min, sec
Cut(m) == [year |-> m[1] % 2^16, month |-> m[2] % 2^8, day |-> m[3] % 2^8,
           hour |-> m[4] % 2^8, min |-> m[5] % 2^8, sec |-> m[6] % 2^8]

InRange(r) == r \in Request

\* What date calls.
DateCalls == <<"set_time", "set_date">>

\* date.  A request that is out of range is refused: nothing happens.
Date(s, m) ==
    /\ s # "main"
    /\ Runs(s)
    /\ at[s] = "idle"
    /\ InRange(Cut(m))
    /\ at' = [at EXCEPT ![s] = "call"]
    /\ todo' = [todo EXCEPT ![s] = DateCalls]
    /\ req' = [req EXCEPT ![s] = Cut(m)]
    /\ hist' = [s2 \in Thread |->
                  IF s2 = s THEN Begun({TimeOfDay(Cut(m))})
                  ELSE IF Active(s2)
                  THEN [hist[s2] EXCEPT !.times = @ \cup {TimeOfDay(Cut(m))}]
                  ELSE hist[s2]]
    /\ UNCHANGED <<ticks, init_time, tmp, tm_new, stamp, now, shown>>

\* tm_new with the half replaced that the call is to set.
Changed(call, tm0, r) ==
    IF call = "set_time"
    THEN [tm0 EXCEPT !.tm_hour = r.hour, !.tm_min = r.min, !.tm_sec = r.sec]
    ELSE [tm0 EXCEPT !.tm_year = r.year - 1900, !.tm_mon = r.month - 1,
                     !.tm_mday = r.day]

\* time, localtime and the copy, and the assignments to tm_new.
Read(s) ==
    /\ Runs(s)
    /\ at[s] = "call"
    /\ tmp' = gmtime_r(GetTime)
    /\ tm_new' = [tm_new EXCEPT ![s] = Changed(Head(todo[s]), tmp', req[s])]
    /\ at' = [at EXCEPT ![s] = "mktime"]
    /\ hist' = [s2 \in Thread |->
                  IF s2 # s /\ Active(s2) THEN [hist[s2] EXCEPT !.torn = TRUE]
                  ELSE hist[s2]]
    /\ UNCHANGED <<ticks, init_time, todo, req, stamp, now, shown>>

\* mktime, and the right-hand side of RT_DEVICE_CTRL_RTC_SET_TIME.
Stamp(s) ==
    /\ Runs(s)
    /\ at[s] = "mktime"
    /\ stamp' = [stamp EXCEPT ![s] = mktime(tm_new[s]) - Elapsed]
    /\ at' = [at EXCEPT ![s] = "store"]
    /\ UNCHANGED <<ticks, init_time, tmp, todo, req, tm_new, now, shown, hist>>

\* init_time = ..., and on to the next call.  When date returns dst_show goes on
\* to getStrTime, and the other two are done.
Store(s) ==
    /\ Runs(s)
    /\ at[s] = "store"
    /\ init_time' = stamp[s]
    /\ todo' = [todo EXCEPT ![s] = Tail(@)]
    /\ at' = [at EXCEPT ![s] = IF todo'[s] # << >> THEN "call"
                               ELSE IF s = "dst_show" THEN "time" ELSE "idle"]
    /\ tm_new' = [tm_new EXCEPT ![s] = Idle]
    /\ stamp' = [stamp EXCEPT ![s] = 0]
    /\ IF todo'[s] # << >> THEN UNCHANGED <<req, hist>>
       ELSE /\ req' = [req EXCEPT ![s] = Boot]
            /\ hist' = [hist EXCEPT ![s] = Begun({})]
    /\ UNCHANGED <<ticks, tmp, now, shown>>

\* date without numbers, at the shell: ctime calls localtime.  A string that is
\* being made is torn.
DateShow ==
    /\ Runs("tshell")
    /\ at["tshell"] = "idle"
    /\ tmp' = gmtime_r(GetTime)
    /\ hist' = IF at["dst_show"] \in Fields
               THEN [hist EXCEPT !["dst_show"] = [@ EXCEPT !.torn = TRUE]] ELSE hist
    /\ UNCHANGED <<ticks, init_time, at, todo, req, tm_new, stamp, now, shown>>

-----------------------------------------------------------------------------
(* getStrTime                                                              *)

\* No message in the mailbox.
NoMessage ==
    /\ Runs("dst_show")
    /\ at["dst_show"] = "idle"
    /\ at' = [at EXCEPT !["dst_show"] = "time"]
    /\ hist' = [hist EXCEPT !["dst_show"] = Begun({})]
    /\ UNCHANGED <<ticks, init_time, tmp, todo, req, tm_new, stamp, now, shown>>

\* now = time(RT_NULL);
GetNow ==
    /\ Runs("dst_show")
    /\ at["dst_show"] = "time"
    /\ now' = GetTime
    /\ at' = [at EXCEPT !["dst_show"] = "localtime"]
    /\ hist' = [hist EXCEPT !["dst_show"] = Begun({})]
    /\ UNCHANGED <<ticks, init_time, tmp, todo, req, tm_new, stamp, shown>>

\* t = localtime(&now);
LocalTime ==
    /\ Runs("dst_show")
    /\ at["dst_show"] = "localtime"
    /\ tmp' = gmtime_r(now)
    /\ now' = 0
    /\ at' = [at EXCEPT !["dst_show"] = "tm_year"]
    /\ UNCHANGED <<ticks, init_time, todo, req, tm_new, stamp, shown, hist>>

\* One field goes into the string.
StrField(f) ==
    /\ Runs("dst_show")
    /\ at["dst_show"] = f
    /\ shown' = [shown EXCEPT ![f] = tmp[f]]
    /\ at' = [at EXCEPT !["dst_show"] = After[f]]
    /\ UNCHANGED <<ticks, init_time, tmp, todo, req, tm_new, stamp, now, hist>>

\* The frame is drawn, and the thread sleeps.
Draw ==
    /\ Runs("dst_show")
    /\ at["dst_show"] = "draw"
    /\ at' = [at EXCEPT !["dst_show"] = "idle"]
    /\ shown' = Idle
    /\ hist' = [hist EXCEPT !["dst_show"] = Begun({})]
    /\ UNCHANGED <<ticks, init_time, tmp, todo, req, tm_new, stamp, now>>

Next ==
    \/ Tick
    \/ \E s \in Thread : \/ \E m \in Messages : Date(s, m)
                         \/ Read(s) \/ Stamp(s) \/ Store(s)
    \/ DateShow
    \/ NoMessage \/ GetNow \/ LocalTime \/ Draw
    \/ \E f \in Fields : StrField(f)

Spec == Init /\ [][Next]_vars

-----------------------------------------------------------------------------
\* The first second of the day a request names, by the calendar.  30 February is
\* the day after 29 February or the second after 28 February.
FirstOfMonth ==
    [year \in 2000 .. 2099 |-> [mon \in 0 .. 11 |->
        CHOOSE day \in DaysUntil[year] .. DaysUntil[year + 1] - 1 :
            DateOf[day] = [tm_year |-> year - 1900, tm_mon |-> mon, tm_mday |-> 1]]]
Midnight(r) == SPD * (FirstOfMonth[r.year][r.month - 1] + r.day - 1)

\* The seconds that have begun since a thread's call did.
Late(s) == Elapsed - (ticks - hist[s].age) \div RT_TICK_PER_SECOND

(***************************************************************************)
(* Whatever numbers a message has and whatever happens meanwhile, a call   *)
(* of date, and the two calls at boot, leave the clock at the time asked   *)
(* for, cut to 8 and 16 bits, and on the day asked for.  It may be late by *)
(* no more seconds than the call took, and it is a day behind if midnight  *)
(* passed between set_time and set_date.  If another thread has set the    *)
(* clock in between the time of day may be the one asked for there.        *)
(***************************************************************************)
LandsOnRequest ==
    [][\A s \in Thread :
          todo[s] # << >> /\ todo'[s] = << >> /\ ~hist[s].wrapped =>
              \E t \in hist[s].times, d \in 0 .. Late(s) :
                  \/ GetTime' = Midnight(req[s]) + t + d
                  \/ t + d >= SPD /\ GetTime' = Midnight(req[s]) + t + d - SPD]_vars

(***************************************************************************)
(* The string that getStrTime makes in many steps is that of one moment,   *)
(* and not older than its call of time, as long as no other thread sets    *)
(* the clock meanwhile or calls localtime while the fields are read (and   *)
(* the tick counter does not wrap).                                        *)
(***************************************************************************)
ShownIsOneMoment ==
    at["dst_show"] = "draw" /\ ~hist["dst_show"].torn /\ ~hist["dst_show"].wrapped =>
        \E d \in 0 .. Late("dst_show") : shown = gmtime_r(GetTime - d)

\* The second after the one that x gives, by the calendar.
NextSecond(x) ==
    LET time == (x.tm_hour * 60 + x.tm_min) * 60 + x.tm_sec + 1
        today == [tm_year |-> x.tm_year, tm_mon |-> x.tm_mon, tm_mday |-> x.tm_mday]
        date == IF time < SPD THEN today ELSE NextDate(today)
    IN  [tm_year |-> date.tm_year, tm_mon |-> date.tm_mon, tm_mday |-> date.tm_mday,
         tm_hour |-> (time % SPD) \div 3600, tm_min |-> (time \div 60) % 60,
         tm_sec |-> time % 60]

(***************************************************************************)
(* A tick takes the clock to the next second of the calendar or leaves it  *)
(* where it is, with one exception: when the tick counter wraps, after 49  *)
(* days, the clock goes back to where it was then, and never beyond it.    *)
(***************************************************************************)
TickIsNextSecond ==
    [][ticks' # ticks =>
          IF ticks' # 0
          THEN gmtime_r(GetTime') \in {gmtime_r(GetTime), NextSecond(gmtime_r(GetTime))}
          ELSE GetTime' = GetTime - (TickMod - 1) \div RT_TICK_PER_SECOND]_vars

(***************************************************************************)
(* What the comment of set_time says: "Set system time(date not modify)."  *)
(* It would at least not take the date back when it writes, with no other  *)
(* thread setting the clock and no wrap of the tick counter in between.    *)
(***************************************************************************)
SetTimeKeepsDate ==
    [][\A s \in Thread :
          /\ at[s] = "store" /\ at'[s] # "store" /\ Head(todo[s]) = "set_time"
          /\ ~hist[s].torn /\ ~hist[s].wrapped
          => GetTime' \div SPD >= GetTime \div SPD]_vars
=============================================================================
