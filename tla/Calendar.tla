------------------------------ MODULE Calendar ------------------------------
(***************************************************************************)
(* The C library's calendar (libc/compilers/common/time.c): gmtime_r and   *)
(* mktime, and what they should agree with.  A day is counted from         *)
(* 1 January 1970; a struct tm is a record of the fields that are used.    *)
(***************************************************************************)
EXTENDS Integers, FiniteSets, FiniteSetsExt

CONSTANT LastYear       \* bound: the calendar goes to the end of this year

ASSUME YearAssumption == LastYear \in Nat /\ LastYear >= 1970

\* seconds per day
SPD == 24 * 60 * 60

isleap(year) == year % 4 = 0 /\ (year % 100 # 0 \/ year % 400 = 0)

YearLength(year) == IF isleap(year) THEN 366 ELSE 365

\* days per month, added up -- nonleap!
spm(mon) == <<0, 31, 59, 90, 120, 151, 181, 212, 243, 273, 304, 334, 365>>[mon + 1]

\* What the loop over the years has taken off work when it comes to year i.
DaysUntil ==
    [i \in 1970 .. LastYear + 1 |->
        365 * (i - 1970) + Cardinality({y \in 1970 .. i - 1 : isleap(y)})]

Days == 0 .. DaysUntil[LastYear + 1] - 1

\* gmtime_r, the date: the year whose days work has not reached, then the month
\* by the table of a common year, from which 29 February is kept apart.
DateOf ==
    [day \in Days |->
        LET i == CHOOSE y \in 1970 .. LastYear :
                    DaysUntil[y] <= day /\ day < DaysUntil[y + 1]
            yday == day - DaysUntil[i]
            work == IF isleap(i) /\ yday > 58 THEN yday - 1 ELSE yday
            mon == Max({m \in 0 .. 11 : m = 0 \/ spm(m) <= work})
            mday == IF isleap(i) /\ yday = 59 THEN 2 ELSE 1
        IN  [tm_year |-> i - 1900, tm_mon |-> mon, tm_mday |-> mday + work - spm(mon)]]

gmtime_r(t) ==
    LET date == DateOf[t \div SPD]
        work == t % SPD
    IN  [tm_year |-> date.tm_year, tm_mon |-> date.tm_mon, tm_mday |-> date.tm_mday,
         tm_hour |-> work \div 3600, tm_min |-> (work \div 60) % 60, tm_sec |-> work % 60]

\* mktime, the day.  (What it does first, for fields above their range, is not
\* reached by this program.  A day of the month that does not exist, such as
\* 30 February, is counted on into the next month.)
mkday(date) ==
    LET years == date.tm_year - 70
        centuries == (years - 131) \div 100
        noleap == IF years < 131 THEN 0
                  ELSE (centuries \div 4) * 3 + 1
                       + (IF centuries % 4 = 3 THEN 2 ELSE centuries % 4)
        leapday == IF isleap(date.tm_year + 1900) /\ date.tm_mon > 1 THEN 1 ELSE 0
    IN  years * 365 + (years + 1) \div 4 - noleap
            + spm(date.tm_mon) + date.tm_mday - 1 + leapday

mktime(tm) ==
    ((mkday(tm) * 24 + tm.tm_hour) * 60 + tm.tm_min) * 60 + tm.tm_sec

-----------------------------------------------------------------------------
(* The calendar as it is taught.                                           *)

MonthLength(year, mon) ==
    CASE mon \in {3, 5, 8, 10} -> 30
      [] mon = 1 -> IF isleap(year) THEN 29 ELSE 28
      [] OTHER -> 31

NextDate(date) ==
    IF date.tm_mday < MonthLength(date.tm_year + 1900, date.tm_mon)
    THEN [date EXCEPT !.tm_mday = @ + 1]
    ELSE IF date.tm_mon < 11
    THEN [tm_year |-> date.tm_year, tm_mon |-> date.tm_mon + 1, tm_mday |-> 1]
    ELSE [tm_year |-> date.tm_year + 1, tm_mon |-> 0, tm_mday |-> 1]

\* gmtime_r counts the days as it should, and mktime is its inverse.
CalendarIsRight ==
    /\ DateOf[0] = [tm_year |-> 70, tm_mon |-> 0, tm_mday |-> 1]
    /\ \A day \in Days :
         /\ mkday(DateOf[day]) = day
         /\ day + 1 \in Days => DateOf[day + 1] = NextDate(DateOf[day])
=============================================================================
