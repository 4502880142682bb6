----------------------------- MODULE ClockProofs -----------------------------
(***************************************************************************)
(* Theorems about the calendar and the clock, for every last year from     *)
(* 2100, every length of the tick counter's cycle up to 50 days, every set *)
(* of messages and calls of any length below a day:                        *)
(*                                                                         *)
(*   CalendarTheorem       gmtime_r counts the days right and mktime is    *)
(*                         its inverse,                                    *)
(*   MktimeInverse         to the second                                   *)
(*   ClockTypes            the time never leaves the calendar              *)
(*   ClockTicks            a tick is the next second of the calendar       *)
(*   ClockShowsOneMoment   the string is of one moment                     *)
(*   ClockLandsOnRequest   date and the calls at boot land where asked     *)
(*                                                                         *)
(* The inductive invariant has four parts.  Control says where the threads *)
(* are.  Bounds keeps the time in the calendar: a message names a day of   *)
(* 2000 to 2099; between set_time and set_date the clock may be off by a   *)
(* wrap of the tick counter (50 days) and a midnight, 51 days in all, and  *)
(* that twice when tshell's date comes in the middle of dst_show's.  Text  *)
(* is about the struct tm of localtime and the string made from it, and    *)
(* Aim about how far each call has come on its way to the request.         *)
(***************************************************************************)
EXTENDS Clock, TLAPS, FiniteSetTheorems, NaturalsInduction, WellFoundedInduction

-----------------------------------------------------------------------------
(* The calendar.                                                           *)

\* Years that are leap by the rule of four and not by the calendar.
NoLeap(years) ==
    LET c == (years - 131) \div 100
    IN  IF years < 131 THEN 0
        ELSE (c \div 4) * 3 + 1 + (IF c % 4 = 3 THEN 2 ELSE c % 4)
\* The day on which year y begins, by the formula of mktime.
YearStart(y) == (y - 1970) * 365 + (y - 1969) \div 4 - NoLeap(y - 1970)

\* The correction of mktime grows by one with each year that 4 divides and that
\* is not leap.
LEMMA NoLeapStep ==
    ASSUME NEW y \in Nat, y >= 1970
    PROVE  /\ NoLeap(y - 1970) \in Int
           /\ NoLeap(y + 1 - 1970) = NoLeap(y - 1970)
               + (IF y % 4 = 0 /\ ~isleap(y) THEN 1 ELSE 0)
<1>1. CASE y < 2100
  BY <1>1 DEF NoLeap, isleap
<1>2. CASE y >= 2100
  BY <1>2 DEF NoLeap, isleap
<1>. QED
  BY <1>1, <1>2

\* By mktime's formula a year begins where the last one ends.
LEMMA YearStartStep ==
    ASSUME NEW y \in Nat, y >= 1970
    PROVE  YearStart(y) \in Int /\ YearStart(y + 1) = YearStart(y) + YearLength(y)
<1>1. (y + 1 - 1969) \div 4 = (y - 1969) \div 4 + (IF y % 4 = 0 THEN 1 ELSE 0)
  OBVIOUS
<1>2. isleap(y) => y % 4 = 0
  BY DEF isleap
<1>. QED
  BY <1>1, <1>2, NoLeapStep DEF YearStart, YearLength

\* The order of the naturals is well founded.
LEMMA NatWellFounded == IsWellFoundedOn({z \in Nat \X Nat : z[1] < z[2]}, Nat)
BY NatLessThanWellFounded DEF OpToRel

\* A set of naturals that is not empty has a least element.
LEMMA HasLeast ==
    ASSUME NEW S, S \subseteq Nat, S # {}
    PROVE  \E x \in S : \A y \in S : x <= y
<1>1. PICK x \in S : \A y \in S : ~(<<y, x>> \in {z \in Nat \X Nat : z[1] < z[2]})
  BY WFMin, NatWellFounded
<1>2. ASSUME NEW y \in S PROVE x <= y
  <2>1. <<y, x>> \in Nat \X Nat /\ <<y, x>>[1] = y /\ <<y, x>>[2] = x
    OBVIOUS
  <2>2. ~(y < x)
    BY <1>1, <2>1
  <2>. QED
    BY <2>2
<1>. QED
  BY <1>2

\* The leap years before year i + 1 are those before year i, and i if it is one.
LEMMA LeapsStep ==
    ASSUME NEW i \in Nat, i >= 1970,
           NEW A, A = {y \in 1970 .. i - 1 : isleap(y)},
           NEW B, B = {y \in 1970 .. i : isleap(y)}
    PROVE  /\ Cardinality(A) \in Nat
           /\ Cardinality(B) = Cardinality(A) + (IF isleap(i) THEN 1 ELSE 0)
<1>1. IsFiniteSet(A)
  <2>1. IsFiniteSet(1970 .. i - 1)
    BY FS_Interval
  <2>. QED
    BY <2>1, FS_Subset
<1>2. i \notin A /\ isleap(i) => B = A \cup {i}
  OBVIOUS
<1>3. ~isleap(i) => B = A
  OBVIOUS
<1>4. i \notin A
  OBVIOUS
<1>5. Cardinality(A) \in Nat
  BY <1>1, FS_CardinalityType
<1>6. Cardinality(A \cup {i}) = Cardinality(A) + 1
  BY <1>1, <1>4, FS_AddElement
<1>7. CASE isleap(i)
  BY <1>2, <1>4, <1>5, <1>6, <1>7
<1>8. CASE ~isleap(i)
  BY <1>3, <1>5, <1>8
<1>. QED
  BY <1>7, <1>8

\* The loop of gmtime_r takes off the length of one year in each round.
LEMMA DaysUntilStep ==
    /\ DaysUntil[1970] = 0
    /\ \A i \in 1970 .. LastYear :
         DaysUntil[i] \in Nat /\ DaysUntil[i + 1] = DaysUntil[i] + YearLength(i)
<1> USE YearAssumption
<1>1. DaysUntil[1970] = 0
  <2>1. {y \in 1970 .. 1970 - 1 : isleap(y)} = {}
    OBVIOUS
  <2>2. Cardinality({}) = 0
    BY FS_EmptySet
  <2>. QED
    BY <2>1, <2>2 DEF DaysUntil
<1>2. ASSUME NEW i \in 1970 .. LastYear
      PROVE  DaysUntil[i] \in Nat /\ DaysUntil[i + 1] = DaysUntil[i] + YearLength(i)
  <2> DEFINE A == {y \in 1970 .. i - 1 : isleap(y)}
             B == {y \in 1970 .. i : isleap(y)}
             a == Cardinality(A)
             b == Cardinality(B)
  <2>1. i \in Nat /\ i >= 1970 /\ i \in 1970 .. LastYear + 1 /\ i + 1 \in 1970 .. LastYear + 1
    OBVIOUS
  <2>2. a \in Nat /\ b = a + (IF isleap(i) THEN 1 ELSE 0)
    BY <2>1, LeapsStep
  <2>3. DaysUntil[i] = 365 * (i - 1970) + a
    BY <2>1 DEF DaysUntil
  <2>4. (i + 1) - 1 = i
    BY <2>1
  <2>5. DaysUntil[i + 1] = 365 * (i + 1 - 1970) + b
    BY <2>1, <2>4 DEF DaysUntil
  <2> HIDE DEF a, b
  <2>. QED
    BY <2>1, <2>2, <2>3, <2>5 DEF YearLength
<1>. QED
  BY <1>1, <1>2

\* The days the loop of gmtime_r counts are those of mktime's formula: were there
\* a year for which they are not, take the first.
LEMMA DaysUntilIsYearStart ==
    \A y \in 1970 .. LastYear + 1 : DaysUntil[y] \in Nat /\ DaysUntil[y] = YearStart(y)
<1> DEFINE Bad == {y \in 1970 .. LastYear + 1 :
                     ~(DaysUntil[y] \in Nat /\ DaysUntil[y] = YearStart(y))}
<1> SUFFICES ASSUME Bad # {} PROVE FALSE
  OBVIOUS
<1>1. PICK x \in Bad : \A y \in Bad : x <= y
  <2>1. Bad \subseteq Nat
    BY YearAssumption
  <2> HIDE DEF Bad
  <2>. QED
    BY <2>1, HasLeast
<1>2. x # 1970
  <2>1. YearStart(1970) = 0
    BY DEF YearStart, NoLeap
  <2>2. ~(DaysUntil[x] \in Nat /\ DaysUntil[x] = YearStart(x))
    OBVIOUS
  <2>3. DaysUntil[1970] = 0
    BY DaysUntilStep
  <2> HIDE DEF Bad
  <2>. QED
    BY <2>1, <2>2, <2>3
<1>3. x - 1 \in 1970 .. LastYear /\ x \in Nat
  BY <1>2, YearAssumption
<1>4. x - 1 \notin Bad
  BY <1>1, <1>3
<1>5. DaysUntil[x - 1] \in Nat /\ DaysUntil[x - 1] = YearStart(x - 1)
  BY <1>3, <1>4, YearAssumption
<1>6. DaysUntil[x] = DaysUntil[x - 1] + YearLength(x - 1)
  <2>1. x - 1 + 1 = x
    BY <1>3
  <2>. QED
    BY <1>3, <2>1, DaysUntilStep
<1>7. YearStart(x) = YearStart(x - 1) + YearLength(x - 1)
  <2> DEFINE w == x - 1
  <2>1. w \in Nat /\ w >= 1970 /\ w + 1 = x
    BY <1>3
  <2> HIDE DEF w
  <2>2. YearStart(w + 1) = YearStart(w) + YearLength(w)
    BY <2>1, YearStartStep
  <2>. QED
    BY <2>1, <2>2 DEF w
<1>8. YearLength(x - 1) \in Nat
  BY DEF YearLength
<1>. QED
  BY <1>5, <1>6, <1>7, <1>8

\* A later year begins after the end of an earlier one.
LEMMA DaysUntilGrows ==
    \A y, z \in 1970 .. LastYear + 1 : y < z => DaysUntil[y] + YearLength(y) <= DaysUntil[z]
<1> SUFFICES ASSUME NEW y \in 1970 .. LastYear + 1, NEW z \in 1970 .. LastYear + 1, y < z
             PROVE  DaysUntil[y] + YearLength(y) <= DaysUntil[z]
  OBVIOUS
<1> USE YearAssumption
<1>1. y + 1 \in 1970 .. LastYear + 1 /\ y \in 1970 .. LastYear
  OBVIOUS
<1>2. DaysUntil[y + 1] = DaysUntil[y] + YearLength(y)
  BY <1>1, DaysUntilStep
<1>3. \A u, v \in Nat : 1970 <= u /\ u <= v => YearStart(u) <= YearStart(v)
  BY DEF YearStart, NoLeap
<1>4. YearStart(y + 1) <= YearStart(z)
  <2> HIDE DEF YearStart
  <2> QED BY <1>3
<1>. QED
  BY <1>1, <1>2, <1>4, DaysUntilIsYearStart

\* Every day is in one of the years: the first one that ends after it.
LEMMA YearOfDay ==
    ASSUME NEW day \in Days
    PROVE  \E y \in 1970 .. LastYear : DaysUntil[y] <= day /\ day < DaysUntil[y + 1]
<1> DEFINE Later == {y \in 1970 .. LastYear : day < DaysUntil[y + 1]}
<1>1. LastYear + 1 \in 1970 .. LastYear + 1 /\ LastYear \in 1970 .. LastYear
  BY YearAssumption
<1>2. DaysUntil[LastYear + 1] \in Nat /\ day \in Nat /\ day < DaysUntil[LastYear + 1]
  BY <1>1, DaysUntilIsYearStart DEF Days
<1>3. LastYear \in Later /\ Later \subseteq Nat
  BY <1>1, <1>2, YearAssumption
<1> HIDE DEF Later
<1>4. PICK x \in Later : \A y \in Later : x <= y
  <2>1. Later # {}
    BY <1>3
  <2>. QED
    BY <1>3, <2>1, HasLeast
<1>5. x \in 1970 .. LastYear /\ day < DaysUntil[x + 1]
  BY DEF Later
<1>6. CASE x = 1970
  BY <1>2, <1>5, <1>6, DaysUntilStep
<1>7. CASE x # 1970
  <2>1. x - 1 \in 1970 .. LastYear /\ x \in 1970 .. LastYear + 1
    BY <1>5, <1>7, YearAssumption
  <2>2. x - 1 \notin Later
    BY <1>4, <1>5, YearAssumption
  <2>3. (x - 1) + 1 = x
    BY <1>5, YearAssumption
  <2>4. ~(day < DaysUntil[x])
    BY <2>1, <2>2, <2>3 DEF Later
  <2>5. DaysUntil[x] \in Nat
    BY <2>1, DaysUntilIsYearStart
  <2>. QED
    BY <1>2, <1>5, <2>4, <2>5, YearAssumption
<1>. QED
  BY <1>6, <1>7

\* The table of the months.
LEMMA SpmValues ==
    /\ spm(0) = 0 /\ spm(1) = 31 /\ spm(2) = 59 /\ spm(3) = 90 /\ spm(4) = 120
    /\ spm(5) = 151 /\ spm(6) = 181 /\ spm(7) = 212 /\ spm(8) = 243 /\ spm(9) = 273
    /\ spm(10) = 304 /\ spm(11) = 334 /\ spm(12) = 365
BY DEF spm

\* The search in the table finds the month that has the day.
LEMMA MonthOfWork ==
    ASSUME NEW work \in 0 .. 364, NEW mon, mon = Max({m \in 0 .. 11 : m = 0 \/ spm(m) <= work})
    PROVE  mon \in 0 .. 11 /\ spm(mon) <= work /\ work < spm(mon + 1)
<1> DEFINE M == {m \in 0 .. 11 : m = 0 \/ spm(m) <= work}
<1>1. PICK k \in 0 .. 11 : spm(k) <= work /\ work < spm(k + 1)
  BY SpmValues
<1>2. k \in M
  BY <1>1
<1>3. \A m \in M : m <= k
  BY <1>1, SpmValues
<1>4. mon \in M /\ \A m \in M : mon >= m
  <2> HIDE DEF M
  <2>1. \A m \in M : k >= m
    BY <1>3 DEF M
  <2>2. mon = CHOOSE x \in M : \A y \in M : x >= y
    BY DEF Max, M
  <2>. QED
    BY <1>2, <2>1, <2>2
<1>5. mon = k
  BY <1>2, <1>3, <1>4
<1>. QED
  BY <1>1, <1>5

\* The day of the year on which a month begins.
MonthStart(y, m) == spm(m) + (IF isleap(y) /\ m > 1 THEN 1 ELSE 0)

\* The table agrees with the lengths of the months: no month goes past the end
\* of the year, and December ends there.
LEMMA MonthTable ==
    ASSUME NEW y \in Nat, NEW m \in 0 .. 11
    PROVE  /\ MonthStart(y, m) \in Nat
           /\ MonthLength(y, m) \in 28 .. 31
           /\ MonthStart(y, m) + MonthLength(y, m) <= YearLength(y)
           /\ m = 11 => MonthStart(y, m) + MonthLength(y, m) = YearLength(y)
<1>1. CASE isleap(y)
  BY <1>1, SpmValues DEF MonthStart, MonthLength, YearLength
<1>2. CASE ~isleap(y)
  BY <1>2, SpmValues DEF MonthStart, MonthLength, YearLength
<1>. QED
  BY <1>1, <1>2

\* A month begins where the one before it ends.
LEMMA MonthOrder ==
    ASSUME NEW y \in Nat, NEW m \in 0 .. 11, NEW n \in 0 .. 11, m < n
    PROVE  /\ MonthStart(y, m) + MonthLength(y, m) <= MonthStart(y, n)
           /\ n = m + 1 => MonthStart(y, n) = MonthStart(y, m) + MonthLength(y, m)
<1>1. CASE isleap(y)
  BY <1>1, SpmValues DEF MonthStart, MonthLength
<1>2. CASE ~isleap(y)
  BY <1>2, SpmValues DEF MonthStart, MonthLength
<1>. QED
  BY <1>1, <1>2

\* From the day of the year gmtime_r gets the month and the day of the month,
\* 29 February and the days after it included.
LEMMA MonthAndDay ==
    ASSUME NEW y \in Nat, NEW yday \in 0 .. YearLength(y) - 1,
           NEW work, work = IF isleap(y) /\ yday > 58 THEN yday - 1 ELSE yday,
           NEW mon, mon = Max({m \in 0 .. 11 : m = 0 \/ spm(m) <= work}),
           NEW mday, mday = (IF isleap(y) /\ yday = 59 THEN 2 ELSE 1) + work - spm(mon)
    PROVE  /\ mon \in 0 .. 11
           /\ mday \in 1 .. MonthLength(y, mon)
           /\ yday = MonthStart(y, mon) + mday - 1
<1>1. work \in 0 .. 364
  BY DEF YearLength
<1>2. mon \in 0 .. 11 /\ spm(mon) <= work /\ work < spm(mon + 1)
  BY <1>1, MonthOfWork
<1>3. CASE isleap(y)
  BY <1>1, <1>2, <1>3, SpmValues DEF MonthStart, MonthLength, YearLength
<1>4. CASE ~isleap(y)
  BY <1>1, <1>2, <1>4, SpmValues DEF MonthStart, MonthLength, YearLength
<1>. QED
  BY <1>3, <1>4

\* A date of the calendar, and the day it is.
IsDate(date, y, m, d) ==
    /\ y \in 1970 .. LastYear /\ m \in 0 .. 11 /\ d \in 1 .. MonthLength(y, m)
    /\ date = [tm_year |-> y - 1900, tm_mon |-> m, tm_mday |-> d]
DayOf(y, m, d) == DaysUntil[y] + MonthStart(y, m) + d - 1

\* The date that gmtime_r finds for a day is a date of the calendar, and the one
\* of that day.
LEMMA DateParts ==
    ASSUME NEW day \in Days
    PROVE  \E y, m, d : IsDate(DateOf[day], y, m, d) /\ day = DayOf(y, m, d)
<1> DEFINE i == CHOOSE y \in 1970 .. LastYear :
                    DaysUntil[y] <= day /\ day < DaysUntil[y + 1]
           yday == day - DaysUntil[i]
           work == IF isleap(i) /\ yday > 58 THEN yday - 1 ELSE yday
           mon == Max({m \in 0 .. 11 : m = 0 \/ spm(m) <= work})
           mday == (IF isleap(i) /\ yday = 59 THEN 2 ELSE 1) + work - spm(mon)
<1>1. DateOf[day] = [tm_year |-> i - 1900, tm_mon |-> mon, tm_mday |-> mday]
  BY DEF DateOf
<1>2. i \in 1970 .. LastYear /\ DaysUntil[i] <= day /\ day < DaysUntil[i + 1]
  BY YearOfDay
<1>3. work = IF isleap(i) /\ yday > 58 THEN yday - 1 ELSE yday
  OBVIOUS
<1>4. mon = Max({m \in 0 .. 11 : m = 0 \/ spm(m) <= work})
  OBVIOUS
<1>5. mday = (IF isleap(i) /\ yday = 59 THEN 2 ELSE 1) + work - spm(mon)
  OBVIOUS
<1>6. yday = day - DaysUntil[i]
  OBVIOUS
<1> HIDE DEF i, yday, work, mon, mday
<1>7. i \in Nat /\ day \in Nat /\ DaysUntil[i] \in Nat
      /\ DaysUntil[i + 1] = DaysUntil[i] + YearLength(i)
  <2>1. day \in Nat
    <3>1. LastYear + 1 \in 1970 .. LastYear + 1
      BY YearAssumption
    <3>. QED
      BY <3>1, DaysUntilIsYearStart DEF Days
  <2>2. i \in Nat
    BY <1>2, YearAssumption
  <2>. QED
    BY <1>2, <2>1, <2>2, DaysUntilStep
<1>8. yday \in 0 .. YearLength(i) - 1
  <2>1. YearLength(i) \in Nat
    BY DEF YearLength
  <2>. QED
    BY <1>2, <1>6, <1>7, <2>1
<1>9. /\ mon \in 0 .. 11
      /\ mday \in 1 .. MonthLength(i, mon)
      /\ yday = MonthStart(i, mon) + mday - 1
  BY <1>3, <1>4, <1>5, <1>7, <1>8, MonthAndDay
<1>10. MonthStart(i, mon) \in Nat /\ MonthLength(i, mon) \in 28 .. 31
  BY <1>7, <1>9, MonthTable, Zenon
<1>11. day = DayOf(i, mon, mday)
  BY <1>6, <1>7, <1>9, <1>10 DEF DayOf
<1>. QED
  BY <1>1, <1>2, <1>9, <1>11 DEF IsDate

\* The day of a date is within its month, its year and the calendar.
LEMMA DayBounds ==
    ASSUME NEW date, NEW y, NEW m, NEW d, IsDate(date, y, m, d)
    PROVE  /\ y \in Nat /\ m \in Nat /\ d \in Nat /\ DaysUntil[y] \in Nat
           /\ DayOf(y, m, d) \in Days
           /\ DaysUntil[y] + MonthStart(y, m) <= DayOf(y, m, d)
           /\ DayOf(y, m, d) < DaysUntil[y] + MonthStart(y, m) + MonthLength(y, m)
           /\ MonthStart(y, m) \in Nat /\ MonthLength(y, m) \in Nat
           /\ MonthStart(y, m) + MonthLength(y, m) <= YearLength(y)
           /\ YearLength(y) \in Nat
<1>1. y \in 1970 .. LastYear /\ m \in 0 .. 11 /\ d \in 1 .. MonthLength(y, m)
  BY DEF IsDate
<1>2. y \in Nat /\ y + 1 \in 1970 .. LastYear + 1 /\ y \in 1970 .. LastYear + 1
      /\ LastYear + 1 \in 1970 .. LastYear + 1
  BY <1>1, YearAssumption
<1>3. /\ MonthStart(y, m) \in Nat /\ MonthLength(y, m) \in 28 .. 31
      /\ MonthStart(y, m) + MonthLength(y, m) <= YearLength(y)
  <2>1. y \in Nat /\ m \in 0 .. 11
    BY <1>1, <1>2
  <2>. QED
    BY <2>1, MonthTable, Zenon
<1>4. /\ MonthLength(y, m) \in Nat
      /\ d \in Nat /\ 1 <= d /\ d <= MonthLength(y, m)
  BY <1>1, <1>3
<1>5. DaysUntil[y] \in Nat /\ DaysUntil[y + 1] = DaysUntil[y] + YearLength(y)
  BY <1>1, DaysUntilStep
<1>6. DaysUntil[LastYear + 1] \in Nat
  BY <1>2, DaysUntilIsYearStart
<1>7. YearLength(y) \in Nat /\ YearLength(LastYear + 1) \in Nat
  BY DEF YearLength
<1>8. DaysUntil[y] + YearLength(y) <= DaysUntil[LastYear + 1]
  BY <1>1, <1>2, DaysUntilGrows
<1>9. DayOf(y, m, d) \in Days
  BY <1>3, <1>4, <1>5, <1>6, <1>7, <1>8 DEF DayOf, Days
<1>10. /\ DaysUntil[y] + MonthStart(y, m) <= DayOf(y, m, d)
       /\ DayOf(y, m, d) < DaysUntil[y] + MonthStart(y, m) + MonthLength(y, m)
  BY <1>3, <1>4, <1>5 DEF DayOf
<1>. QED
  BY <1>1, <1>2, <1>3, <1>4, <1>5, <1>7, <1>9, <1>10

\* A date of the calendar is the one gmtime_r finds for its day: no two dates
\* fall on the same day.
LEMMA DateUnique ==
    ASSUME NEW date, NEW y, NEW m, NEW d, IsDate(date, y, m, d),
           NEW day, day = DayOf(y, m, d)
    PROVE  day \in Days /\ DateOf[day] = date
<1>1. day \in Days
  BY DayBounds
<1>2. PICK y2, m2, d2 : IsDate(DateOf[day], y2, m2, d2) /\ day = DayOf(y2, m2, d2)
  BY <1>1, DateParts, Zenon
<1>3. /\ y \in Nat /\ m \in Nat /\ d \in Nat /\ DaysUntil[y] \in Nat
      /\ DaysUntil[y] + MonthStart(y, m) <= day
      /\ day < DaysUntil[y] + MonthStart(y, m) + MonthLength(y, m)
      /\ MonthStart(y, m) \in Nat /\ MonthLength(y, m) \in Nat
      /\ MonthStart(y, m) + MonthLength(y, m) <= YearLength(y)
      /\ YearLength(y) \in Nat
  BY DayBounds, Zenon
<1>4. /\ y2 \in Nat /\ m2 \in Nat /\ d2 \in Nat /\ DaysUntil[y2] \in Nat
      /\ DaysUntil[y2] + MonthStart(y2, m2) <= day
      /\ day < DaysUntil[y2] + MonthStart(y2, m2) + MonthLength(y2, m2)
      /\ MonthStart(y2, m2) \in Nat /\ MonthLength(y2, m2) \in Nat
      /\ MonthStart(y2, m2) + MonthLength(y2, m2) <= YearLength(y2)
      /\ YearLength(y2) \in Nat
  BY <1>2, DayBounds, Zenon
<1>5. y \in 1970 .. LastYear + 1 /\ y2 \in 1970 .. LastYear + 1
      /\ m \in 0 .. 11 /\ m2 \in 0 .. 11
  BY <1>2, YearAssumption DEF IsDate
<1>6. day \in Nat
  BY <1>3 DEF DayOf
<1>7. y = y2
  <2>1. /\ y < y2 => DaysUntil[y] + YearLength(y) <= DaysUntil[y2]
        /\ y2 < y => DaysUntil[y2] + YearLength(y2) <= DaysUntil[y]
    BY <1>5, DaysUntilGrows
  <2>. QED
    BY <1>3, <1>4, <1>6, <2>1
<1>8. m = m2
  <2>1. /\ m < m2 => MonthStart(y, m) + MonthLength(y, m) <= MonthStart(y, m2)
        /\ m2 < m => MonthStart(y, m2) + MonthLength(y, m2) <= MonthStart(y, m)
    BY <1>3, <1>5, MonthOrder
  <2>2. /\ DaysUntil[y] + MonthStart(y, m2) <= day
        /\ day < DaysUntil[y] + MonthStart(y, m2) + MonthLength(y, m2)
        /\ MonthStart(y, m2) \in Nat /\ MonthLength(y, m2) \in Nat
    BY <1>4, <1>7
  <2>. QED
    BY <1>3, <1>5, <1>6, <2>1, <2>2
<1>9. d = d2
  <2>1. day = DaysUntil[y] + MonthStart(y, m) + d - 1 /\ day = DaysUntil[y] + MonthStart(y, m) + d2 - 1
    BY <1>2, <1>7, <1>8 DEF DayOf
  <2>. QED
    BY <1>3, <1>4, <1>6, <2>1
<1>. QED
  BY <1>1, <1>2, <1>7, <1>8, <1>9 DEF IsDate

\* mktime finds the day of a date.
LEMMA MkdayIsDayOf ==
    ASSUME NEW date, NEW y, NEW m, NEW d, IsDate(date, y, m, d)
    PROVE  mkday(date) = DayOf(y, m, d)
<1>1. /\ date.tm_year = y - 1900 /\ date.tm_mon = m /\ date.tm_mday = d
      /\ y \in Nat /\ y \in 1970 .. LastYear + 1
  BY YearAssumption DEF IsDate
<1>2. date.tm_year - 70 = y - 1970 /\ date.tm_year + 1900 = y
  BY <1>1
<1>3. (y - 1970) + 1 = y - 1969
  BY <1>1
<1>4. mkday(date) = YearStart(y) + spm(m) + d - 1 + (IF isleap(y) /\ m > 1 THEN 1 ELSE 0)
  BY <1>1, <1>2, <1>3 DEF mkday, YearStart, NoLeap
<1>. QED
  BY <1>1, <1>4, DaysUntilIsYearStart, SpmValues DEF DayOf, MonthStart, IsDate

\* The date after a date is that of the next day: within the month, at the end of
\* a month, at the end of a year.
LEMMA NextDateIsNext ==
    ASSUME NEW date, NEW y, NEW m, NEW d, IsDate(date, y, m, d),
           NEW day, day = DayOf(y, m, d), day + 1 \in Days
    PROVE  DateOf[day + 1] = NextDate(date)
<1>1. /\ date.tm_year + 1900 = y /\ date.tm_mon = m /\ date.tm_mday = d
      /\ y \in 1970 .. LastYear /\ m \in 0 .. 11 /\ d \in 1 .. MonthLength(y, m)
      /\ date.tm_year = y - 1900 /\ y \in Nat
      /\ date = [tm_year |-> y - 1900, tm_mon |-> m, tm_mday |-> d]
  BY YearAssumption DEF IsDate
<1>2. /\ DaysUntil[y] \in Nat /\ d \in Nat /\ m \in Nat
      /\ MonthStart(y, m) \in Nat /\ MonthLength(y, m) \in Nat
      /\ YearLength(y) \in Nat
  BY DayBounds, Zenon
<1> DEFINE next == day + 1
<1>3. CASE d < MonthLength(y, m)
  <2> DEFINE e == d + 1
             date2 == [tm_year |-> y - 1900, tm_mon |-> m, tm_mday |-> e]
  <2>1. IsDate(date2, y, m, e)
    BY <1>1, <1>2, <1>3 DEF IsDate
  <2>2. next = DayOf(y, m, e)
    BY <1>2 DEF DayOf
  <2>3. date2 = NextDate(date)
    BY <1>1, <1>3 DEF NextDate
  <2> HIDE DEF next, date2, e
  <2>4. DateOf[next] = date2
    BY <2>1, <2>2, DateUnique, Zenon
  <2>. QED
    BY <2>3, <2>4 DEF next
<1>4. CASE ~(d < MonthLength(y, m)) /\ m < 11
  <2> DEFINE n == m + 1
             date2 == [tm_year |-> y - 1900, tm_mon |-> n, tm_mday |-> 1]
             one == 1
  <2>0. n \in 0 .. 11 /\ m < n /\ n = m + 1
    BY <1>1, <1>4
  <2>a. date2 = NextDate(date)
    BY <1>1, <1>4 DEF NextDate
  <2> HIDE DEF n
  <2>1. MonthLength(y, n) \in 28 .. 31 /\ MonthStart(y, n) = MonthStart(y, m) + MonthLength(y, m)
    <3>1. y \in Nat /\ m \in 0 .. 11 /\ n \in 0 .. 11
      BY <1>1, <2>0
    <3>2. MonthLength(y, n) \in 28 .. 31
      BY <3>1, MonthTable, Zenon
    <3>3. MonthStart(y, n) = MonthStart(y, m) + MonthLength(y, m)
      BY <2>0, <3>1, MonthOrder, Zenon
    <3>. QED
      BY <3>2, <3>3
  <2>2. IsDate(date2, y, n, one)
    BY <1>1, <1>2, <2>0, <2>1 DEF IsDate
  <2>3. next = DayOf(y, n, one)
    BY <1>1, <1>2, <1>4, <2>1 DEF DayOf
  <2> HIDE DEF next, date2, one
  <2>4. DateOf[next] = date2
    BY <2>2, <2>3, DateUnique, Zenon
  <2>. QED
    BY <2>a, <2>4 DEF next
<1>5. CASE ~(d < MonthLength(y, m)) /\ ~(m < 11)
  <2> DEFINE z == y + 1
             date2 == [tm_year |-> z - 1900, tm_mon |-> 0, tm_mday |-> 1]
             jan == 0
             one == 1
  <2>0. m = 11 /\ d = MonthLength(y, m)
    BY <1>1, <1>2, <1>5
  <2>1. MonthStart(y, m) + MonthLength(y, m) = YearLength(y)
    <3>1. y \in Nat /\ m \in 0 .. 11
      BY <1>1
    <3>. QED
      BY <2>0, <3>1, MonthTable, Zenon
  <2>2. DaysUntil[z] = DaysUntil[y] + YearLength(y)
    BY <1>1, DaysUntilStep
  <2>3. next = DaysUntil[z]
    BY <1>2, <2>0, <2>1, <2>2 DEF DayOf
  <2>4. y # LastYear
    <3>1. LastYear + 1 \in 1970 .. LastYear + 1
      BY YearAssumption
    <3>2. DaysUntil[LastYear + 1] \in Nat
      BY <3>1, DaysUntilIsYearStart
    <3>. QED
      BY <2>3, <3>2 DEF Days
  <2>5. z \in 1970 .. LastYear /\ z \in Nat /\ 0 \in 0 .. 11 /\ date2 = NextDate(date)
    BY <1>1, <1>5, <2>4, YearAssumption DEF NextDate
  <2>6. next \in Nat
    BY <1>2, <2>2, <2>3
  <2> HIDE DEF z, next
  <2>7. MonthLength(z, 0) \in 28 .. 31 /\ MonthStart(z, 0) = 0
    BY <2>5, MonthTable, SpmValues DEF MonthStart
  <2>8. IsDate(date2, z, jan, one)
    BY <2>5, <2>7 DEF IsDate
  <2>9. next = DayOf(z, jan, one)
    BY <2>3, <2>6, <2>7 DEF DayOf
  <2> HIDE DEF date2, jan, one
  <2>10. DateOf[next] = date2
    BY <2>8, <2>9, DateUnique, Zenon
  <2>. QED
    BY <2>5, <2>10 DEF next
<1>. QED
  BY <1>3, <1>4, <1>5

\* gmtime_r, with its loop over the years and its table of a common year, counts
\* the days as the calendar does, from 1 January 1970 to the end of any year, and
\* mktime, which uses a formula for the leap years instead, is its inverse.
THEOREM CalendarTheorem == CalendarIsRight
<1>1. DateOf[0] = [tm_year |-> 70, tm_mon |-> 0, tm_mday |-> 1]
  <2>1. 1970 \in 1970 .. LastYear /\ 0 \in 0 .. 11 /\ 1970 - 1900 = 70
    BY YearAssumption
  <2>2. MonthLength(1970, 0) \in 28 .. 31 /\ MonthStart(1970, 0) = 0
    BY MonthTable, SpmValues DEF MonthStart
  <2> DEFINE date == [tm_year |-> 70, tm_mon |-> 0, tm_mday |-> 1]
             first == 1970
             jan == 0
             one == 1
  <2>3. IsDate(date, first, jan, one)
    BY <2>1, <2>2 DEF IsDate
  <2>4. jan = DayOf(first, jan, one)
    BY <2>2, DaysUntilStep DEF DayOf
  <2> HIDE DEF date, first, jan, one
  <2>5. DateOf[jan] = date
    BY <2>3, <2>4, DateUnique, Zenon
  <2>. QED
    BY <2>5 DEF date, jan
<1>2. ASSUME NEW day \in Days
      PROVE  /\ mkday(DateOf[day]) = day
             /\ day + 1 \in Days => DateOf[day + 1] = NextDate(DateOf[day])
  <2>1. PICK y, m, d : IsDate(DateOf[day], y, m, d) /\ day = DayOf(y, m, d)
    BY DateParts, Zenon
  <2>2. mkday(DateOf[day]) = day
    BY <2>1, MkdayIsDayOf, Zenon
  <2>3. ASSUME day + 1 \in Days  PROVE DateOf[day + 1] = NextDate(DateOf[day])
    BY <2>1, <2>3, NextDateIsNext
  <2>. QED
    BY <2>2, <2>3
<1>. QED
  BY <1>1, <1>2 DEF CalendarIsRight

-----------------------------------------------------------------------------
(* Times.                                                                  *)

\* The seconds of the calendar.
Times == 0 .. SPD * DaysUntil[LastYear + 1] - 1

\* What gmtime_r makes of a day and a second of that day.
TmOf(day, tod) ==
    [tm_year |-> DateOf[day].tm_year, tm_mon |-> DateOf[day].tm_mon,
     tm_mday |-> DateOf[day].tm_mday,
     tm_hour |-> tod \div 3600, tm_min |-> (tod \div 60) % 60, tm_sec |-> tod % 60]

\* The value of SPD, for the few steps that need it.
LEMMA SecondsPerDay == SPD = 86400
BY DEF SPD

\* What most steps need to know of SPD.
LEMMA DayIsPositive == SPD \in Nat /\ SPD > 1000
BY DEF SPD

\* A time is a number of days and a rest that is less than a day.
LEMMA DivMod ==
    ASSUME NEW t \in Int, NEW q, q = t \div SPD, NEW r, r = t % SPD
    PROVE  /\ q \in Int /\ r \in Nat /\ r < SPD
           /\ t = SPD * q + r
<1>1. q = t \div 86400 /\ r = t % 86400
  BY SecondsPerDay
<1>2. q \in Int /\ r \in Nat /\ r < 86400 /\ t = 86400 * q + r
  BY <1>1
<1>. QED
  BY <1>2, SecondsPerDay

\* The quotient is the only one.
LEMMA DivUnique ==
    ASSUME NEW q \in Int, NEW r \in Nat, r < SPD, NEW t, t = SPD * q + r
    PROVE  t \in Int /\ t \div SPD = q /\ t % SPD = r
<1>1. r < 86400 /\ t = 86400 * q + r
  BY SecondsPerDay
<1>2. t \in Int /\ t \div 86400 = q /\ t % 86400 = r
  BY <1>1
<1>. QED
  BY <1>2, SecondsPerDay

\* The days of the calendar are naturals, and the calendar has an end.
LEMMA LastDay ==
    /\ DaysUntil[LastYear + 1] \in Nat
    /\ Days \subseteq Nat
    /\ \A day \in Days : day < DaysUntil[LastYear + 1]
<1>1. LastYear + 1 \in 1970 .. LastYear + 1
  BY YearAssumption
<1>2. DaysUntil[LastYear + 1] \in Nat
  BY <1>1, DaysUntilIsYearStart
<1>. QED
  BY <1>2 DEF Days

\* A time of the calendar is on one of its days, and gmtime_r takes it apart.
LEMMA SplitTime ==
    ASSUME NEW t \in Times, NEW q, q = t \div SPD, NEW r, r = t % SPD
    PROVE  /\ t \in Nat
           /\ q \in Days /\ q \in Nat /\ r \in 0 .. SPD - 1
           /\ t = SPD * q + r
           /\ gmtime_r(t) = TmOf(q, r)
<1>1. t \in Nat /\ t < SPD * DaysUntil[LastYear + 1]
  BY LastDay, DayIsPositive DEF Times
<1>2. q \in Int /\ r \in Nat /\ r < SPD /\ t = SPD * q + r
  BY <1>1, DivMod
<1>3. \A n \in Nat : t < SPD * n => q < n
  BY <1>1, <1>2, SecondsPerDay
<1>4. q >= 0
  BY <1>1, <1>2, SecondsPerDay
<1>5. q \in Days /\ q \in Nat
  BY <1>1, <1>2, <1>3, <1>4, LastDay DEF Days
<1>6. gmtime_r(t) = TmOf(q, r)
  BY DEF gmtime_r, TmOf
<1>. QED
  BY <1>1, <1>2, <1>5, <1>6, DayIsPositive

\* The converse: a day and a second of the day make a time of the calendar.
LEMMA JoinTime ==
    ASSUME NEW q \in Days, NEW r \in 0 .. SPD - 1, NEW t, t = SPD * q + r
    PROVE  t \in Times /\ t \div SPD = q /\ t % SPD = r
<1>1. q \in Nat /\ q < DaysUntil[LastYear + 1] /\ DaysUntil[LastYear + 1] \in Nat
  BY LastDay
<1>2. r \in Nat /\ r < SPD
  BY DayIsPositive
<1>3. t \div SPD = q /\ t % SPD = r
  BY <1>1, <1>2, DivUnique
<1>4. \A n \in Nat : q < n => t \in Nat /\ t < SPD * n
  BY <1>1, <1>2, SecondsPerDay
<1>. QED
  BY <1>1, <1>3, <1>4, DayIsPositive DEF Times

\* Hours, minutes and seconds are in range and add up to the second of the day.
LEMMA ClockFace ==
    ASSUME NEW tod \in 0 .. SPD - 1
    PROVE  /\ tod \div 3600 \in 0 .. 23 /\ (tod \div 60) % 60 \in 0 .. 59 /\ tod % 60 \in 0 .. 59
           /\ ((tod \div 3600) * 60 + ((tod \div 60) % 60)) * 60 + (tod % 60) = tod
<1>0. tod \in Nat /\ tod < SPD
  BY DayIsPositive
<1>1. tod \in Nat /\ tod < 86400
  BY <1>0, SecondsPerDay
<1>2. tod \div 3600 \in 0 .. 23 /\ (tod \div 60) % 60 \in 0 .. 59 /\ tod % 60 \in 0 .. 59
  BY <1>1
<1>3. ((tod \div 3600) * 60 + ((tod \div 60) % 60)) * 60 + (tod % 60) = tod
  BY <1>1
<1>. QED
  BY <1>2, <1>3

\* What gmtime_r returns is in range and has the day's date.
LEMMA TmOfType ==
    ASSUME NEW day \in Days, NEW tod \in 0 .. SPD - 1, NEW x, x = TmOf(day, tod)
    PROVE  /\ x \in tm
           /\ x.tm_year = DateOf[day].tm_year /\ x.tm_mon = DateOf[day].tm_mon
           /\ x.tm_mday = DateOf[day].tm_mday
           /\ x.tm_year \in 70 .. LastYear - 1900 /\ x.tm_mon \in 0 .. 11 /\ x.tm_mday \in 1 .. 31
           /\ (x.tm_hour * 60 + x.tm_min) * 60 + x.tm_sec = tod
<1>1. PICK y, m, d : IsDate(DateOf[day], y, m, d)
  BY DateParts, Zenon
<1>2. /\ y \in 1970 .. LastYear /\ m \in 0 .. 11 /\ d \in 1 .. MonthLength(y, m)
      /\ DateOf[day] = [tm_year |-> y - 1900, tm_mon |-> m, tm_mday |-> d]
  BY <1>1 DEF IsDate
<1>3. y \in Nat /\ m \in 0 .. 11
  BY <1>2, YearAssumption
<1>4. MonthLength(y, m) \in 28 .. 31
  BY <1>3, MonthTable, Zenon
<1>5. y - 1900 \in 70 .. LastYear - 1900 /\ d \in 1 .. 31
  BY <1>2, <1>3, <1>4, YearAssumption
<1> DEFINE z == y - 1900
           hour == tod \div 3600
           min == (tod \div 60) % 60
           sec == tod % 60
<1>6. x = [tm_year |-> z, tm_mon |-> m, tm_mday |-> d,
           tm_hour |-> hour, tm_min |-> min, tm_sec |-> sec]
  BY <1>2 DEF TmOf
<1>7. /\ hour \in 0 .. 23 /\ min \in 0 .. 59 /\ sec \in 0 .. 59
      /\ (hour * 60 + min) * 60 + sec = tod
  BY ClockFace
<1>8. z \in 70 .. LastYear - 1900 /\ DateOf[day] = [tm_year |-> z, tm_mon |-> m, tm_mday |-> d]
  BY <1>2, <1>5
<1> HIDE DEF z, hour, min, sec
<1>9. x \in tm
  BY <1>3, <1>5, <1>6, <1>7, <1>8 DEF tm
<1>. QED
  BY <1>3, <1>5, <1>6, <1>7, <1>8, <1>9

\* mktime takes the day from the year, the month and the day of the month only.
LEMMA MkdayFields ==
    ASSUME NEW a, NEW b, a.tm_year = b.tm_year, a.tm_mon = b.tm_mon, a.tm_mday = b.tm_mday
    PROVE  mkday(a) = mkday(b)
BY DEF mkday

\* mktime adds the time of day to the day.
LEMMA MktimeSplit ==
    ASSUME NEW x, NEW day \in Int, NEW tod \in Int, mkday(x) = day,
           x.tm_hour \in Int, x.tm_min \in Int, x.tm_sec \in Int,
           (x.tm_hour * 60 + x.tm_min) * 60 + x.tm_sec = tod
    PROVE  mktime(x) = SPD * day + tod
BY DEF mktime, SPD

\* mktime gives back the day whose date gmtime_r found.
LEMMA MkdayOfDate ==
    ASSUME NEW day \in Days
    PROVE  mkday(DateOf[day]) = day
BY CalendarTheorem DEF CalendarIsRight

\* mktime, for a date that gmtime_r found and any time of day.
LEMMA MktimeOfTm ==
    ASSUME NEW day \in Days, NEW tod \in 0 .. SPD - 1, NEW x, x \in tm,
           x.tm_year = DateOf[day].tm_year, x.tm_mon = DateOf[day].tm_mon,
           x.tm_mday = DateOf[day].tm_mday,
           (x.tm_hour * 60 + x.tm_min) * 60 + x.tm_sec = tod
    PROVE  mktime(x) = SPD * day + tod
<1>1. mkday(x) = mkday(DateOf[day])
  BY MkdayFields, Zenon
<1>2. mkday(x) = day
  BY <1>1, MkdayOfDate
<1>3. day \in Int /\ tod \in Int
  BY LastDay, DayIsPositive
<1>4. x.tm_hour \in Int /\ x.tm_min \in Int /\ x.tm_sec \in Int
  BY DEF tm
<1>. QED
  BY <1>2, <1>3, <1>4, MktimeSplit

\* mktime undoes gmtime_r, to the second, at every time of the calendar.
THEOREM MktimeInverse ==
    ASSUME NEW t \in Times
    PROVE  mktime(gmtime_r(t)) = t
<1> DEFINE day == t \div SPD
           tod == t % SPD
           x == gmtime_r(t)
<1>1. day \in Days /\ tod \in 0 .. SPD - 1 /\ t = SPD * day + tod /\ x = TmOf(day, tod)
  BY SplitTime
<1> HIDE DEF day, tod, x
<1>2. /\ x \in tm
      /\ x.tm_year = DateOf[day].tm_year /\ x.tm_mon = DateOf[day].tm_mon
      /\ x.tm_mday = DateOf[day].tm_mday
      /\ (x.tm_hour * 60 + x.tm_min) * 60 + x.tm_sec = tod
  BY <1>1, TmOfType
<1>3. mktime(x) = SPD * day + tod
  BY <1>1, <1>2, MktimeOfTm
<1>. QED
  BY <1>1, <1>3 DEF x

\* The second after t is the next second of the calendar.
LEMMA NextSecondIsNext ==
    ASSUME NEW t \in Times, t + 1 \in Times
    PROVE  gmtime_r(t + 1) = NextSecond(gmtime_r(t))
<1> DEFINE day == t \div SPD
           tod == t % SPD
           x == gmtime_r(t)
           u == t + 1
           time == tod + 1
           today == [tm_year |-> x.tm_year, tm_mon |-> x.tm_mon, tm_mday |-> x.tm_mday]
           date == IF time < SPD THEN today ELSE NextDate(today)
<1>1. t \in Nat /\ day \in Days /\ tod \in 0 .. SPD - 1 /\ t = SPD * day + tod /\ x = TmOf(day, tod)
  BY SplitTime
<1>2. u \in Times /\ u = t + 1 /\ time = tod + 1
  OBVIOUS
<1> HIDE DEF day, tod, u, x, time
<1>3. /\ x.tm_year = DateOf[day].tm_year /\ x.tm_mon = DateOf[day].tm_mon
      /\ x.tm_mday = DateOf[day].tm_mday
      /\ (x.tm_hour * 60 + x.tm_min) * 60 + x.tm_sec = tod
  BY <1>1, TmOfType
<1>4. NextSecond(x) =
        [tm_year |-> date.tm_year, tm_mon |-> date.tm_mon, tm_mday |-> date.tm_mday,
         tm_hour |-> (time % SPD) \div 3600, tm_min |-> (time \div 60) % 60,
         tm_sec |-> time % 60]
  BY <1>2, <1>3 DEF NextSecond
<1>5. today = DateOf[day]
  <2>1. PICK y, m, d : IsDate(DateOf[day], y, m, d)
    BY <1>1, DateParts, Zenon
  <2>. QED
    BY <1>3, <2>1 DEF IsDate
<1>6. day \in Nat /\ tod \in Nat /\ time \in Nat /\ tod < SPD
  BY <1>1, <1>2, LastDay, DayIsPositive
<1>7. CASE time < SPD
  <2>1. time \in 0 .. SPD - 1 /\ u = SPD * day + time
    BY <1>1, <1>2, <1>6, <1>7, DayIsPositive
  <2>2. u \div SPD = day /\ u % SPD = time
    BY <1>1, <2>1, JoinTime
  <2>3. gmtime_r(u) = TmOf(day, time)
    BY <1>2, <2>2, SplitTime
  <2>4. time % SPD = time
    <3>1. time = SPD * 0 + time /\ 0 \in Int
      BY <1>6, DayIsPositive
    <3>. QED
      BY <1>6, <1>7, <3>1, DivUnique
  <2>5. date = DateOf[day]
    BY <1>5, <1>7
  <2>. QED
    BY <1>2, <1>4, <2>3, <2>4, <2>5 DEF TmOf, u, x
<1>8. CASE ~(time < SPD)
  <2> DEFINE next == day + 1
  <2>1. time = SPD /\ u = SPD * next + 0
    BY <1>1, <1>2, <1>6, <1>8, DayIsPositive
  <2>2. next \in Int /\ 0 \in Nat /\ 0 < SPD
    BY <1>6, DayIsPositive
  <2> HIDE DEF next
  <2>3. u \div SPD = next /\ u % SPD = 0
    BY <2>1, <2>2, DivUnique
  <2>4. next \in Days /\ gmtime_r(u) = TmOf(next, 0)
    BY <1>2, <2>3, SplitTime
  <2>5. DateOf[next] = NextDate(DateOf[day])
    BY <1>1, <2>4, CalendarTheorem DEF CalendarIsRight, next
  <2>6. date = DateOf[next]
    BY <1>5, <1>8, <2>5
  <2>7. (time % SPD) \div 3600 = 0 \div 3600 /\ (time \div 60) % 60 = (0 \div 60) % 60 /\ time % 60 = 0 % 60
    BY <2>1 DEF SPD
  <2>. QED
    BY <1>2, <1>4, <2>4, <2>6, <2>7 DEF TmOf, u, x
<1>. QED
  BY <1>7, <1>8

-----------------------------------------------------------------------------
(* What set_time and set_date make of a time.                              *)

\* The day a request names; the 31st of a shorter month is one of the next.
RequestDay(r) == DaysUntil[r.year] + MonthStart(r.year, r.month - 1) + r.day - 1

\* Some days from which the bounds are counted.
LEMMA KnownDays ==
    /\ DaysUntil[2000] = 10957 /\ DaysUntil[2100] = 47482
    /\ DaysUntil[2018] = 17532 /\ DaysUntil[2022] = 18993 /\ DaysUntil[2023] = 19358
    /\ DaysUntil[LastYear + 1] >= 47482 + 365
<1>1. /\ 2000 \in 1970 .. LastYear + 1 /\ 2100 \in 1970 .. LastYear + 1
      /\ 2018 \in 1970 .. LastYear + 1 /\ 2022 \in 1970 .. LastYear + 1
      /\ 2023 \in 1970 .. LastYear + 1 /\ 2101 \in 1970 .. LastYear + 1
      /\ LastYear + 1 \in 1970 .. LastYear + 1
  BY YearAssumption, LastYearAssumption
<1>2. /\ YearStart(2000) = 10957 /\ YearStart(2100) = 47482
      /\ YearStart(2018) = 17532 /\ YearStart(2022) = 18993 /\ YearStart(2023) = 19358
      /\ YearStart(2101) = 47847
  BY DEF YearStart, NoLeap
<1>3. /\ DaysUntil[2000] = 10957 /\ DaysUntil[2100] = 47482
      /\ DaysUntil[2018] = 17532 /\ DaysUntil[2022] = 18993 /\ DaysUntil[2023] = 19358
      /\ DaysUntil[2101] = 47847 /\ DaysUntil[LastYear + 1] \in Nat
  BY <1>1, <1>2, DaysUntilIsYearStart
<1>4. 2101 < LastYear + 1 => DaysUntil[2101] + YearLength(2101) <= DaysUntil[LastYear + 1]
  BY <1>1, DaysUntilGrows
<1>5. YearLength(2101) \in Nat
  BY DEF YearLength
<1>6. 2101 = LastYear + 1 \/ 2101 < LastYear + 1
  BY LastYearAssumption, YearAssumption
<1>7. 2101 = LastYear + 1 => DaysUntil[LastYear + 1] = 47847
  BY <1>3
<1>. QED
  BY <1>3, <1>4, <1>5, <1>6, <1>7

\* The fields of a request are in range.
LEMMA RequestFields ==
    ASSUME NEW r \in Request
    PROVE  /\ r.year \in 2000 .. 2099 /\ r.month \in 1 .. 12 /\ r.day \in 1 .. 31
           /\ r.hour \in 0 .. 23 /\ r.min \in 0 .. 59 /\ r.sec \in 0 .. 59
           /\ TimeOfDay(r) \in 0 .. SPD - 1
           /\ r.year \in 1970 .. LastYear /\ r.year \in Nat
           /\ r.month - 1 \in 0 .. 11
<1>1. /\ r.year \in 2000 .. 2099 /\ r.month \in 1 .. 12 /\ r.day \in 1 .. 31
      /\ r.hour \in 0 .. 23 /\ r.min \in 0 .. 59 /\ r.sec \in 0 .. 59
  BY DEF Request
<1>2. TimeOfDay(r) \in 0 .. SPD - 1
  <2> DEFINE h == r.hour
             m == r.min
             c == r.sec
             u == TimeOfDay(r)
  <2>1. h \in 0 .. 23 /\ m \in 0 .. 59 /\ c \in 0 .. 59 /\ u = (h * 60 + m) * 60 + c
    BY <1>1 DEF TimeOfDay
  <2> HIDE DEF h, m, c, u
  <2>2. u \in Nat /\ u < 86400
    BY <2>1
  <2>3. u < SPD
    BY <2>2, SecondsPerDay
  <2>4. u \in 0 .. SPD - 1
    BY <2>2, <2>3, DayIsPositive
  <2>. QED
    BY <2>4 DEF u
<1>3. r.month - 1 \in 0 .. 11
  BY <1>1
<1>4. r.year \in Nat /\ 2000 <= r.year /\ r.year <= 2099
  BY <1>1
<1>5. r.year \in 1970 .. LastYear
  BY <1>4, LastYearAssumption, YearAssumption
<1>. QED
  BY <1>1, <1>2, <1>3, <1>4, <1>5

\* The first of a month is where the table says.
LEMMA FirstOfMonthIs ==
    ASSUME NEW y \in 1970 .. LastYear, y \in 2000 .. 2099, NEW m \in 0 .. 11
    PROVE  FirstOfMonth[y][m] = DaysUntil[y] + MonthStart(y, m)
<1>0. y \in Nat /\ m \in 0 .. 11
  BY YearAssumption
<1>a. MonthLength(y, m) \in 28 .. 31
  BY <1>0 DEF MonthLength
<1> DEFINE one == 1
           date == [tm_year |-> y - 1900, tm_mon |-> m, tm_mday |-> 1]
           day == DayOf(y, m, one)
           P(q) == q \in DaysUntil[y] .. DaysUntil[y + 1] - 1 /\ DateOf[q] = date
<1>1. IsDate(date, y, m, one)
  BY <1>a DEF IsDate
<1>2. day \in Days /\ DateOf[day] = date
  <2> HIDE DEF one, date, day
  <2>1. day = DayOf(y, m, one)
    BY DEF day
  <2>2. day \in Days
    BY <1>1, <2>1, DateUnique
  <2>3. DateOf[day] = date
    BY <1>1, <2>1, DateUnique
  <2>. QED
    BY <2>2, <2>3
<1>3. /\ DaysUntil[y] \in Nat /\ DaysUntil[y] + MonthStart(y, m) <= day
      /\ day < DaysUntil[y] + MonthStart(y, m) + MonthLength(y, m)
      /\ MonthStart(y, m) \in Nat /\ MonthLength(y, m) \in Nat
      /\ MonthStart(y, m) + MonthLength(y, m) <= YearLength(y)
      /\ YearLength(y) \in Nat
  <2> HIDE DEF one, date
  <2>. QED
    BY <1>1, DayBounds
<1>4. DaysUntil[y + 1] = DaysUntil[y] + YearLength(y) /\ day \in Nat
  <2>1. day \in Nat
    <3> HIDE DEF day
    <3>. QED
      BY <1>2, LastDay
  <2>. QED
    BY <2>1, DaysUntilStep
<1>5. P(day)
  <2> HIDE DEF day, date
  <2>. QED
    BY <1>2, <1>3, <1>4
<1>6. ASSUME NEW q, P(q)  PROVE q = day
  <2>1. q \in Days
    <3>1. y + 1 \in 1970 .. LastYear + 1 /\ LastYear + 1 \in 1970 .. LastYear + 1
      BY <1>0, YearAssumption
    <3>2. y + 1 < LastYear + 1 => DaysUntil[y + 1] + YearLength(y + 1) <= DaysUntil[LastYear + 1]
      BY <3>1, DaysUntilGrows
    <3>3. YearLength(y + 1) \in Nat
      BY DEF YearLength
    <3>4. DaysUntil[y + 1] <= DaysUntil[LastYear + 1]
      <4>1. y + 1 = LastYear + 1 \/ y + 1 < LastYear + 1
        BY <1>0, YearAssumption
      <4>2. DaysUntil[y + 1] \in Nat /\ DaysUntil[LastYear + 1] \in Nat
        BY <3>1, DaysUntilIsYearStart
      <4>3. y + 1 = LastYear + 1 => DaysUntil[y + 1] = DaysUntil[LastYear + 1]
        OBVIOUS
      <4>. QED
        BY <3>2, <3>3, <4>1, <4>2, <4>3
    <3>5. DaysUntil[y + 1] \in Nat
      BY <1>3, <1>4
    <3>. QED
      BY <1>3, <1>6, <3>4, <3>5, LastDay DEF Days
  <2>2. mkday(DateOf[q]) = q /\ mkday(DateOf[day]) = day
    BY <1>2, <2>1, MkdayOfDate
  <2>3. DateOf[q] = DateOf[day]
    BY <1>2, <1>6
  <2>. QED
    BY <2>2, <2>3
<1>7. FirstOfMonth[y][m] = day
  <2>1. FirstOfMonth[y][m] = CHOOSE q \in DaysUntil[y] .. DaysUntil[y + 1] - 1 : DateOf[q] = date
    <3> DEFINE First(yy, mm) ==
                 CHOOSE q \in DaysUntil[yy] .. DaysUntil[yy + 1] - 1 :
                   DateOf[q] = [tm_year |-> yy - 1900, tm_mon |-> mm, tm_mday |-> 1]
               Row(yy) == [mm \in 0 .. 11 |-> First(yy, mm)]
               Years == 2000 .. 2099
    <3>1. FirstOfMonth = [yy \in Years |-> Row(yy)] /\ y \in Years
      BY DEF FirstOfMonth
    <3>2. Row(y)[m] = First(y, m)
      <4> HIDE DEF First
      <4>. QED
        OBVIOUS
    <3>3. First(y, m) = CHOOSE q \in DaysUntil[y] .. DaysUntil[y + 1] - 1 : DateOf[q] = date
      OBVIOUS
    <3> HIDE DEF First, Row, Years
    <3>4. FirstOfMonth[y] = Row(y)
      BY <3>1
    <3>. QED
      BY <3>2, <3>3, <3>4
  <2> HIDE DEF day, date
  <2>. QED
    BY <1>5, <1>6, <2>1
<1>8. day = DaysUntil[y] + MonthStart(y, m)
  BY <1>3 DEF DayOf
<1>. QED
  BY <1>7, <1>8

\* The day of a request is in the years 2000 to 2099, and that of a request for
\* 2022 is in 2022.
LEMMA MidnightIs ==
    ASSUME NEW r \in Request
    PROVE  /\ Midnight(r) = SPD * RequestDay(r)
           /\ RequestDay(r) \in Nat
           /\ 10957 <= RequestDay(r) /\ RequestDay(r) < 47482
           /\ r.year = 2022 => 18993 <= RequestDay(r) /\ RequestDay(r) < 19358
<1> DEFINE y == r.year
           m == r.month - 1
           d == r.day
<1>1. /\ y \in 1970 .. LastYear /\ y \in Nat /\ m \in 0 .. 11 /\ d \in 1 .. 31
      /\ y \in 2000 .. 2099
  BY RequestFields
<1>2. Midnight(r) = SPD * (FirstOfMonth[y][m] + d - 1)
  BY DEF Midnight
<1>3. RequestDay(r) = DaysUntil[y] + MonthStart(y, m) + d - 1
  BY DEF RequestDay
<1> HIDE DEF y, m, d
<1>4. FirstOfMonth[y][m] = DaysUntil[y] + MonthStart(y, m)
  BY <1>1, FirstOfMonthIs
<1>5. MonthStart(y, m) \in Nat /\ MonthStart(y, m) + 31 <= YearLength(y) /\ YearLength(y) \in Nat
  <2>1. CASE isleap(y)
    BY <1>1, <2>1, SpmValues DEF MonthStart, YearLength
  <2>2. CASE ~isleap(y)
    BY <1>1, <2>2, SpmValues DEF MonthStart, YearLength
  <2>. QED
    BY <2>1, <2>2
<1>6. DaysUntil[y] \in Nat /\ DaysUntil[y] + YearLength(y) <= DaysUntil[2100]
  <2>1. y \in 1970 .. LastYear + 1 /\ 2100 \in 1970 .. LastYear + 1 /\ y < 2100
    BY <1>1, LastYearAssumption, YearAssumption
  <2>. QED
    BY <2>1, DaysUntilGrows, DaysUntilIsYearStart
<1>7. 10957 <= DaysUntil[y]
  <2>1. y \in 1970 .. LastYear + 1 /\ 2000 \in 1970 .. LastYear + 1
    BY <1>1, LastYearAssumption, YearAssumption
  <2>2. 2000 < y => DaysUntil[2000] + YearLength(2000) <= DaysUntil[y]
    BY <2>1, DaysUntilGrows
  <2>3. YearLength(2000) \in Nat
    BY DEF YearLength
  <2>4. 2000 = y => DaysUntil[2000] = DaysUntil[y]
    OBVIOUS
  <2>5. 2000 = y \/ 2000 < y
    BY <1>1
  <2>. QED
    BY <1>6, <2>2, <2>3, <2>4, <2>5, KnownDays
<1>8. y = 2022 => DaysUntil[y] = 18993 /\ YearLength(y) = 365
  BY KnownDays DEF YearLength, isleap
<1>9. r.year = y
  BY DEF y
<1>. QED
  BY <1>1, <1>2, <1>3, <1>4, <1>5, <1>6, <1>7, <1>8, <1>9, KnownDays

\* mktime finds the day a request names, 30 February too.
LEMMA MkdayOfRequest ==
    ASSUME NEW r \in Request, NEW x, x.tm_year = r.year - 1900,
           x.tm_mon = r.month - 1, x.tm_mday = r.day
    PROVE  mkday(x) = RequestDay(r)
<1> DEFINE y == r.year
           m == r.month - 1
           d == r.day
<1>1. y \in 1970 .. LastYear /\ y \in Nat /\ m \in 0 .. 11 /\ d \in 1 .. 31
  BY RequestFields
<1>2. RequestDay(r) = DaysUntil[y] + MonthStart(y, m) + d - 1
  BY DEF RequestDay
<1>3. x.tm_year = y - 1900 /\ x.tm_mon = m /\ x.tm_mday = d
  OBVIOUS
<1> HIDE DEF y, m, d
<1>4. x.tm_year - 70 = y - 1970 /\ x.tm_year + 1900 = y /\ (y - 1970) + 1 = y - 1969
  BY <1>1, <1>3
<1>5. mkday(x) = YearStart(y) + spm(m) + d - 1 + (IF isleap(y) /\ m > 1 THEN 1 ELSE 0)
  BY <1>1, <1>3, <1>4 DEF mkday, YearStart, NoLeap
<1>6. DaysUntil[y] = YearStart(y) /\ DaysUntil[y] \in Nat
  BY <1>1, YearAssumption, DaysUntilIsYearStart
<1>7. spm(m) \in Nat
  BY <1>1, SpmValues
<1>. QED
  BY <1>1, <1>2, <1>5, <1>6, <1>7 DEF MonthStart

\* set_time changes the time of day and nothing else.
LEMMA SetTimeTm ==
    ASSUME NEW g \in tm, NEW r \in Request, NEW x, x = Changed("set_time", g, r)
    PROVE  /\ x \in tm
           /\ x.tm_year = g.tm_year /\ x.tm_mon = g.tm_mon /\ x.tm_mday = g.tm_mday
           /\ x.tm_hour = r.hour /\ x.tm_min = r.min /\ x.tm_sec = r.sec
<1> DEFINE h == r.hour
           m == r.min
           c == r.sec
           Y == 70 .. LastYear - 1900
           M == 0 .. 11
           D == 1 .. 31
           H == 0 .. 23
           I == 0 .. 59
<1>1. tm = [tm_year : Y, tm_mon : M, tm_mday : D, tm_hour : H, tm_min : I, tm_sec : I]
  BY DEF tm
<1>2. h \in H /\ m \in I /\ c \in I
  BY RequestFields, LastYearAssumption, YearAssumption
<1>3. x = [g EXCEPT !.tm_hour = h, !.tm_min = m, !.tm_sec = c]
  BY DEF Changed
<1> HIDE DEF Y, M, D, H, I, h, m, c
<1>4. /\ x \in [tm_year : Y, tm_mon : M, tm_mday : D, tm_hour : H, tm_min : I, tm_sec : I]
      /\ x.tm_year = g.tm_year /\ x.tm_mon = g.tm_mon /\ x.tm_mday = g.tm_mday
      /\ x.tm_hour = h /\ x.tm_min = m /\ x.tm_sec = c
  BY <1>1, <1>2, <1>3
<1>. QED
  BY <1>1, <1>4 DEF h, m, c

\* set_date changes the date and nothing else.
LEMMA SetDateTm ==
    ASSUME NEW g \in tm, NEW r \in Request, NEW x, x = Changed("set_date", g, r)
    PROVE  /\ x \in tm
           /\ x.tm_year = r.year - 1900 /\ x.tm_mon = r.month - 1 /\ x.tm_mday = r.day
           /\ x.tm_hour = g.tm_hour /\ x.tm_min = g.tm_min /\ x.tm_sec = g.tm_sec
<1> DEFINE y == r.year - 1900
           m == r.month - 1
           d == r.day
           Y == 70 .. LastYear - 1900
           M == 0 .. 11
           D == 1 .. 31
           H == 0 .. 23
           I == 0 .. 59
<1>1. tm = [tm_year : Y, tm_mon : M, tm_mday : D, tm_hour : H, tm_min : I, tm_sec : I]
  BY DEF tm
<1>2. y \in Y /\ m \in M /\ d \in D
  BY RequestFields, LastYearAssumption, YearAssumption
<1>3. x = [g EXCEPT !.tm_year = y, !.tm_mon = m, !.tm_mday = d]
  BY DEF Changed
<1> HIDE DEF Y, M, D, H, I, y, m, d
<1>4. /\ x \in [tm_year : Y, tm_mon : M, tm_mday : D, tm_hour : H, tm_min : I, tm_sec : I]
      /\ x.tm_year = y /\ x.tm_mon = m /\ x.tm_mday = d
      /\ x.tm_hour = g.tm_hour /\ x.tm_min = g.tm_min /\ x.tm_sec = g.tm_sec
  BY <1>1, <1>2, <1>3
<1>. QED
  BY <1>1, <1>4 DEF y, m, d

\* set_time keeps the day and takes the time of day from the request.
LEMMA ChangedTime ==
    ASSUME NEW t \in Times, NEW r \in Request, NEW q, q = t \div SPD,
           NEW x, x = Changed("set_time", gmtime_r(t), r)
    PROVE  x \in tm /\ mktime(x) = SPD * q + TimeOfDay(r)
<1> DEFINE tod == t % SPD
           g == gmtime_r(t)
           u == TimeOfDay(r)
<1>1. q \in Days /\ tod \in 0 .. SPD - 1 /\ g = TmOf(q, tod)
  BY SplitTime
<1>9. x = Changed("set_time", g, r)
  OBVIOUS
<1>3. /\ r.hour \in 0 .. 23 /\ r.min \in 0 .. 59 /\ r.sec \in 0 .. 59
      /\ u = (r.hour * 60 + r.min) * 60 + r.sec /\ u \in 0 .. SPD - 1
  BY RequestFields DEF TimeOfDay
<1> HIDE DEF tod, g, u
<1>4. /\ g \in tm
      /\ g.tm_year = DateOf[q].tm_year /\ g.tm_mon = DateOf[q].tm_mon
      /\ g.tm_mday = DateOf[q].tm_mday
  BY <1>1, TmOfType
<1>5. /\ x \in tm /\ x.tm_year = g.tm_year /\ x.tm_mon = g.tm_mon /\ x.tm_mday = g.tm_mday
      /\ x.tm_hour = r.hour /\ x.tm_min = r.min /\ x.tm_sec = r.sec
  BY <1>4, <1>9, SetTimeTm, Zenon
<1>6. (x.tm_hour * 60 + x.tm_min) * 60 + x.tm_sec = u
  BY <1>3, <1>5
<1>7. /\ x.tm_year = DateOf[q].tm_year /\ x.tm_mon = DateOf[q].tm_mon
      /\ x.tm_mday = DateOf[q].tm_mday
  BY <1>4, <1>5
<1>8. mktime(x) = SPD * q + u
  BY <1>1, <1>3, <1>5, <1>6, <1>7, MktimeOfTm
<1>. QED
  BY <1>5, <1>8 DEF u

\* set_date keeps the time of day and takes the day from the request.
LEMMA ChangedDate ==
    ASSUME NEW t \in Times, NEW r \in Request, NEW tod, tod = t % SPD,
           NEW x, x = Changed("set_date", gmtime_r(t), r)
    PROVE  x \in tm /\ mktime(x) = Midnight(r) + tod
<1> DEFINE q == t \div SPD
           g == gmtime_r(t)
           day == RequestDay(r)
<1>1. q \in Days /\ tod \in 0 .. SPD - 1 /\ g = TmOf(q, tod)
  BY SplitTime
<1>11. x = Changed("set_date", g, r)
  OBVIOUS
<1>0. Midnight(r) = SPD * day /\ day \in Nat
  BY MidnightIs
<1> HIDE DEF q, g, day
<1>12. g \in tm
  BY <1>1, TmOfType
<1>4. g \in tm /\ (g.tm_hour * 60 + g.tm_min) * 60 + g.tm_sec = tod
  BY <1>1, TmOfType
<1>5. /\ x \in tm /\ x.tm_year = r.year - 1900 /\ x.tm_mon = r.month - 1 /\ x.tm_mday = r.day
      /\ x.tm_hour = g.tm_hour /\ x.tm_min = g.tm_min /\ x.tm_sec = g.tm_sec
  BY <1>12, <1>11, SetDateTm
<1>6. (x.tm_hour * 60 + x.tm_min) * 60 + x.tm_sec = tod
  BY <1>4, <1>5
<1>7. mkday(x) = day
  BY <1>5, MkdayOfRequest DEF day
<1>8. x.tm_hour \in Int /\ x.tm_min \in Int /\ x.tm_sec \in Int
  BY <1>5 DEF tm
<1>9. tod \in Int /\ day \in Int
  BY <1>0, <1>1, DayIsPositive
<1>10. mktime(x) = SPD * day + tod
  BY <1>6, <1>7, <1>8, <1>9, MktimeSplit
<1>. QED
  BY <1>0, <1>5, <1>10

-----------------------------------------------------------------------------
(* The histories.                                                          *)

\* The history of a call.
HistRec == [age : 0 .. MaxAge, times : SUBSET (0 .. SPD - 1), wrapped : BOOLEAN, torn : BOOLEAN]

\* A call that begins has a history.
LEMMA HistBegun ==
    ASSUME NEW T \in SUBSET (0 .. SPD - 1), NEW x, x = Begun(T)
    PROVE  x \in HistRec /\ x.age = 0 /\ x.times = T /\ x.wrapped = FALSE /\ x.torn = FALSE
<1>1. 0 \in 0 .. MaxAge
  BY AgeAssumption
<1>. QED
  BY <1>1 DEF Begun, HistRec

\* A history one tick later; p says that the tick counter has wrapped.
Ticked(h, p) == [h EXCEPT !.age = @ + 1, !.wrapped = IF p THEN TRUE ELSE @]

\* What a tick does to the history of a call.
LEMMA HistTicked ==
    ASSUME NEW h \in HistRec, h.age < MaxAge, NEW p \in BOOLEAN,
           NEW x, x = Ticked(h, p)
    PROVE  /\ x \in HistRec /\ x.age = h.age + 1 /\ x.times = h.times /\ x.torn = h.torn
           /\ p => x.wrapped = TRUE
           /\ ~p => x.wrapped = h.wrapped
<1> DEFINE A == 0 .. MaxAge
           T == SUBSET (0 .. SPD - 1)
           a == h.age + 1
<1>1. a \in A
  BY AgeAssumption DEF HistRec
<1>2. HistRec = [age : A, times : T, wrapped : BOOLEAN, torn : BOOLEAN]
  BY DEF HistRec
<1> HIDE DEF A, T
<1>3. CASE p
  <2>1. x = [h EXCEPT !.age = a, !.wrapped = TRUE]
    BY <1>3 DEF Ticked
  <2>. QED
    BY <1>1, <1>2, <1>3, <2>1
<1>4. CASE ~p
  <2>1. x = [h EXCEPT !.age = a]
    BY <1>2, <1>4 DEF Ticked
  <2>. QED
    BY <1>1, <1>2, <1>4, <2>1
<1>. QED
  BY <1>3, <1>4

\* What the begin of another thread's call does to it.
LEMMA HistJoined ==
    ASSUME NEW h \in HistRec, NEW u \in 0 .. SPD - 1,
           NEW x, x = [h EXCEPT !.times = @ \cup {u}]
    PROVE  /\ x \in HistRec /\ x.age = h.age /\ x.times = h.times \cup {u}
           /\ x.torn = h.torn /\ x.wrapped = h.wrapped
<1> DEFINE A == 0 .. MaxAge
           T == SUBSET (0 .. SPD - 1)
           v == h.times \cup {u}
<1>1. v \in T
  BY DEF HistRec
<1>2. HistRec = [age : A, times : T, wrapped : BOOLEAN, torn : BOOLEAN]
  BY DEF HistRec
<1>3. x = [h EXCEPT !.times = v]
  OBVIOUS
<1> HIDE DEF A, T, v
<1>4. /\ x \in HistRec /\ x.age = h.age /\ x.times = v
      /\ x.torn = h.torn /\ x.wrapped = h.wrapped
  BY <1>1, <1>2, <1>3
<1>. QED
  BY <1>4 DEF v

\* What another thread's localtime does to it.
LEMMA HistTorn ==
    ASSUME NEW h \in HistRec, NEW x, x = [h EXCEPT !.torn = TRUE]
    PROVE  /\ x \in HistRec /\ x.age = h.age /\ x.times = h.times
           /\ x.torn = TRUE /\ x.wrapped = h.wrapped
<1> DEFINE A == 0 .. MaxAge
           T == SUBSET (0 .. SPD - 1)
<1>2. HistRec = [age : A, times : T, wrapped : BOOLEAN, torn : BOOLEAN]
  BY DEF HistRec
<1> HIDE DEF A, T
<1>. QED
  BY <1>2

-----------------------------------------------------------------------------
(* Where the threads are.                                                  *)

\* Where a thread is while it sets the clock, where it may be at all, and the
\* calls it may have left.
Calls == {"call", "mktime", "store"}
Place == {"idle", "call", "mktime", "store", "time", "localtime", "draw"} \cup Fields
Chain == {<< >>, <<"set_time">>, <<"set_date">>,
          <<"set_time", "set_date">>, <<"set_date", "set_time">>}

\* The first of the calls that are left, and the rest of them.
LEMMA Chains ==
    /\ Head(<<"set_time", "set_date">>) = "set_time"
    /\ Head(<<"set_date", "set_time">>) = "set_date"
    /\ Head(<<"set_time">>) = "set_time" /\ Head(<<"set_date">>) = "set_date"
    /\ Tail(<<"set_time", "set_date">>) = <<"set_date">>
    /\ Tail(<<"set_date", "set_time">>) = <<"set_time">>
    /\ Tail(<<"set_time">>) = << >> /\ Tail(<<"set_date">>) = << >>
    /\ <<"set_time", "set_date">> # << >> /\ <<"set_date", "set_time">> # << >>
    /\ <<"set_time">> # << >> /\ <<"set_date">> # << >>
    /\ <<"set_time">> # <<"set_date">> /\ <<"set_time", "set_date">> # <<"set_date">>
    /\ <<"set_time", "set_date">> # <<"set_time">>
    /\ <<"set_date", "set_time">> # <<"set_date">>
    /\ <<"set_date", "set_time">> # <<"set_time">>
    /\ <<"set_date", "set_time">> # <<"set_time", "set_date">>
OBVIOUS

\* The inductive invariant, first part: where the threads are.  main runs at boot
\* and the other two wait for it; it sets the date first, they set the time first.
Control ==
    /\ ticks \in 0 .. TickMod - 1
    /\ at \in [Thread -> Place]
    /\ \A s \in Thread : s # "dst_show" => at[s] \in {"idle"} \cup Calls
    /\ at["main"] # "idle" => at["tshell"] = "idle" /\ at["dst_show"] = "idle"
    /\ todo \in [Thread -> Chain]
    /\ todo["main"] \in {<< >>, <<"set_time">>, <<"set_date", "set_time">>}
    /\ \A s \in Thread : s # "main" =>
          todo[s] \in {<< >>, <<"set_date">>, <<"set_time", "set_date">>}
    /\ \A s \in Thread : (todo[s] = << >>) <=> at[s] \notin Calls
    /\ req \in [Thread -> Request]
    /\ req["main"] = Boot
    /\ hist \in [Thread -> HistRec]

\* The numbers of button_u8g2_init are in range.
LEMMA BootIsRequest == Boot \in Request
BY DEF Boot, Request

\* The three threads,
LEMMA ThreadIs == /\ "main" \in Thread /\ "tshell" \in Thread /\ "dst_show" \in Thread
                  /\ \A s \in Thread : s = "main" \/ s = "tshell" \/ s = "dst_show"
BY DEF Thread

\* and their priorities.
LEMMA PrioIs == Prio["main"] = 10 /\ Prio["tshell"] = 20 /\ Prio["dst_show"] = 23
BY DEF Prio

\* A thread runs only if those of higher priority are idle.
LEMMA WhoRuns ==
    ASSUME Control
    PROVE  /\ Runs("tshell") => at["main"] = "idle"
           /\ Runs("dst_show") => at["main"] = "idle" /\ at["tshell"] = "idle"
BY ThreadIs, PrioIs DEF Runs, Active

\* The tick counter goes on by one or wraps to 0.
LEMMA TicksInRange ==
    ASSUME NEW t \in 0 .. TickMod - 1, NEW u, u = (t + 1) % TickMod
    PROVE  /\ u \in 0 .. TickMod - 1
           /\ u = 0 \/ u = t + 1
           /\ u = 0 => t = TickMod - 1
           /\ u # t
<1>1. TickMod \in Nat /\ TickMod > 1 /\ t \in Nat /\ t < TickMod
  BY TickAssumption
<1>2. CASE t + 1 < TickMod
  <2>1. (t + 1) % TickMod = t + 1
    BY <1>1, <1>2
  <2>. QED
    BY <1>1, <1>2, <2>1
<1>3. CASE t + 1 = TickMod
  <2>1. (t + 1) % TickMod = 0
    BY <1>1, <1>3
  <2>. QED
    BY <1>1, <1>3, <2>1
<1>. QED
  BY <1>1, <1>2, <1>3

\* Control holds at boot,
LEMMA ControlInit == Init => Control
<1> SUFFICES ASSUME Init PROVE Control
  OBVIOUS
<1>1. 0 \in 0 .. TickMod - 1
  BY TickAssumption
<1>2. TimeOfDay(Boot) \in 0 .. SPD - 1
  BY BootIsRequest, RequestFields
<1>3. ASSUME NEW s \in Thread  PROVE hist[s] \in HistRec
  <2> DEFINE T == IF s = "main" THEN {TimeOfDay(Boot)} ELSE {}
  <2>1. T \in SUBSET (0 .. SPD - 1)
    BY <1>2
  <2>2. hist[s] = Begun(T)
    BY DEF Init
  <2> HIDE DEF T
  <2>. QED
    BY <2>1, <2>2, HistBegun
<1>4. hist \in [Thread -> HistRec]
  BY <1>3 DEF Init
<1>. QED
  BY <1>1, <1>4, BootIsRequest, ThreadIs, Chains DEF Init, Control, Calls, Place, Chain

\* The steps of getStrTime and of drawing
Drawing == NoMessage \/ GetNow \/ LocalTime \/ Draw \/ \E f \in Fields : StrField(f)

\* only move dst_show.
LEMMA DrawingMoves ==
    ASSUME Control, Drawing
    PROVE  /\ Runs("dst_show") /\ at["dst_show"] \notin Calls
           /\ at' = [at EXCEPT !["dst_show"] = at'["dst_show"]]
           /\ at'["dst_show"] \in Place \ Calls
           /\ UNCHANGED <<ticks, init_time, todo, req, tm_new, stamp>>
<1>1. \A f \in Fields : f \notin Calls /\ After[f] \in Fields \cup {"draw"}
  BY DEF Fields, Calls, After
<1>2. at \in [Thread -> Place] /\ "dst_show" \in Thread
  BY ThreadIs DEF Control
<1>3. CASE NoMessage \/ GetNow \/ LocalTime \/ Draw
  BY <1>2, <1>3 DEF NoMessage, GetNow, LocalTime, Draw, Place, Calls, Fields
<1>4. ASSUME NEW f \in Fields, StrField(f)
      PROVE  /\ Runs("dst_show") /\ at["dst_show"] = f
             /\ at' = [at EXCEPT !["dst_show"] = After[f]]
             /\ UNCHANGED <<ticks, init_time, todo, req, tm_new, stamp>>
  BY <1>4 DEF StrField
<1>5. Fields \cup {"draw"} \subseteq Place \ Calls
  BY DEF Fields, Place, Calls
<1>. QED
  BY <1>1, <1>2, <1>3, <1>4, <1>5 DEF Drawing

\* Every step keeps it,
LEMMA ControlNext == Control /\ [Next]_vars => Control'
<1> SUFFICES ASSUME Control, [Next]_vars PROVE Control'
  OBVIOUS
<1> USE DEF Calls, Place
<1>1. CASE Tick
  <2>1. ASSUME NEW s \in Thread  PROVE hist'[s] \in HistRec
    <3>1. hist[s] \in HistRec
      BY DEF Control
    <3>2. CASE ~Active(s)
      BY <1>1, <3>1, <3>2 DEF Tick
    <3>3. CASE Active(s)
      <4> DEFINE h == hist[s]
                 p == ticks' = 0
                 x == hist'[s]
      <4>1. x = Ticked(h, p) /\ h.age < MaxAge
        BY <1>1, <3>3 DEF Tick, Ticked
      <4>2. p \in BOOLEAN /\ h \in HistRec
        BY <3>1
      <4> HIDE DEF h, p, x
      <4>3. x \in HistRec
        BY <4>1, <4>2, HistTicked
      <4>. QED
        BY <4>3 DEF x
    <3>. QED
      BY <3>2, <3>3
  <2>2. hist' \in [Thread -> HistRec]
    BY <1>1, <2>1 DEF Tick
  <2>3. ticks' \in 0 .. TickMod - 1
    BY <1>1, TicksInRange DEF Tick, Control
  <2>4. UNCHANGED <<at, todo, req>>
    BY <1>1 DEF Tick
  <2>. QED
    BY <2>2, <2>3, <2>4 DEF Control
<1>2. ASSUME NEW s \in Thread, NEW m \in Messages, Date(s, m)  PROVE Control'
  <2> DEFINE u == TimeOfDay(Cut(m))
  <2>1. Cut(m) \in Request /\ u \in 0 .. SPD - 1
    BY <1>2, RequestFields DEF Date, InRange
  <2>2. ASSUME NEW s2 \in Thread  PROVE hist'[s2] \in HistRec
    <3>1. hist[s2] \in HistRec
      BY DEF Control
    <3>2. hist'[s2] = IF s2 = s THEN Begun({u})
                      ELSE IF Active(s2) THEN [hist[s2] EXCEPT !.times = @ \cup {u}]
                      ELSE hist[s2]
      BY <1>2 DEF Date
    <3>3. {u} \in SUBSET (0 .. SPD - 1)
      BY <2>1
    <3> HIDE DEF u
    <3>4. Begun({u}) \in HistRec
      BY <3>3, HistBegun
    <3>5. [hist[s2] EXCEPT !.times = @ \cup {u}] \in HistRec
      BY <2>1, <3>1, HistJoined
    <3>. QED
      BY <3>1, <3>2, <3>4, <3>5
  <2>3. hist' \in [Thread -> HistRec]
    BY <1>2, <2>2 DEF Date
  <2>4. /\ s # "main" /\ at[s] = "idle" /\ Runs(s)
        /\ at' = [at EXCEPT ![s] = "call"] /\ req' = [req EXCEPT ![s] = Cut(m)]
        /\ todo' = [todo EXCEPT ![s] = <<"set_time", "set_date">>]
        /\ ticks' = ticks
    BY <1>2 DEF Date, DateCalls
  <2>5. at["main"] = "idle"
    BY <2>4, ThreadIs, WhoRuns
  <2>. QED
    BY <2>1, <2>3, <2>4, <2>5, ThreadIs, Chains DEF Control, Chain
<1>3. ASSUME NEW s \in Thread, Read(s)  PROVE Control'
  <2>2. ASSUME NEW s2 \in Thread  PROVE hist'[s2] \in HistRec
    <3>1. hist[s2] \in HistRec
      BY DEF Control
    <3>2. hist'[s2] = IF s2 # s /\ Active(s2) THEN [hist[s2] EXCEPT !.torn = TRUE]
                      ELSE hist[s2]
      BY <1>3 DEF Read
    <3>3. [hist[s2] EXCEPT !.torn = TRUE] \in HistRec
      BY <3>1, HistTorn
    <3>. QED
      BY <3>1, <3>2, <3>3
  <2>3. hist' \in [Thread -> HistRec]
    BY <1>3, <2>2 DEF Read
  <2>4. /\ at[s] = "call" /\ at' = [at EXCEPT ![s] = "mktime"]
        /\ UNCHANGED <<ticks, todo, req>>
    BY <1>3 DEF Read
  <2>. QED
    BY <2>3, <2>4, ThreadIs DEF Control
<1>4. ASSUME NEW s \in Thread, Stamp(s)  PROVE Control'
  <2>1. /\ at[s] = "mktime" /\ at' = [at EXCEPT ![s] = "store"]
        /\ UNCHANGED <<ticks, todo, req, hist>>
    BY <1>4 DEF Stamp
  <2>. QED
    BY <2>1, ThreadIs DEF Control
<1>5. ASSUME NEW s \in Thread, Store(s)  PROVE Control'
  <2>1. /\ at[s] = "store" /\ Runs(s) /\ ticks' = ticks
        /\ todo' = [todo EXCEPT ![s] = Tail(todo[s])]
        /\ at' = [at EXCEPT ![s] = IF todo'[s] # << >> THEN "call"
                                   ELSE IF s = "dst_show" THEN "time" ELSE "idle"]
    BY <1>5 DEF Store
  <2>2. Begun({}) \in HistRec
    BY HistBegun
  <2>3. hist' \in [Thread -> HistRec]
    <3>1. hist' = hist \/ hist' = [hist EXCEPT ![s] = Begun({})]
      BY <1>5 DEF Store
    <3>. QED
      BY <2>2, <3>1 DEF Control
  <2>4. req' \in [Thread -> Request] /\ req'["main"] = Boot
    <3>1. req' = req \/ req' = [req EXCEPT ![s] = Boot]
      BY <1>5 DEF Store
    <3>. QED
      BY <3>1, BootIsRequest, ThreadIs DEF Control
  <2>5. todo[s] # << >>
    BY <2>1 DEF Control
  <2>6. \/ todo[s] = <<"set_date", "set_time">> /\ s = "main" /\ todo'[s] = <<"set_time">>
        \/ todo[s] = <<"set_time", "set_date">> /\ s # "main" /\ todo'[s] = <<"set_date">>
        \/ todo[s] = <<"set_date">> /\ s # "main" /\ todo'[s] = << >>
        \/ todo[s] = <<"set_time">> /\ s = "main" /\ todo'[s] = << >>
    BY <2>1, <2>5, ThreadIs, Chains DEF Control
  <2>7. todo' \in [Thread -> Chain]
    BY <2>1, <2>6 DEF Control, Chain
  <2>8. /\ at'[s] \in Place /\ ((todo'[s] = << >>) <=> at'[s] \notin Calls)
        /\ at' = [at EXCEPT ![s] = at'[s]]
        /\ at'[s] = "time" => s = "dst_show"
        /\ at'[s] \in {"idle", "call", "time"}
    BY <2>1, <2>6, Chains DEF Control
  <2>9. \A s2 \in Thread : s2 # s => todo'[s2] = todo[s2] /\ at'[s2] = at[s2]
    BY <2>1
  <2>. QED
    BY <2>1, <2>3, <2>4, <2>6, <2>7, <2>8, <2>9, ThreadIs, Chains, WhoRuns DEF Control
<1>6. CASE Drawing
  <2> DEFINE s == "dst_show"
  <2>1. /\ Runs(s) /\ at[s] \notin Calls
        /\ at' = [at EXCEPT ![s] = at'[s]] /\ at'[s] \in Place \ Calls
        /\ UNCHANGED <<ticks, todo, req>>
    BY <1>6, DrawingMoves
  <2>2. Begun({}) \in HistRec
    BY HistBegun
  <2>3. hist' = hist \/ hist' = [hist EXCEPT ![s] = Begun({})]
    BY <1>6 DEF Drawing, NoMessage, GetNow, LocalTime, StrField, Draw
  <2>4. hist' \in [Thread -> HistRec]
    BY <2>2, <2>3 DEF Control
  <2>. QED
    BY <2>1, <2>4, ThreadIs, WhoRuns DEF Control
<1>7. CASE DateShow
  <2>1. hist["dst_show"] \in HistRec
    BY ThreadIs DEF Control
  <2>2. [hist["dst_show"] EXCEPT !.torn = TRUE] \in HistRec
    BY <2>1, HistTorn
  <2>3. \/ hist' = hist
        \/ hist' = [hist EXCEPT !["dst_show"] = [hist["dst_show"] EXCEPT !.torn = TRUE]]
    BY <1>7 DEF DateShow
  <2>4. hist' \in [Thread -> HistRec]
    BY <2>2, <2>3 DEF Control
  <2>5. UNCHANGED <<ticks, at, todo, req>>
    BY <1>7 DEF DateShow
  <2>. QED
    BY <2>4, <2>5 DEF Control
<1>8. CASE UNCHANGED vars
  BY <1>8 DEF Control, vars
<1>. QED
  BY <1>1, <1>2, <1>3, <1>4, <1>5, <1>6, <1>7, <1>8 DEF Next, Drawing

\* and so it always holds.
LEMMA ControlAlways == Spec => []Control
BY ControlInit, ControlNext, PTL DEF Spec

-----------------------------------------------------------------------------
(* How far the clock can go.                                               *)

\* The seconds in which the tick counter wraps; the room, of 51 days, that a wrap
\* and a set_time across midnight may need; and the times that are, but for w
\* seconds, in the years a message can name.  init_time may lie before them by
\* what the tick counter counts, that is 50 days: 10907 is 10957 - 50.
Span == (TickMod - 1) \div RT_TICK_PER_SECOND
Wide == 51 * SPD
Near(w, t) == t \in Int /\ SPD * 10907 - w <= t /\ t <= SPD * 47482 + w
Fits(w, t) == t \in Int /\ \A e \in Nat : e <= Span => Near(w, t - e)

\* Division with rest, for any divisor.
LEMMA DivFacts ==
    ASSUME NEW n \in Nat, n > 0, NEW a \in Int
    PROVE  /\ a \div n \in Int /\ a % n \in Int /\ 0 <= a % n /\ a % n < n
           /\ a = n * (a \div n) + (a % n)
OBVIOUS

\* Quotients are ordered as the numbers are.
LEMMA Quotients ==
    ASSUME NEW n \in Nat, n > 0, NEW q \in Int, NEW p \in Int,
           NEW r \in Int, 0 <= r, r < n, NEW c \in Int, 0 <= c, c < n,
           n * q + r <= n * p + c
    PROVE  q <= p
OBVIOUS

\* Division is monotone.
LEMMA DivMonotone ==
    ASSUME NEW n \in Nat, n > 0, NEW a \in Int, NEW b \in Int, a <= b
    PROVE  a \div n <= b \div n
<1> DEFINE q == a \div n
           r == a % n
           p == b \div n
           c == b % n
<1>1. /\ q \in Int /\ r \in Int /\ 0 <= r /\ r < n /\ a = n * q + r
      /\ p \in Int /\ c \in Int /\ 0 <= c /\ c < n /\ b = n * p + c
  BY DivFacts
<1> HIDE DEF q, r, p, c
<1>2. n * q + r <= n * p + c
  BY <1>1
<1>3. q <= p
  BY <1>1, <1>2, Quotients
<1>. QED
  BY <1>3 DEF q, p

\* One more adds one to the quotient, or nothing.
LEMMA DivStep ==
    ASSUME NEW n \in Nat, n > 0, NEW a \in Int
    PROVE  (a + 1) \div n = a \div n \/ (a + 1) \div n = (a \div n) + 1
<1> DEFINE q == a \div n
           r == a % n
           p == (a + 1) \div n
           c == (a + 1) % n
<1>1. /\ q \in Int /\ r \in Int /\ 0 <= r /\ r < n /\ a = n * q + r
      /\ p \in Int /\ c \in Int /\ 0 <= c /\ c < n /\ a + 1 = n * p + c
  BY DivFacts
<1> HIDE DEF q, r, p, c
<1>2. q <= p
  <2>1. n * q + r <= n * p + c
    BY <1>1
  <2>. QED
    BY <1>1, <2>1, Quotients
<1>3. p <= q + 1
  <2> DEFINE z == q + 1
  <2>1. n * z = n * q + n
    BY <1>1
  <2>2. z \in Int
    BY <1>1
  <2> HIDE DEF z
  <2>3. n * p + c <= n * z + r
    BY <1>1, <2>1, <2>2
  <2>4. p <= z
    BY <1>1, <2>2, <2>3, Quotients
  <2>. QED
    BY <2>4 DEF z
<1>4. p = q \/ p = q + 1
  BY <1>1, <1>2, <1>3
<1>. QED
  BY <1>4 DEF p, q

\* Zero divided.
LEMMA DivOfSmall ==
    ASSUME NEW n \in Nat, n > 0
    PROVE  0 \div n = 0
<1>1. 0 \div n \in Int /\ 0 % n \in Int /\ 0 <= 0 % n /\ 0 % n < n /\ 0 = n * (0 \div n) + (0 % n)
  BY DivFacts
<1> DEFINE q == 0 \div n
           r == 0 % n
           zero == 0
<1>2. q \in Int /\ r \in Int /\ 0 <= r /\ r < n /\ 0 = n * q + r
  BY <1>1
<1> HIDE DEF q, r
<1>3. q <= zero /\ zero <= q
  <2>1. zero \in Int /\ 0 <= zero /\ zero < n /\ n * zero + zero = 0
    OBVIOUS
  <2> HIDE DEF zero
  <2>2. n * q + r <= n * zero + zero /\ n * zero + zero <= n * q + r
    BY <1>2, <2>1
  <2>. QED
    BY <1>2, <2>1, <2>2, Quotients
<1>4. q = 0
  BY <1>2, <1>3
<1>. QED
  BY <1>4 DEF q

\* The tick counter wraps within 50 days.
LEMMA SpanBound == Span \in Nat /\ Span <= 50 * SPD
<1> DEFINE n == RT_TICK_PER_SECOND
           a == TickMod - 1
           zero == 0
<1>1. n \in Nat /\ n > 0 /\ a \in Int /\ zero \in Int /\ zero <= a
  BY TickAssumption
<1>2. Span = a \div n /\ Span <= 50 * SPD
  BY TickAssumption DEF Span
<1>3. zero \div n = 0
  BY <1>1, DivOfSmall
<1> HIDE DEF n, a, zero
<1>4. a \div n \in Int /\ zero \div n <= a \div n
  BY <1>1, DivFacts, DivMonotone
<1>. QED
  BY <1>2, <1>3, <1>4

\* The seconds that some ticks make.
LEMMA SecondsBound ==
    ASSUME NEW b \in 0 .. TickMod - 1, NEW e, e = b \div RT_TICK_PER_SECOND
    PROVE  e \in Nat /\ e <= Span
<1> DEFINE n == RT_TICK_PER_SECOND
           a == TickMod - 1
           zero == 0
<1>1. n \in Nat /\ n > 0 /\ a \in Int /\ zero \in Int /\ zero <= b /\ b \in Int /\ b <= a
  BY TickAssumption
<1>2. Span = a \div n /\ e = b \div n
  BY DEF Span
<1>3. zero \div n = 0
  BY <1>1, DivOfSmall
<1> HIDE DEF n, a, zero
<1>4. b \div n \in Int /\ zero \div n <= b \div n /\ b \div n <= a \div n
  BY <1>1, DivFacts, DivMonotone
<1>. QED
  BY <1>2, <1>3, <1>4

\* The clock adds no more than 50 days to init_time.
LEMMA ElapsedBound ==
    ASSUME Control
    PROVE  Elapsed \in Nat /\ Elapsed <= Span
BY SecondsBound DEF Control, Elapsed

\* With up to twice the room the clock is still inside the calendar.
LEMMA NearTimes ==
    ASSUME NEW w \in Int, w <= 2 * Wide, NEW t0, Near(w, t0),
           NEW e \in Nat, e <= Span, NEW t, t = t0 + e
    PROVE  t0 \in Nat /\ t \in Times
<1> DEFINE last == DaysUntil[LastYear + 1]
<1>1. last \in Nat /\ last >= 47482 + 365
  BY KnownDays, LastDay
<1>2. Times = 0 .. SPD * last - 1
  BY DEF Times
<1> HIDE DEF last
<1>3. SPD \in Nat /\ SPD > 1000
  BY DayIsPositive
<1>4. SPD * last >= SPD * 47847
  BY <1>1, SecondsPerDay
<1>5. SPD * last \in Nat
  BY <1>1, <1>3
<1>6. t0 \in Nat /\ t \in Nat /\ t < SPD * 47847
  BY <1>3, SpanBound DEF Near, Wide
<1>. QED
  BY <1>2, <1>4, <1>5, <1>6, <1>3

\* More room holds what less room holds.
LEMMA NearWider ==
    ASSUME NEW w \in Int, NEW v \in Int, w <= v, NEW t, Near(w, t)
    PROVE  Near(v, t)
BY DayIsPositive DEF Near

\* What set_time writes needs one room more than what it read: the tick counter
\* may wrap between the read and the write.
LEMMA NearSetTime ==
    ASSUME NEW w \in Int, NEW t0, Near(w, t0), NEW e0 \in Nat, e0 <= Span,
           NEW t, t = t0 + e0, NEW q, q = t \div SPD, NEW u \in 0 .. SPD - 1,
           NEW z, z = SPD * q + u, NEW v \in Int, w + Wide <= v
    PROVE  Fits(v, z)
<1>1. t \in Int /\ t0 \in Int
  BY DEF Near
<1>2. q \in Int /\ t % SPD \in Nat /\ t % SPD < SPD /\ t = SPD * q + (t % SPD)
  BY <1>1, DivMod
<1> DEFINE p == SPD * q
<1>3. p \in Int /\ p <= t /\ t < p + SPD
  BY <1>1, <1>2, DayIsPositive
<1>4. z = p + u
  OBVIOUS
<1> HIDE DEF p
<1>. QED
  BY <1>1, <1>3, <1>4, DayIsPositive, SpanBound DEF Near, Wide, Fits

\* What set_date writes needs no room, and at boot it leaves one room free.
LEMMA NearSetDate ==
    ASSUME NEW r \in Request, NEW u \in 0 .. SPD - 1, NEW z, z = Midnight(r) + u
    PROVE  /\ Fits(0, z)
           /\ r = Boot => Fits(-Wide, z)
<1> DEFINE day == RequestDay(r)
<1>1. /\ Midnight(r) = SPD * day /\ day \in Nat /\ 10957 <= day /\ day < 47482
      /\ r.year = 2022 => 18993 <= day /\ day < 19358
  BY MidnightIs
<1>2. r = Boot => r.year = 2022
  BY DEF Boot
<1> HIDE DEF day
<1> DEFINE p == SPD * day
<1>3. /\ p \in Nat /\ SPD * 10957 <= p /\ p + SPD <= SPD * 47482
      /\ r = Boot => SPD * 18993 <= p /\ p + SPD <= SPD * 19358
  BY <1>1, <1>2, SecondsPerDay
<1>4. Midnight(r) = p
  BY <1>1
<1> HIDE DEF p
<1>. QED
  BY <1>3, <1>4, DayIsPositive, SpanBound DEF Near, Wide, Fits

\* 1 January 2018, the time before anyone has set the clock.
LEMMA TimeDefaultIs == TimeDefault = SPD * 17532 /\ Near(-Wide, TimeDefault)
<1> DEFINE x == [tm_year |-> 118, tm_mon |-> 0, tm_mday |-> 1,
                 tm_hour |-> 0, tm_min |-> 0, tm_sec |-> 0]
<1>1. /\ x.tm_year = 118 /\ x.tm_mon = 0 /\ x.tm_mday = 1
      /\ x.tm_hour = 0 /\ x.tm_min = 0 /\ x.tm_sec = 0
  OBVIOUS
<1>2. TimeDefault = mktime(x)
  BY DEF TimeDefault
<1> HIDE DEF x
<1>3. mkday(x) = 17532
  BY <1>1 DEF mkday, spm, isleap
<1>4. TimeDefault = SPD * 17532
  BY <1>1, <1>2, <1>3 DEF mktime, SPD
<1>. QED
  BY <1>4, DayIsPositive DEF Near, Wide

\* gmtime_r returns fields in range,
LEMMA GmtimeType ==
    ASSUME NEW t \in Times
    PROVE  gmtime_r(t) \in tm
<1> DEFINE q == t \div SPD
           r == t % SPD
<1>1. q \in Days /\ r \in 0 .. SPD - 1 /\ gmtime_r(t) = TmOf(q, r)
  BY SplitTime
<1> HIDE DEF q, r
<1>. QED
  BY <1>1, TmOfType

\* for 1 January 1970 as well.
LEMMA IdleType == Idle \in tm /\ 0 \in Times
<1> DEFINE last == DaysUntil[LastYear + 1]
           zero == 0
<1>1. last \in Nat /\ last >= 47482 + 365
  BY KnownDays, LastDay
<1>2. Times = 0 .. SPD * last - 1
  BY DEF Times
<1> HIDE DEF last
<1>3. SPD * last > 0 /\ SPD * last \in Nat
  BY <1>1, SecondsPerDay
<1>4. zero \in Times
  BY <1>2, <1>3
<1>5. Idle = gmtime_r(zero)
  BY DEF Idle
<1>6. 0 \in Times
  BY <1>4
<1> HIDE DEF zero
<1>. QED
  BY <1>4, <1>5, <1>6, GmtimeType

-----------------------------------------------------------------------------
(* The clock stays in the calendar.                                        *)

\* The room init_time needs, by what the threads have left to do: a date that has
\* set the time and not yet the date may have moved the clock by one room, and it
\* may have been called by tshell in the middle of another of dst_show.
Room ==
    IF at["main"] # "idle" THEN -Wide
    ELSE IF todo["tshell"] = <<"set_date">> THEN 2 * Wide
    ELSE IF todo["dst_show"] = <<"set_date">> THEN Wide
    ELSE 0

\* The room init_time needs once s has completed its call.
Leaves(s) ==
    IF Head(todo[s]) = "set_date" THEN IF s = "main" THEN -Wide ELSE 0
    ELSE IF s = "main" THEN 0 ELSE IF s = "dst_show" THEN Wide ELSE 2 * Wide

\* What a thread is about to write has that room.
CallBounds(s) ==
    /\ tm_new[s] \in tm
    /\ at[s] = "mktime" => Fits(Leaves(s), mktime(tm_new[s]))
    /\ at[s] = "store" => Near(Leaves(s), stamp[s])
    /\ at[s] # "store" => stamp[s] = 0

\* The inductive invariant, second part: the time stays in the calendar.
Bounds ==
    /\ Near(Room, init_time)
    /\ tmp \in tm /\ shown \in tm /\ now \in Times
    /\ tm_new \in [Thread -> tm]
    /\ DOMAIN stamp = Thread /\ stamp = [s \in Thread |-> stamp[s]]
    /\ \A s \in Thread : CallBounds(s)

\* The rooms are numbers.
LEMMA Widths ==
    /\ Wide \in Nat /\ -Wide \in Int
    /\ Room \in Int /\ Room <= 2 * Wide
    /\ \A s \in Thread : Leaves(s) \in Int /\ Leaves(s) <= 2 * Wide
<1>1. Wide \in Nat
  BY DayIsPositive DEF Wide
<1>. QED
  BY <1>1 DEF Room, Leaves

\* The time is always one of the calendar.
LEMMA TimeInCalendar ==
    ASSUME Control, Bounds
    PROVE  /\ GetTime \in Times /\ GetTime = init_time + Elapsed
           /\ init_time \in Nat /\ Elapsed \in Nat /\ Elapsed <= Span
           /\ gmtime_r(GetTime) \in tm
<1>1. Elapsed \in Nat /\ Elapsed <= Span
  BY ElapsedBound
<1>2. Room \in Int /\ Room <= 2 * Wide /\ Near(Room, init_time)
  BY Widths DEF Bounds
<1>3. GetTime = init_time + Elapsed
  BY DEF GetTime
<1>4. init_time \in Nat /\ GetTime \in Times
  BY <1>1, <1>2, <1>3, NearTimes
<1>. QED
  BY <1>1, <1>3, <1>4, GmtimeType

\* One field of one time put into another: it has the field of the one, and the
\* rest of the other.
LEMMA StrFieldTm ==
    ASSUME NEW g \in tm, NEW x \in tm, NEW f \in Fields,
           NEW y, y = [g EXCEPT ![f] = x[f]]
    PROVE  /\ y \in tm
           /\ \A f2 \in Fields : y[f2] = IF f2 = f THEN x[f] ELSE g[f2]
<1> DEFINE Y == 70 .. LastYear - 1900
           M == 0 .. 11
           D == 1 .. 31
           H == 0 .. 23
           I == 0 .. 59
<1>1. tm = [tm_year : Y, tm_mon : M, tm_mday : D, tm_hour : H, tm_min : I, tm_sec : I]
  BY DEF tm
<1> HIDE DEF Y, M, D, H, I
<1>2. CASE f = "tm_year"
  BY <1>1, <1>2 DEF Fields
<1>3. CASE f = "tm_mon"
  BY <1>1, <1>3 DEF Fields
<1>4. CASE f = "tm_mday"
  BY <1>1, <1>4 DEF Fields
<1>5. CASE f = "tm_hour"
  BY <1>1, <1>5 DEF Fields
<1>6. CASE f = "tm_min"
  BY <1>1, <1>6 DEF Fields
<1>7. CASE f = "tm_sec"
  BY <1>1, <1>7 DEF Fields
<1>. QED
  BY <1>2, <1>3, <1>4, <1>5, <1>6, <1>7 DEF Fields

\* Bounds holds at boot.
LEMMA BoundsInit == Init => Bounds
<1> SUFFICES ASSUME Init PROVE Bounds
  OBVIOUS
<1>1. Room = -Wide
  BY ThreadIs DEF Init, Room
<1>2. Near(Room, init_time)
  BY <1>1, TimeDefaultIs DEF Init
<1>3. \A s \in Thread : CallBounds(s)
  BY IdleType DEF Init, CallBounds
<1>. QED
  BY <1>2, <1>3, IdleType DEF Init, Bounds

\* What a step leaves alone keeps its bounds.
LEMMA CallBoundsKept ==
    ASSUME NEW s \in Thread, CallBounds(s), at'[s] = at[s], todo'[s] = todo[s],
           tm_new'[s] = tm_new[s], stamp'[s] = stamp[s]
    PROVE  CallBounds(s)'
<1>1. Leaves(s)' = Leaves(s)
  BY DEF Leaves
<1>. QED
  BY <1>1 DEF CallBounds

\* The time that set_time or set_date puts together has the room it needs.
LEMMA ReadBounds ==
    ASSUME Control, Bounds, NEW s \in Thread, Read(s)
    PROVE  /\ tm_new'[s] \in tm
           /\ Fits(Leaves(s), mktime(tm_new'[s]))
<1> DEFINE t == GetTime
           r == req[s]
           x == tm_new'[s]
           u == TimeOfDay(r)
<1>1. /\ t \in Times /\ t = init_time + Elapsed /\ init_time \in Nat
      /\ Elapsed \in Nat /\ Elapsed <= Span /\ gmtime_r(t) \in tm
  BY TimeInCalendar
<1>2. r \in Request /\ (s = "main" => r = Boot) /\ todo[s] # << >> /\ at[s] = "call" /\ Runs(s)
  BY DEF Control, Read, Calls
<1>3. tmp' = gmtime_r(t) /\ x = Changed(Head(todo[s]), gmtime_r(t), r)
  BY DEF Read, Bounds
<1>4. u \in 0 .. SPD - 1
  BY <1>2, RequestFields
<1>5. Head(todo[s]) \in {"set_date", "set_time"}
  BY <1>2, Chains DEF Control, Chain
<1> HIDE DEF t, r, x, u
<1>6. CASE Head(todo[s]) = "set_date"
  <2> DEFINE tod == t % SPD
  <2>1. x = Changed("set_date", gmtime_r(t), r)
    BY <1>3, <1>6
  <2>2. tod \in 0 .. SPD - 1
    BY <1>1, SplitTime
  <2>3. x \in tm /\ mktime(x) = Midnight(r) + tod
    BY <1>1, <1>2, <2>1, ChangedDate
  <2> HIDE DEF tod
  <2>4. Fits(0, mktime(x)) /\ (r = Boot => Fits(-Wide, mktime(x)))
    BY <1>2, <2>2, <2>3, NearSetDate
  <2>5. Leaves(s) = IF s = "main" THEN -Wide ELSE 0
    BY <1>6 DEF Leaves
  <2>. QED
    BY <1>2, <2>3, <2>4, <2>5 DEF x
<1>7. CASE Head(todo[s]) = "set_time"
  <2> DEFINE q == t \div SPD
  <2>1. x = Changed("set_time", gmtime_r(t), r)
    BY <1>3, <1>7
  <2>2. x \in tm /\ mktime(x) = SPD * q + u
    BY <1>1, <1>2, <2>1, ChangedTime DEF u
  <2> HIDE DEF q
  <2>4. Room + Wide <= Leaves(s) /\ Room + Wide \in Int /\ Leaves(s) \in Int
    <3>1. /\ todo[s] \in {<<"set_time">>, <<"set_time", "set_date">>}
      BY <1>2, <1>7, Chains DEF Control, Chain
    <3>2. CASE s = "main"
      <4>1. at["main"] # "idle"
        BY <1>2, <3>2
      <4>. QED
        BY <1>7, <3>2, <4>1, Widths DEF Room, Leaves
    <3>3. CASE s = "dst_show"
      <4>1. at["main"] = "idle" /\ at["tshell"] = "idle"
        BY <1>2, <3>3, WhoRuns
      <4>2. todo["tshell"] = << >> /\ todo["dst_show"] # <<"set_date">>
        BY <3>1, <3>3, <4>1, ThreadIs, Chains DEF Control, Calls
      <4>3. Room = 0
        BY <4>1, <4>2, Chains DEF Room
      <4>. QED
        BY <1>7, <3>3, <4>3, Widths DEF Leaves
    <3>4. CASE s = "tshell"
      <4>1. at["main"] = "idle"
        BY <1>2, <3>4, WhoRuns
      <4>2. todo["tshell"] # <<"set_date">>
        BY <3>1, <3>4, Chains
      <4>3. Room \in {0, Wide}
        BY <4>1, <4>2, Chains DEF Room
      <4>. QED
        BY <1>7, <3>4, <4>3, Widths DEF Leaves
    <3>. QED
      BY <3>2, <3>3, <3>4, ThreadIs
  <2>5. Fits(Leaves(s), mktime(x))
    <3> DEFINE w == Room
               v == Leaves(s)
               z == mktime(x)
               e0 == Elapsed
               t0 == init_time
    <3>1. /\ w \in Int /\ v \in Int /\ w + Wide <= v /\ z = SPD * q + u
          /\ Near(w, t0) /\ e0 \in Nat /\ e0 <= Span /\ t = t0 + e0 /\ q = t \div SPD
      BY <1>1, <2>2, <2>4, Widths DEF Bounds, q
    <3> HIDE DEF w, v, z, e0, t0
    <3>2. Fits(v, z)
      BY <1>4, <3>1, NearSetTime
    <3>. QED
      BY <3>2 DEF v, z
  <2>. QED
    BY <2>2, <2>5 DEF x
<1>. QED
  BY <1>5, <1>6, <1>7

\* A write to init_time leaves the room that the calls still left require.
LEMMA StoreRoom ==
    ASSUME Control, Bounds, NEW s \in Thread, Store(s)
    PROVE  Near(Room', stamp[s])
<1>1. /\ at[s] = "store" /\ Runs(s)
      /\ todo' = [todo EXCEPT ![s] = Tail(todo[s])]
      /\ at' = [at EXCEPT ![s] = IF todo'[s] # << >> THEN "call"
                                 ELSE IF s = "dst_show" THEN "time" ELSE "idle"]
  BY DEF Store
<1>2. Near(Leaves(s), stamp[s])
  BY <1>1 DEF Bounds, CallBounds
<1>3. todo[s] # << >>
  BY <1>1 DEF Control, Calls
<1>4. Leaves(s) \in Int /\ Room' \in Int
  BY Widths DEF Room
<1>5. Leaves(s) <= Room'
  <2>1. CASE s = "main"
    <3>1. at["tshell"] = "idle" /\ at["dst_show"] = "idle"
      BY <1>1, <2>1 DEF Control
    <3>2. todo'["tshell"] = << >> /\ todo'["dst_show"] = << >>
      BY <1>1, <2>1, <3>1, ThreadIs DEF Control, Calls
    <3>3. CASE todo[s] = <<"set_time">>
      <4>1. at'["main"] = "idle"
        BY <1>1, <2>1, <3>3, ThreadIs, Chains DEF Control
      <4>2. Room' = 0
        BY <3>2, <4>1, Chains DEF Room
      <4>3. Leaves(s) = 0
        BY <2>1, <3>3, Chains DEF Leaves
      <4>. QED
        BY <4>2, <4>3
    <3>4. CASE todo[s] = <<"set_date", "set_time">>
      <4>1. at'["main"] = "call"
        BY <1>1, <2>1, <3>4, ThreadIs, Chains DEF Control
      <4>2. Room' = -Wide
        BY <4>1 DEF Room
      <4>3. Leaves(s) = -Wide
        BY <2>1, <3>4, Chains DEF Leaves
      <4>. QED
        BY <4>2, <4>3, Widths
    <3>. QED
      BY <1>3, <2>1, <3>3, <3>4 DEF Control
  <2>2. CASE s = "dst_show"
    <3>1. at["main"] = "idle" /\ at["tshell"] = "idle"
      BY <1>1, <2>2, WhoRuns
    <3>2. todo'["tshell"] = << >> /\ at'["main"] = "idle"
      BY <1>1, <2>2, <3>1, ThreadIs DEF Control, Calls
    <3>3. CASE todo[s] = <<"set_date">>
      <4>1. Room' \in {0, Wide}
        BY <3>2, Chains DEF Room
      <4>2. Leaves(s) = 0
        BY <2>2, <3>3, Chains DEF Leaves
      <4>. QED
        BY <4>1, <4>2, Widths
    <3>4. CASE todo[s] = <<"set_time", "set_date">>
      <4>1. todo'["dst_show"] = <<"set_date">>
        BY <1>1, <2>2, <3>4, ThreadIs, Chains DEF Control
      <4>2. Room' = Wide
        BY <3>2, <4>1, Chains DEF Room
      <4>3. Leaves(s) = Wide
        BY <2>2, <3>4, Chains DEF Leaves
      <4>. QED
        BY <4>2, <4>3, Widths
    <3>. QED
      BY <1>3, <2>2, <3>3, <3>4, ThreadIs DEF Control
  <2>3. CASE s = "tshell"
    <3>1. at["main"] = "idle"
      BY <1>1, <2>3, WhoRuns
    <3>2. at'["main"] = "idle"
      BY <1>1, <2>3, <3>1, ThreadIs DEF Control
    <3>3. CASE todo[s] = <<"set_date">>
      <4>1. Room' \in {0, Wide, 2 * Wide}
        BY <3>2 DEF Room
      <4>2. Leaves(s) = 0
        BY <2>3, <3>3, Chains DEF Leaves
      <4>. QED
        BY <4>1, <4>2, Widths
    <3>4. CASE todo[s] = <<"set_time", "set_date">>
      <4>1. todo'["tshell"] = <<"set_date">>
        BY <1>1, <2>3, <3>4, ThreadIs, Chains DEF Control
      <4>2. Room' = 2 * Wide
        BY <3>2, <4>1 DEF Room
      <4>3. Leaves(s) = 2 * Wide
        BY <2>3, <3>4, Chains DEF Leaves
      <4>. QED
        BY <4>2, <4>3, Widths
    <3>. QED
      BY <1>3, <2>3, <3>3, <3>4, ThreadIs DEF Control
  <2>. QED
    BY <2>1, <2>2, <2>3, ThreadIs
<1>. QED
  BY <1>2, <1>4, <1>5, NearWider

\* Every step keeps Bounds,
LEMMA BoundsNext == Control /\ Control' /\ Bounds /\ [Next]_vars => Bounds'
<1> SUFFICES ASSUME Control, Control', Bounds, [Next]_vars PROVE Bounds'
  OBVIOUS
<1>0. \A s \in Thread : CallBounds(s)
  BY DEF Bounds
<1>1. CASE Tick
  <2>1. UNCHANGED <<init_time, tmp, at, todo, req, tm_new, stamp, now, shown>>
    BY <1>1 DEF Tick
  <2>2. Room' = Room
    BY <2>1 DEF Room
  <2>3. \A s \in Thread : CallBounds(s)'
    BY <1>0, <2>1, CallBoundsKept
  <2>. QED
    BY <2>1, <2>2, <2>3 DEF Bounds
<1>2. ASSUME NEW s \in Thread, NEW m \in Messages, Date(s, m)  PROVE Bounds'
  <2>1. /\ s # "main" /\ at[s] = "idle" /\ Runs(s)
        /\ at' = [at EXCEPT ![s] = "call"]
        /\ todo' = [todo EXCEPT ![s] = <<"set_time", "set_date">>]
        /\ UNCHANGED <<init_time, tmp, tm_new, stamp, now, shown>>
    BY <1>2 DEF Date, DateCalls
  <2>2. todo[s] = << >> /\ at'["main"] = at["main"] /\ at'[s] = "call"
    BY <2>1, ThreadIs DEF Control, Calls
  <2>3. todo'[s] # <<"set_date">> /\ todo[s] # <<"set_date">>
    BY <2>1, <2>2, Chains DEF Control
  <2>4. \A s2 \in Thread : s2 # s => todo'[s2] = todo[s2] /\ at'[s2] = at[s2]
    BY <2>1 DEF Control
  <2>5. Room' = Room
    <3>1. \A s2 \in Thread : (todo'[s2] = <<"set_date">>) <=> (todo[s2] = <<"set_date">>)
      BY <2>3, <2>4
    <3>. QED
      BY <2>2, <3>1, ThreadIs DEF Room
  <2>6. \A s2 \in Thread : s2 # s => CallBounds(s2)'
    BY <1>0, <2>1, <2>4, CallBoundsKept
  <2>7. CallBounds(s)'
    BY <1>0, <2>1, <2>2 DEF CallBounds
  <2>. QED
    BY <2>1, <2>5, <2>6, <2>7 DEF Bounds
<1>3. ASSUME NEW s \in Thread, Read(s)  PROVE Bounds'
  <2>1. /\ at[s] = "call" /\ at' = [at EXCEPT ![s] = "mktime"]
        /\ \E x : tm_new' = [tm_new EXCEPT ![s] = x]
        /\ tmp' = gmtime_r(GetTime)
        /\ UNCHANGED <<init_time, todo, stamp, now, shown>>
    BY <1>3 DEF Read
  <2>2. at'[s] = "mktime" /\ ((at'["main"] = "idle") <=> (at["main"] = "idle"))
    BY <2>1, ThreadIs DEF Control
  <2>3. Room' = Room
    BY <2>1, <2>2 DEF Room
  <2>4. /\ tm_new'[s] \in tm
        /\ Fits(Leaves(s), mktime(tm_new'[s]))
    BY <1>3, ReadBounds
  <2>5. Leaves(s)' = Leaves(s)
    BY <2>1 DEF Leaves
  <2>6. CallBounds(s)'
    <3>1. stamp'[s] = 0
      BY <1>0, <2>1 DEF CallBounds
    <3>. QED
      BY <2>2, <2>4, <2>5, <3>1 DEF CallBounds
  <2>7. \A s2 \in Thread : s2 # s => at'[s2] = at[s2] /\ tm_new'[s2] = tm_new[s2]
    BY <2>1 DEF Control, Bounds
  <2>8. \A s2 \in Thread : s2 # s => CallBounds(s2)'
    BY <1>0, <2>1, <2>7, CallBoundsKept
  <2>9. tm_new' \in [Thread -> tm]
    BY <2>1, <2>4 DEF Bounds
  <2>10. tmp' \in tm
    BY <2>1, TimeInCalendar
  <2>. QED
    BY <2>1, <2>3, <2>6, <2>8, <2>9, <2>10 DEF Bounds
<1>4. ASSUME NEW s \in Thread, Stamp(s)  PROVE Bounds'
  <2> DEFINE z == mktime(tm_new[s]) - Elapsed
  <2>1. /\ at[s] = "mktime" /\ at' = [at EXCEPT ![s] = "store"]
        /\ stamp' = [stamp EXCEPT ![s] = z]
        /\ UNCHANGED <<init_time, tmp, todo, tm_new, now, shown>>
    BY <1>4 DEF Stamp
  <2>2. Near(Leaves(s), z)
    <3>1. Elapsed \in Nat /\ Elapsed <= Span
      BY ElapsedBound
    <3>. QED
      BY <1>0, <2>1, <3>1 DEF CallBounds, Fits
  <2> HIDE DEF z
  <2>3. at'[s] = "store" /\ ((at'["main"] = "idle") <=> (at["main"] = "idle"))
    BY <2>1, ThreadIs DEF Control
  <2>4. Room' = Room
    BY <2>1, <2>3 DEF Room
  <2>5. Leaves(s)' = Leaves(s)
    BY <2>1 DEF Leaves
  <2>6. stamp'[s] = z /\ \A s2 \in Thread : s2 # s => stamp'[s2] = stamp[s2] /\ at'[s2] = at[s2]
    BY <2>1 DEF Bounds, Control
  <2>7. CallBounds(s)'
    BY <1>0, <2>1, <2>2, <2>3, <2>5, <2>6 DEF CallBounds
  <2>8. \A s2 \in Thread : s2 # s => CallBounds(s2)'
    BY <1>0, <2>1, <2>6, CallBoundsKept
  <2>9. DOMAIN stamp' = Thread /\ stamp' = [s2 \in Thread |-> stamp'[s2]]
    BY <2>1 DEF Bounds
  <2>. QED
    BY <2>1, <2>4, <2>7, <2>8, <2>9 DEF Bounds
<1>5. ASSUME NEW s \in Thread, Store(s)  PROVE Bounds'
  <2>1. /\ at[s] = "store" /\ init_time' = stamp[s]
        /\ todo' = [todo EXCEPT ![s] = Tail(todo[s])]
        /\ at' = [at EXCEPT ![s] = IF todo'[s] # << >> THEN "call"
                                   ELSE IF s = "dst_show" THEN "time" ELSE "idle"]
        /\ tm_new' = [tm_new EXCEPT ![s] = Idle]
        /\ stamp' = [stamp EXCEPT ![s] = 0]
        /\ UNCHANGED <<tmp, now, shown>>
    BY <1>5 DEF Store
  <2>2. Near(Room', init_time')
    BY <1>5, <2>1, StoreRoom
  <2>3. at'[s] # "store" /\ at'[s] # "mktime" /\ tm_new'[s] = Idle /\ stamp'[s] = 0
    BY <2>1 DEF Control, Bounds
  <2>4. CallBounds(s)'
    BY <2>3, IdleType DEF CallBounds
  <2>5. \A s2 \in Thread : s2 # s => /\ stamp'[s2] = stamp[s2] /\ at'[s2] = at[s2]
                                     /\ tm_new'[s2] = tm_new[s2] /\ todo'[s2] = todo[s2]
    BY <2>1 DEF Bounds, Control
  <2>6. \A s2 \in Thread : s2 # s => CallBounds(s2)'
    BY <1>0, <2>5, CallBoundsKept
  <2>7. /\ DOMAIN stamp' = Thread /\ stamp' = [s2 \in Thread |-> stamp'[s2]]
        /\ tm_new' \in [Thread -> tm]
    BY <2>1, IdleType DEF Bounds
  <2>. QED
    BY <2>1, <2>2, <2>4, <2>6, <2>7 DEF Bounds
<1>6. CASE Drawing
  <2> DEFINE s == "dst_show"
  <2>1. /\ at[s] \notin Calls /\ at' = [at EXCEPT ![s] = at'[s]] /\ at'[s] \notin Calls
        /\ UNCHANGED <<init_time, todo, tm_new, stamp>>
    BY <1>6, DrawingMoves
  <2>2. s \in Thread /\ at'["main"] = at["main"]
        /\ \A s2 \in Thread : s2 # s => at'[s2] = at[s2]
    BY <2>1, ThreadIs DEF Control
  <2>3. Room' = Room
    BY <2>1, <2>2 DEF Room
  <2>4. \A s2 \in Thread : s2 # s => CallBounds(s2)'
    BY <1>0, <2>1, <2>2, CallBoundsKept
  <2>5. CallBounds(s)'
    BY <1>0, <2>1, <2>2 DEF CallBounds, Calls
  <2>6. tmp' \in tm
    <3>1. tmp' = tmp \/ tmp' = gmtime_r(now)
      BY <1>6 DEF Drawing, NoMessage, GetNow, LocalTime, StrField, Draw
    <3>2. now \in Times
      BY DEF Bounds
    <3>3. gmtime_r(now) \in tm
      BY <3>2, GmtimeType
    <3>. QED
      BY <3>1, <3>3 DEF Bounds
  <2>7. now' \in Times
    <3>1. now' = now \/ now' = GetTime \/ now' = 0
      BY <1>6 DEF Drawing, NoMessage, GetNow, LocalTime, StrField, Draw
    <3>. QED
      BY <3>1, TimeInCalendar, IdleType DEF Bounds
  <2>8. shown' \in tm
    <3>1. CASE NoMessage \/ GetNow \/ LocalTime
      BY <3>1 DEF NoMessage, GetNow, LocalTime, Bounds
    <3>2. ASSUME NEW f \in Fields, StrField(f)  PROVE shown' \in tm
      BY <3>2, StrFieldTm DEF StrField, Bounds
    <3>3. CASE Draw
      BY <3>3, IdleType DEF Draw
    <3>. QED
      BY <1>6, <3>1, <3>2, <3>3 DEF Drawing
  <2>. QED
    BY <2>1, <2>3, <2>4, <2>5, <2>6, <2>7, <2>8 DEF Bounds
<1>7. CASE UNCHANGED <<init_time, at, todo, req, tm_new, stamp, now, shown>> /\ tmp' \in tm
  <2>1. Room' = Room
    BY <1>7 DEF Room
  <2>2. \A s \in Thread : CallBounds(s)'
    BY <1>0, <1>7, CallBoundsKept
  <2>. QED
    BY <1>7, <2>1, <2>2 DEF Bounds
<1>8. CASE DateShow
  BY <1>7, <1>8, TimeInCalendar DEF DateShow
<1>9. CASE UNCHANGED vars
  BY <1>7, <1>9 DEF vars, Bounds
<1>. QED
  BY <1>1, <1>2, <1>3, <1>4, <1>5, <1>6, <1>8, <1>9 DEF Next, Drawing

\* and so it always holds.
LEMMA BoundsAlways == Spec => []Bounds
<1>1. Init => Bounds
  BY BoundsInit
<1>2. Control /\ Control' /\ Bounds /\ [Next]_vars => Bounds'
  BY BoundsNext
<1>. QED
  BY <1>1, <1>2, ControlAlways, PTL DEF Spec

\* The type invariant is part of Control and Bounds.
LEMMA TypesFollow == Control /\ Bounds => TypeOK
<1> SUFFICES ASSUME Control, Bounds PROVE TypeOK
  OBVIOUS
<1>1. init_time \in Nat /\ now \in Nat
  BY TimeInCalendar, SplitTime DEF Bounds
<1>2. ASSUME NEW s \in Thread  PROVE stamp[s] \in Nat
  <2>1. CallBounds(s)
    BY DEF Bounds
  <2>2. CASE at[s] = "store"
    <3> DEFINE w == Leaves(s)
               z == stamp[s]
               zero == 0
    <3>1. w \in Int /\ w <= 2 * Wide /\ Near(w, z)
      BY <2>1, <2>2, Widths DEF CallBounds
    <3>2. zero \in Nat /\ zero <= Span
      BY SpanBound
    <3> HIDE DEF w, z, zero
    <3>3. z \in Nat
      BY <3>1, <3>2, NearTimes
    <3>. QED
      BY <3>3 DEF z
  <2>3. CASE at[s] # "store"
    BY <2>1, <2>3 DEF CallBounds
  <2>. QED
    BY <2>2, <2>3
<1>3. stamp \in [Thread -> Nat]
  BY <1>2 DEF Bounds
<1>. QED
  BY <1>1, <1>3 DEF Control, Bounds, TypeOK, Place, Chain, Calls, HistRec

\* The type invariant, for every set of messages, every length of the tick
\* counter's cycle up to 50 days and any order of the threads' steps: whatever is
\* set when, and however often the counter wraps in between, init_time never
\* becomes negative and gmtime_r is never called outside the calendar.
THEOREM ClockTypes == Spec => []TypeOK
BY ControlAlways, BoundsAlways, TypesFollow, PTL

-----------------------------------------------------------------------------
(* Ticks.                                                                  *)

\* A tick adds a second or none.
LEMMA SecondsStep ==
    ASSUME NEW a \in Int, NEW b, b = a + 1
    PROVE  /\ a \div RT_TICK_PER_SECOND \in Int /\ b \div RT_TICK_PER_SECOND \in Int
           /\ \/ b \div RT_TICK_PER_SECOND = a \div RT_TICK_PER_SECOND
              \/ b \div RT_TICK_PER_SECOND = (a \div RT_TICK_PER_SECOND) + 1
<1> DEFINE n == RT_TICK_PER_SECOND
<1>1. n \in Nat /\ n > 0 /\ b \in Int
  BY TickAssumption
<1> HIDE DEF n
<1>2. a \div n \in Int /\ b \div n \in Int
  BY <1>1, DivFacts
<1>3. b \div n = a \div n \/ b \div n = (a \div n) + 1
  BY <1>1, DivStep
<1>. QED
  BY <1>2, <1>3 DEF n

\* What a tick does to the seconds, when the counter does not wrap.
LEMMA TickSeconds ==
    ASSUME Control, Tick
    PROVE  /\ Elapsed \in Nat /\ Elapsed' \in Nat /\ Elapsed' <= Span
           /\ ticks' # ticks /\ ticks \in Nat
           /\ ticks' # 0 => /\ ticks' = ticks + 1
                            /\ Elapsed' = Elapsed \/ Elapsed' = Elapsed + 1
           /\ ticks' = 0 => Elapsed' = 0 /\ Elapsed = Span
<1> DEFINE a == ticks
           b == ticks'
<1>1. a \in 0 .. TickMod - 1 /\ b = (a + 1) % TickMod
  BY DEF Control, Tick
<1>2. Elapsed = a \div RT_TICK_PER_SECOND /\ Elapsed' = b \div RT_TICK_PER_SECOND
  BY DEF Elapsed
<1>3. a \in Nat
  BY <1>1, TickAssumption
<1> HIDE DEF a, b
<1>4. /\ b \in 0 .. TickMod - 1 /\ (b = 0 \/ b = a + 1)
      /\ b = 0 => a = TickMod - 1
      /\ b # a
  BY <1>1, TicksInRange
<1>5. Elapsed \in Nat /\ Elapsed' \in Nat /\ Elapsed' <= Span
  <2>1. b \in 0 .. TickMod - 1
    BY <1>1, TicksInRange
  <2>. QED
    BY <1>1, <1>2, <2>1, SecondsBound
<1>6. b # 0 => b = a + 1 /\ (Elapsed' = Elapsed \/ Elapsed' = Elapsed + 1)
  <2> SUFFICES ASSUME b # 0 PROVE b = a + 1 /\ (Elapsed' = Elapsed \/ Elapsed' = Elapsed + 1)
    OBVIOUS
  <2>1. b = a + 1 /\ a \in Int
    BY <1>3, <1>4
  <2>. QED
    BY <1>2, <2>1, SecondsStep
<1>7. b = 0 => Elapsed' = 0 /\ Elapsed = Span
  <2>1. 0 \div RT_TICK_PER_SECOND = 0
    BY DivOfSmall, TickAssumption
  <2>. QED
    BY <1>2, <1>4, <2>1 DEF Span
<1>. QED
  BY <1>3, <1>4, <1>5, <1>6, <1>7 DEF a, b

\* A tick takes the clock to the next second of the calendar, or none, or back
\* when the counter wraps.
LEMMA TickMoves ==
    ASSUME Control, Bounds, Tick
    PROVE  IF ticks' # 0
           THEN gmtime_r(GetTime') \in {gmtime_r(GetTime), NextSecond(gmtime_r(GetTime))}
           ELSE GetTime' = GetTime - (TickMod - 1) \div RT_TICK_PER_SECOND
<1>1. /\ GetTime \in Times /\ GetTime = init_time + Elapsed
      /\ init_time \in Nat /\ Elapsed \in Nat
  BY TimeInCalendar
<1>2. GetTime' = init_time + Elapsed'
  BY DEF Tick, GetTime
<1>3. /\ Elapsed' \in Nat /\ Elapsed' <= Span
      /\ ticks' # 0 => Elapsed' = Elapsed \/ Elapsed' = Elapsed + 1
      /\ ticks' = 0 => Elapsed' = 0 /\ Elapsed = Span
  BY TickSeconds
<1>4. CASE ticks' # 0
  <2> DEFINE t == GetTime
             u == GetTime'
  <2>1. CASE Elapsed' = Elapsed
    BY <1>1, <1>2, <1>4, <2>1
  <2>2. CASE Elapsed' = Elapsed + 1
    <3>1. u \in Times
      <4> DEFINE e == Elapsed'
                 w == Room
                 t0 == init_time
      <4>1. w \in Int /\ w <= 2 * Wide /\ Near(w, t0) /\ e \in Nat /\ e <= Span /\ u = t0 + e
        BY <1>2, <1>3, Widths DEF Bounds
      <4> HIDE DEF e, w, t0, u
      <4>. QED
        BY <4>1, NearTimes
    <3>2. u = t + 1 /\ t \in Times
      BY <1>1, <1>2, <2>2
    <3> HIDE DEF t, u
    <3>3. gmtime_r(u) = NextSecond(gmtime_r(t))
      BY <3>1, <3>2, NextSecondIsNext
    <3>. QED
      BY <1>4, <3>3 DEF t, u
  <2>. QED
    BY <1>3, <1>4, <2>1, <2>2
<1>5. CASE ticks' = 0
  BY <1>1, <1>2, <1>3, <1>5 DEF Span
<1>. QED
  BY <1>4, <1>5

\* Between two settings the clock shows the seconds of the calendar one by one,
\* through the ends of months and leap years, until the tick counter wraps; then
\* it goes back by what the counter has counted.
THEOREM ClockTicks == Spec => TickIsNextSecond
<1>1. ASSUME Control, Bounds, [Next]_vars, ~UNCHANGED vars
      PROVE  ticks' # ticks =>
                IF ticks' # 0
                THEN gmtime_r(GetTime') \in {gmtime_r(GetTime), NextSecond(gmtime_r(GetTime))}
                ELSE GetTime' = GetTime - (TickMod - 1) \div RT_TICK_PER_SECOND
  <2>1. CASE Tick
    BY <1>1, <2>1, TickMoves
  <2>2. CASE ~Tick
    BY <1>1, <2>2 DEF Next, Date, DateShow, Read, Stamp, Store, NoMessage, GetNow, LocalTime, StrField, Draw
  <2>. QED
    BY <2>1, <2>2
<1>2. Control /\ Bounds /\ [Next]_vars =>
        [ticks' # ticks =>
                IF ticks' # 0
                THEN gmtime_r(GetTime') \in {gmtime_r(GetTime), NextSecond(gmtime_r(GetTime))}
                ELSE GetTime' = GetTime - (TickMod - 1) \div RT_TICK_PER_SECOND]_vars
  BY <1>1
<1>. QED
  BY <1>2, ControlAlways, BoundsAlways, PTL DEF Spec, TickIsNextSecond

-----------------------------------------------------------------------------
(* What getStrTime shows.                                                  *)

\* Where dst_show is from its call of time to the end of the round, and the fields
\* that it has read when it is there.
Strings == {"localtime", "draw"} \cup Fields
Made == [localtime |-> {}, tm_year |-> {}, tm_mon |-> {"tm_year"},
         tm_mday |-> {"tm_year", "tm_mon"},
         tm_hour |-> {"tm_year", "tm_mon", "tm_mday"},
         tm_min |-> {"tm_year", "tm_mon", "tm_mday", "tm_hour"},
         tm_sec |-> {"tm_year", "tm_mon", "tm_mday", "tm_hour", "tm_min"},
         draw |-> Fields]

\* dst_show is there, and neither another thread nor a wrap of the counter has
\* come in between.
Unharmed == at["dst_show"] \in Strings /\ ~hist["dst_show"].torn /\ ~hist["dst_show"].wrapped

\* With dst_show at p the string is going to be that of time t: n, which now has,
\* is t; or the fields that have been read, in the string x, and the ones that have
\* not, in the struct tm y of localtime, are those of t.
IsOf(p, n, x, y, t) ==
    /\ p = "localtime" => n = t
    /\ p # "localtime" =>
          \A f \in Fields : (IF f \in Made[p] THEN x[f] ELSE y[f]) = gmtime_r(t)[f]

\* And t is a time since the call began.
Recent ==
    Unharmed => \E d \in 0 .. Late("dst_show") :
                    IsOf(at["dst_show"], now, shown, tmp, GetTime - d)

\* tshell is not in the middle of setting the clock: it has called localtime
\* before it writes.
Tearing == at["dst_show"] \in Strings /\ at["tshell"] \in {"mktime", "store"} => hist["dst_show"].torn

\* The inductive invariant, third part: what dst_show reads.
Text == Recent /\ Tearing

\* A struct tm with the fields that gmtime_r gives is what gmtime_r gives.
LEMMA TmEqual ==
    ASSUME NEW x \in tm, NEW t, NEW y, y = gmtime_r(t), \A f \in Fields : x[f] = y[f]
    PROVE  x = y
<1> DEFINE work == t % SPD
           date == DateOf[t \div SPD]
           y1 == date.tm_year
           y2 == date.tm_mon
           y3 == date.tm_mday
           y4 == work \div 3600
           y5 == (work \div 60) % 60
           y6 == work % 60
<1>1. y = [tm_year |-> y1, tm_mon |-> y2, tm_mday |-> y3,
           tm_hour |-> y4, tm_min |-> y5, tm_sec |-> y6]
  BY DEF gmtime_r
<1> HIDE DEF y1, y2, y3, y4, y5, y6
<1>2. /\ x.tm_year = y.tm_year /\ x.tm_mon = y.tm_mon /\ x.tm_mday = y.tm_mday
      /\ x.tm_hour = y.tm_hour /\ x.tm_min = y.tm_min /\ x.tm_sec = y.tm_sec
  BY DEF Fields
<1>3. x = [tm_year |-> x.tm_year, tm_mon |-> x.tm_mon, tm_mday |-> x.tm_mday,
           tm_hour |-> x.tm_hour, tm_min |-> x.tm_min, tm_sec |-> x.tm_sec]
  BY DEF tm
<1>. QED
  BY <1>1, <1>2, <1>3

\* Reading a field adds it to those that have been read.
LEMMA MadeAfter ==
    ASSUME NEW f \in Fields
    PROVE  /\ After[f] \in Strings /\ After[f] # "localtime"
           /\ f \notin Made[f] /\ Made[After[f]] = Made[f] \cup {f}
BY DEF Fields, After, Made, Strings

\* The fields of a history have their types.
LEMMA HistFields ==
    ASSUME Control, NEW s \in Thread
    PROVE  /\ hist[s] \in HistRec
           /\ hist[s].age \in Nat /\ hist[s].age <= MaxAge /\ hist[s].times \subseteq 0 .. SPD - 1
           /\ hist[s].wrapped \in BOOLEAN /\ hist[s].torn \in BOOLEAN
<1>1. hist[s] \in HistRec
  BY DEF Control
<1>. QED
  BY <1>1, AgeAssumption DEF HistRec

\* A tick makes every call that is under way one tick older.
LEMMA TickHist ==
    ASSUME Control, Tick, NEW s \in Thread, Active(s)
    PROVE  /\ hist'[s].age = hist[s].age + 1 /\ hist'[s].times = hist[s].times
           /\ hist'[s].torn = hist[s].torn
           /\ ticks' = 0 => hist'[s].wrapped = TRUE
           /\ ticks' # 0 => hist'[s].wrapped = hist[s].wrapped
<1> DEFINE h == hist[s]
           p == ticks' = 0
           x == hist'[s]
<1>1. x = Ticked(h, p) /\ h.age < MaxAge
  BY DEF Tick, Ticked
<1>2. p \in BOOLEAN /\ h \in HistRec
  BY HistFields
<1> HIDE DEF h, p, x
<1>3. /\ x.age = h.age + 1 /\ x.times = h.times /\ x.torn = h.torn
      /\ p => x.wrapped = TRUE
      /\ ~p => x.wrapped = h.wrapped
  BY <1>1, <1>2, HistTicked
<1>4. /\ hist'[s].age = hist[s].age + 1 /\ hist'[s].times = hist[s].times
      /\ hist'[s].torn = hist[s].torn
  BY <1>3, Zenon DEF h, x
<1>5. ticks' = 0 => hist'[s].wrapped = TRUE
  BY <1>3, Zenon DEF p, x
<1>6. ticks' # 0 => hist'[s].wrapped = hist[s].wrapped
  BY <1>3, Zenon DEF h, p, x
<1>. QED
  BY <1>4, <1>5, <1>6

\* A tick that makes the clock a second later makes the call a second late.
LEMMA TickLate ==
    ASSUME Control, Tick, NEW s \in Thread, Active(s), ticks' # 0
    PROVE  /\ Late(s) \in Int /\ Late(s)' \in Int /\ Elapsed \in Nat /\ Elapsed' \in Nat
           /\ Late(s)' - Late(s) = Elapsed' - Elapsed
           /\ Elapsed' = Elapsed \/ Elapsed' = Elapsed + 1
<1> DEFINE z == ticks - hist[s].age
           z1 == ticks' - hist'[s].age
           e == Elapsed
           e1 == Elapsed'
           n == RT_TICK_PER_SECOND
<1>1. Late(s) = e - (z \div n) /\ Late(s)' = e1 - (z1 \div n)
  BY DEF Late
<1>2. hist'[s].age = hist[s].age + 1 /\ hist[s].age \in Nat
  BY TickHist, HistFields
<1>3. ticks' = ticks + 1 /\ ticks \in Nat /\ e \in Nat /\ e1 \in Nat /\ (e1 = e \/ e1 = e + 1)
  BY TickSeconds
<1>4. z1 = z /\ z \in Int
  BY <1>2, <1>3
<1>5. n \in Nat /\ n > 0
  BY TickAssumption
<1> HIDE DEF z, z1, e, e1, n
<1>6. z \div n \in Int
  BY <1>4, <1>5, DivFacts
<1>7. z1 \div n = z \div n
  BY <1>4
<1>8. /\ Late(s) \in Int /\ Late(s)' \in Int /\ Late(s)' - Late(s) = e1 - e
  BY <1>1, <1>3, <1>6, <1>7
<1>. QED
  BY <1>3, <1>8 DEF e, e1

\* A call that has just begun is not late.
LEMMA BegunLate ==
    ASSUME NEW a, NEW b \in 0 .. TickMod - 1, a = b - 0,
           NEW e, e = b \div RT_TICK_PER_SECOND
    PROVE  e \in Nat /\ e - (a \div RT_TICK_PER_SECOND) = 0
<1>1. a = b /\ e \in Nat
  BY SecondsBound, TickAssumption
<1>. QED
  BY <1>1

\* Text holds at boot,
LEMMA TextInit == Init => Text
BY ThreadIs DEF Init, Text, Recent, Tearing, Unharmed, Strings, Fields

\* a tick keeps it, for what has been read gets one second older at most,
LEMMA TextTick ==
    ASSUME Control, Bounds, Text, Tick
    PROVE  Text'
<1> DEFINE s == "dst_show"
<1>1. UNCHANGED <<init_time, tmp, at, now, shown>>
  BY DEF Tick
<1>2. CASE at[s] \notin Strings
  BY <1>1, <1>2 DEF Text, Recent, Tearing, Unharmed
<1>3. CASE at[s] \in Strings
  <2>1. Active(s) /\ s \in Thread
    BY <1>3, ThreadIs DEF Active, Strings, Fields
  <2>2. /\ hist'[s].torn = hist[s].torn
        /\ ticks' = 0 => hist'[s].wrapped = TRUE
        /\ ticks' # 0 => hist'[s].wrapped = hist[s].wrapped
    BY <2>1, TickHist
  <2>3. Tearing'
    BY <1>1, <2>2 DEF Text, Tearing
  <2>4. Recent'
    <3> SUFFICES ASSUME Unharmed'
                 PROVE  \E d \in 0 .. Late(s)' : IsOf(at'[s], now', shown', tmp', GetTime' - d)
      BY DEF Recent
    <3>1. ticks' # 0 /\ Unharmed
      BY <1>1, <2>2 DEF Unharmed
    <3>2. PICK d \in 0 .. Late(s) : IsOf(at[s], now, shown, tmp, GetTime - d)
      BY <3>1 DEF Text, Recent
    <3> DEFINE l == Late(s)
               l1 == Late(s)'
               e == Elapsed
               e1 == Elapsed'
               c == d + (e1 - e)
               g == GetTime
               g1 == GetTime'
    <3>3. /\ l \in Int /\ l1 \in Int /\ e \in Nat /\ e1 \in Nat /\ l1 - l = e1 - e
          /\ e1 = e \/ e1 = e + 1
      BY <2>1, <3>1, TickLate
    <3>4. g = init_time + e /\ g1 = init_time + e1 /\ init_time \in Nat
      BY <1>1, TimeInCalendar DEF GetTime
    <3>5. d \in 0 .. l
      BY <3>2
    <3>6. c \in 0 .. l1 /\ g1 - c = g - d
      <4> HIDE DEF l, l1, e, e1, g, g1
      <4>. QED
        BY <3>3, <3>4, <3>5
    <3>7. IsOf(at'[s], now', shown', tmp', GetTime' - c)
      BY <1>1, <3>2, <3>6
    <3>. QED
      BY <3>6, <3>7
  <2>. QED
    BY <2>3, <2>4 DEF Text
<1>. QED
  BY <1>2, <1>3

\* and so does every other step.
LEMMA TextNext == Control /\ Bounds /\ Text /\ [Next]_vars => Text'
<1> SUFFICES ASSUME Control, Bounds, Text, [Next]_vars PROVE Text'
  OBVIOUS
<1> DEFINE dst == "dst_show"
<1>a. ASSUME at'[dst] \notin Strings  PROVE Text'
  BY <1>a DEF Text, Recent, Tearing, Unharmed
<1>b. dst \in Thread /\ "tshell" \in Thread /\ hist[dst] \in HistRec /\ hist[dst].torn \in BOOLEAN
  BY ThreadIs, HistFields
<1>c. ASSUME hist'[dst].torn = TRUE  PROVE Text'
  BY <1>c DEF Text, Recent, Tearing, Unharmed
<1>1. CASE Tick
  BY <1>1, TextTick
<1>2. ASSUME NEW s \in Thread, NEW m \in Messages, Date(s, m)  PROVE Text'
  <2>1. /\ at' = [at EXCEPT ![s] = "call"] /\ s # "main"
        /\ UNCHANGED <<ticks, init_time, tmp, now, shown>>
    BY <1>2 DEF Date
  <2>2. CASE s = dst
    BY <1>a, <1>b, <2>1, <2>2 DEF Control, Strings, Fields
  <2>3. CASE s = "tshell" /\ at[dst] \in Strings
    <3> DEFINE h == hist[dst]
               x == hist'[dst]
               u == TimeOfDay(Cut(m))
    <3>1. x = [h EXCEPT !.times = @ \cup {u}] /\ u \in 0 .. SPD - 1
      BY <1>2, <1>b, <2>3, RequestFields DEF Date, Active, Strings, Fields, InRange
    <3>2. h \in HistRec
      BY <1>b
    <3> HIDE DEF h, x, u
    <3>3. x.age = h.age /\ x.torn = h.torn /\ x.wrapped = h.wrapped
      BY <3>1, <3>2, HistJoined
    <3>4. at'[dst] = at[dst] /\ at'["tshell"] = "call"
      BY <1>b, <2>1, <2>3 DEF Control
    <3>5. Unharmed' <=> Unharmed
      BY <3>3, <3>4 DEF Unharmed, x, h
    <3>6. Late(dst)' = Late(dst) /\ GetTime' = GetTime
      BY <2>1, <3>3 DEF Late, Elapsed, GetTime, x, h
    <3>7. Recent'
      BY <2>1, <3>4, <3>5, <3>6 DEF Text, Recent
    <3>8. Tearing'
      BY <3>4 DEF Tearing
    <3>. QED
      BY <3>7, <3>8 DEF Text
  <2>4. CASE s = "tshell" /\ at[dst] \notin Strings
    <3>1. at'[dst] = at[dst]
      BY <1>b, <2>1, <2>4 DEF Control
    <3>. QED
      BY <1>a, <2>4, <3>1
  <2>. QED
    BY <2>1, <2>2, <2>3, <2>4, ThreadIs
<1>3. ASSUME NEW s \in Thread, Read(s) \/ Stamp(s) \/ Store(s)  PROVE Text'
  <2>1. /\ at[s] \in Calls
        /\ \A s2 \in Thread : s2 # s => at'[s2] = at[s2]
        /\ at'[s] \in {"mktime", "store", "call", "time", "idle"}
    BY <1>3 DEF Read, Stamp, Store, Control, Calls
  <2>2. CASE s = dst
    BY <1>a, <2>1, <2>2 DEF Strings, Fields
  <2>3. CASE s = "main"
    <3>1. at[dst] = "idle" /\ at'[dst] = "idle"
      BY <1>b, <2>1, <2>3 DEF Control, Calls
    <3>. QED
      BY <1>a, <3>1 DEF Strings, Fields
  <2>4. CASE s = "tshell" /\ at[dst] \notin Strings
    BY <1>a, <1>b, <2>1, <2>4
  <2>5. CASE s = "tshell" /\ at[dst] \in Strings
    <3>1. CASE Read(s)
      <4> DEFINE h == hist[dst]
                 x == hist'[dst]
      <4>1. x = [h EXCEPT !.torn = TRUE] /\ h \in HistRec
        BY <1>b, <2>5, <3>1 DEF Read, Active, Strings, Fields
      <4> HIDE DEF h, x
      <4>2. x.torn = TRUE
        BY <4>1, HistTorn
      <4>. QED
        BY <1>c, <4>2 DEF x
    <3>2. CASE Stamp(s) \/ Store(s)
      <4>1. hist[dst].torn = TRUE
        <5>1. at["tshell"] \in {"mktime", "store"}
          BY <2>5, <3>2 DEF Stamp, Store
        <5>. QED
          BY <1>b, <2>5, <5>1 DEF Text, Tearing
      <4>2. hist'[dst] = hist[dst]
        BY <1>b, <2>5, <3>2 DEF Stamp, Store, Control
      <4>. QED
        BY <1>c, <4>1, <4>2
    <3>. QED
      BY <1>3, <3>1, <3>2
  <2>. QED
    BY <2>2, <2>3, <2>4, <2>5, ThreadIs
<1>4. CASE NoMessage \/ Draw
  <2>1. at'[dst] \in {"time", "idle"}
    BY <1>4, <1>b DEF NoMessage, Draw, Control
  <2>. QED
    BY <1>a, <2>1 DEF Strings, Fields
<1>5. CASE GetNow
  <2>1. /\ at'[dst] = "localtime" /\ at'["tshell"] = "idle"
    BY <1>5, <1>b, WhoRuns DEF GetNow, Control
  <2>2. /\ now' = GetTime /\ UNCHANGED <<ticks, init_time>>
        /\ hist'[dst] = Begun({})
    BY <1>5, <1>b DEF GetNow, Control
  <2>3. hist'[dst].age = 0
    BY <2>2, HistBegun
  <2>4. Late(dst)' = 0
    <3> DEFINE a == ticks - hist'[dst].age
               b == ticks
               e == Elapsed
    <3>1. Late(dst)' = e - (a \div RT_TICK_PER_SECOND)
      BY <2>2 DEF Late, Elapsed
    <3>2. a = b - 0 /\ b \in 0 .. TickMod - 1 /\ e = b \div RT_TICK_PER_SECOND
      BY <2>3 DEF Control, Elapsed
    <3> HIDE DEF a, b, e
    <3>. QED
      BY <3>1, <3>2, BegunLate
  <2>5. Recent'
    <3> DEFINE g == GetTime
    <3>1. GetTime' = g /\ g \in Nat
      BY <2>2, TimeInCalendar, SplitTime DEF GetTime, Elapsed
    <3>2. 0 \in 0 .. Late(dst)' /\ g - 0 = g
      BY <2>4, <3>1
    <3>3. IsOf(at'[dst], now', shown', tmp', g - 0)
      BY <2>1, <2>2, <3>2 DEF IsOf
    <3> HIDE DEF g
    <3>. QED
      BY <3>1, <3>2, <3>3 DEF Recent
  <2>. QED
    BY <2>1, <2>5 DEF Text, Tearing
<1>6. ASSUME UNCHANGED <<ticks, init_time>>, at[dst] \in Strings,
             ~hist'[dst].torn /\ ~hist'[dst].wrapped =>
                /\ hist'[dst] = hist[dst]
                /\ \A t : IsOf(at[dst], now, shown, tmp, t) =>
                           IsOf(at'[dst], now', shown', tmp', t)
      PROVE  Recent'
  <2> SUFFICES ASSUME Unharmed'
               PROVE  \E d \in 0 .. Late(dst)' : IsOf(at'[dst], now', shown', tmp', GetTime' - d)
    BY DEF Recent
  <2>1. hist'[dst] = hist[dst]
    BY <1>6 DEF Unharmed
  <2>2. Unharmed
    BY <1>6, <2>1 DEF Unharmed
  <2>3. Late(dst)' = Late(dst) /\ GetTime' = GetTime
    BY <1>6, <2>1 DEF Late, Elapsed, GetTime
  <2>. QED
    BY <1>6, <2>2, <2>3 DEF Text, Recent, Unharmed
<1>7. CASE LocalTime
  <2>1. /\ at[dst] = "localtime" /\ at'[dst] = "tm_year" /\ at'["tshell"] = "idle"
        /\ tmp' = gmtime_r(now) /\ UNCHANGED <<ticks, init_time, hist>>
    BY <1>7, <1>b, WhoRuns DEF LocalTime, Control
  <2>2. Made["tm_year"] = {} /\ "localtime" \in Strings
    BY DEF Made, Strings
  <2>3. ASSUME NEW t, IsOf(at[dst], now, shown, tmp, t)
        PROVE  IsOf(at'[dst], now', shown', tmp', t)
    BY <2>1, <2>2, <2>3 DEF IsOf
  <2>4. Recent'
    BY <1>6, <2>1, <2>2, <2>3
  <2>. QED
    BY <2>1, <2>4 DEF Text, Tearing
<1>8. ASSUME NEW f \in Fields, StrField(f)  PROVE Text'
  <2>1. /\ at[dst] = f /\ at'[dst] = After[f] /\ at'["tshell"] = "idle"
        /\ shown' = [shown EXCEPT ![f] = tmp[f]] /\ UNCHANGED <<ticks, init_time, tmp, hist>>
    BY <1>8, <1>b, WhoRuns DEF StrField, Control
  <2>2. /\ After[f] # "localtime" /\ f # "localtime" /\ f \in Strings
        /\ f \notin Made[f] /\ Made[After[f]] = Made[f] \cup {f}
    BY MadeAfter DEF Strings, Fields
  <2>3. \A f2 \in Fields : shown'[f2] = IF f2 = f THEN tmp[f] ELSE shown[f2]
    BY <2>1, StrFieldTm DEF Bounds
  <2>4. ASSUME NEW t, IsOf(at[dst], now, shown, tmp, t)
        PROVE  IsOf(at'[dst], now', shown', tmp', t)
    <3>1. \A f2 \in Fields : (IF f2 \in Made[f] THEN shown[f2] ELSE tmp[f2]) = gmtime_r(t)[f2]
      BY <2>1, <2>2, <2>4 DEF IsOf
    <3>2. \A f2 \in Fields :
            (IF f2 \in Made[After[f]] THEN shown'[f2] ELSE tmp'[f2]) = gmtime_r(t)[f2]
      BY <2>1, <2>2, <2>3, <3>1
    <3>. QED
      BY <2>1, <2>2, <3>2 DEF IsOf
  <2>5. Recent'
    BY <1>6, <2>1, <2>2, <2>4
  <2>. QED
    BY <2>1, <2>5 DEF Text, Tearing
<1>9. CASE DateShow
  <2>1. /\ UNCHANGED <<ticks, init_time, at, now, shown>>
        /\ hist' = IF at[dst] \in Fields
                   THEN [hist EXCEPT ![dst] = [hist[dst] EXCEPT !.torn = TRUE]] ELSE hist
        /\ at["tshell"] = "idle"
    BY <1>9 DEF DateShow
  <2>2. CASE at[dst] \in Fields
    <3> DEFINE h == hist[dst]
               x == hist'[dst]
    <3>1. x = [h EXCEPT !.torn = TRUE] /\ h \in HistRec
      BY <1>b, <2>1, <2>2 DEF Control
    <3> HIDE DEF h, x
    <3>2. x.torn = TRUE
      BY <3>1, HistTorn
    <3>. QED
      BY <1>c, <3>2 DEF x
  <2>3. CASE at[dst] \notin Strings
    BY <1>a, <2>1, <2>3
  <2>4. CASE at[dst] \in {"localtime", "draw"}
    <3>1. hist' = hist /\ at[dst] \in Strings
      BY <2>1, <2>4 DEF Strings, Fields
    <3>2. Made["draw"] = Fields
      BY DEF Made
    <3>3. ASSUME NEW t, IsOf(at[dst], now, shown, tmp, t)
          PROVE  IsOf(at'[dst], now', shown', tmp', t)
      BY <2>1, <2>4, <3>2, <3>3 DEF IsOf
    <3>4. Recent'
      BY <1>6, <2>1, <3>1, <3>3
    <3>. QED
      BY <2>1, <3>4 DEF Text, Tearing
  <2>. QED
    BY <2>2, <2>3, <2>4 DEF Strings
<1>10. CASE UNCHANGED vars
  <2>1. UNCHANGED <<ticks, init_time, tmp, hist, at, now, shown>>
    BY <1>10 DEF vars
  <2>2. Late(dst)' = Late(dst) /\ GetTime' = GetTime
    BY <2>1 DEF Late, Elapsed, GetTime
  <2>. QED
    BY <2>1, <2>2 DEF Text, Recent, Tearing, Unharmed
<1>. QED
  BY <1>1, <1>2, <1>3, <1>4, <1>5, <1>7, <1>8, <1>9, <1>10 DEF Next

\* With Text the string is of one moment when it is drawn.
LEMMA ShownFollows == Control /\ Bounds /\ Text => ShownIsOneMoment
<1> SUFFICES ASSUME Control, Bounds, Text, at["dst_show"] = "draw",
                    ~hist["dst_show"].torn, ~hist["dst_show"].wrapped
             PROVE  \E d \in 0 .. Late("dst_show") : shown = gmtime_r(GetTime - d)
  BY DEF ShownIsOneMoment
<1>1. Unharmed /\ Made["draw"] = Fields
  BY DEF Unharmed, Strings, Made
<1>2. PICK d \in 0 .. Late("dst_show") : IsOf("draw", now, shown, tmp, GetTime - d)
  BY <1>1 DEF Text, Recent
<1> DEFINE t == GetTime - d
<1>3. \A f \in Fields : shown[f] = gmtime_r(t)[f]
  BY <1>1, <1>2 DEF IsOf
<1>4. shown = gmtime_r(t)
  <2> HIDE DEF t
  <2>. QED
    BY <1>3, TmEqual DEF Bounds
<1>. QED
  BY <1>4

\* The string that getStrTime makes field by field from a struct tm that all
\* threads share is of one moment, no older than the call of time, unless another
\* thread set the clock or called localtime, or the tick counter wrapped, in between.
THEOREM ClockShowsOneMoment == Spec => []ShownIsOneMoment
<1>1. Init => Text
  BY TextInit
<1>2. Control /\ Bounds /\ Text /\ [Next]_vars => Text'
  BY TextNext
<1>. QED
  BY <1>1, <1>2, ControlAlways, BoundsAlways, ShownFollows, PTL DEF Spec

-----------------------------------------------------------------------------
(* Where date lands.                                                       *)

\* t is, but for whole days, one of the times of day T, or up to l seconds after it.
Same(T, l, t) == \E t0 \in T, d \in 0 .. l, k \in Int : t = SPD * k + t0 + d
\* t is one of the times T of the day that begins at mid, or up to l seconds after it.
Lands(T, l, mid, t) ==
    \E t0 \in T, d \in 0 .. l :
        \/ t = mid + t0 + d
        \/ t0 + d >= SPD /\ t = mid + t0 + d - SPD
\* t is up to l seconds after mid.
Early(l, mid, t) == \E d \in 0 .. l : t = mid + d

\* Seconds that pass, and times that other threads ask for, do not change that
\* the time of day is one that was asked for,
LEMMA SameStep ==
    ASSUME NEW T \in SUBSET (0 .. SPD - 1), NEW l \in Int, NEW t, Same(T, l, t),
           NEW c \in Nat, NEW T1, T \subseteq T1, NEW l1 \in Int, l + c <= l1,
           NEW t1, t1 = t + c
    PROVE  Same(T1, l1, t1)
<1>1. PICK t0 \in T, d \in 0 .. l, k \in Int : t = SPD * k + t0 + d
  BY DEF Same
<1> DEFINE p == SPD * k
           d1 == d + c
<1>2. p \in Int /\ SPD \in Nat
  BY DayIsPositive
<1>3. t0 \in Nat /\ t0 \in T1
  BY DayIsPositive
<1>4. t = p + t0 + d
  BY <1>1
<1> HIDE DEF p
<1>5. d1 \in 0 .. l1 /\ t1 = p + t0 + d1
  BY <1>2, <1>3, <1>4
<1> HIDE DEF d1
<1>6. t1 = SPD * k + t0 + d1
  BY <1>5 DEF p
<1>. QED
  BY <1>3, <1>5, <1>6 DEF Same

\* that it is also on the day asked for,
LEMMA LandsStep ==
    ASSUME NEW T \in SUBSET (0 .. SPD - 1), NEW l \in Int, NEW mid \in Int, NEW t,
           Lands(T, l, mid, t),
           NEW c \in Nat, NEW T1, T \subseteq T1, NEW l1 \in Int, l + c <= l1,
           NEW t1, t1 = t + c
    PROVE  Lands(T1, l1, mid, t1)
<1>1. PICK t0 \in T, d \in 0 .. l : \/ t = mid + t0 + d
                                    \/ t0 + d >= SPD /\ t = mid + t0 + d - SPD
  BY DEF Lands
<1> DEFINE d1 == d + c
<1>2. t0 \in Nat /\ t0 \in T1 /\ SPD \in Nat
  BY DayIsPositive
<1>3. /\ d1 \in 0 .. l1
      /\ \/ t1 = mid + t0 + d1
         \/ t0 + d1 >= SPD /\ t1 = mid + t0 + d1 - SPD
  BY <1>1, <1>2
<1> HIDE DEF d1
<1>. QED
  BY <1>2, <1>3 DEF Lands

\* or that the day has just begun.
LEMMA EarlyStep ==
    ASSUME NEW l \in Int, NEW mid \in Int, NEW t, Early(l, mid, t),
           NEW c \in Nat, NEW l1 \in Int, l + c <= l1, NEW t1, t1 = t + c
    PROVE  Early(l1, mid, t1)
<1>1. PICK d \in 0 .. l : t = mid + d
  BY DEF Early
<1> DEFINE d1 == d + c
<1>2. d1 \in 0 .. l1 /\ t1 = mid + d1
  BY <1>1
<1> HIDE DEF d1
<1>. QED
  BY <1>2 DEF Early

\* Who lands on a day has the time of day that goes with it.
LEMMA LandsSame ==
    ASSUME NEW T \in SUBSET (0 .. SPD - 1), NEW l \in Int, NEW day \in Int,
           NEW mid, mid = SPD * day, NEW t, Lands(T, l, mid, t)
    PROVE  Same(T, l, t)
<1>1. PICK t0 \in T, d \in 0 .. l : \/ t = mid + t0 + d
                                    \/ t0 + d >= SPD /\ t = mid + t0 + d - SPD
  BY DEF Lands
<1> DEFINE k == day - 1
<1>2. k \in Int /\ SPD * k = mid - SPD /\ mid \in Int /\ SPD \in Nat /\ t0 \in Nat
  BY DayIsPositive
<1> HIDE DEF k
<1>3. t = SPD * day + t0 + d \/ t = SPD * k + t0 + d
  BY <1>1, <1>2
<1>. QED
  BY <1>2, <1>3 DEF Same

\* Setting the date keeps the time of day.
LEMMA SameLands ==
    ASSUME NEW T \in SUBSET (0 .. SPD - 1), NEW l \in Int, l < SPD, NEW mid \in Int,
           NEW t \in Int, Same(T, l, t), NEW tod, tod = t % SPD, NEW z, z = mid + tod
    PROVE  Lands(T, l, mid, z)
<1>1. PICK t0 \in T, d \in 0 .. l, k \in Int : t = SPD * k + t0 + d
  BY DEF Same
<1>2. t0 \in Nat /\ t0 < SPD /\ d \in Nat /\ d < SPD /\ SPD \in Nat
  BY DayIsPositive
<1> DEFINE u == t0 + d
           v == u - SPD
           k1 == k + 1
<1>3. CASE u < SPD
  <2>1. u \in Nat /\ t = SPD * k + u
    BY <1>1, <1>2
  <2> HIDE DEF u
  <2>2. tod = u
    BY <1>3, <2>1, DivUnique
  <2>3. z = mid + t0 + d
    BY <1>2, <2>2 DEF u
  <2>. QED
    BY <2>3 DEF Lands
<1>4. CASE u >= SPD
  <2>1. v \in Nat /\ v < SPD
    BY <1>2, <1>4
  <2>2. t = SPD * k1 + v /\ k1 \in Int
    BY <1>1, <1>2
  <2> HIDE DEF v, k1
  <2>3. tod = v
    BY <2>1, <2>2, DivUnique
  <2>4. z = mid + t0 + d - SPD /\ t0 + d >= SPD
    BY <1>2, <1>4, <2>3 DEF v
  <2>. QED
    BY <2>4 DEF Lands
<1>. QED
  BY <1>2, <1>3, <1>4

\* A call takes less than a day.
LEMMA LateBound ==
    ASSUME NEW b \in Nat, NEW a \in Nat, a <= MaxAge,
           NEW l, l = (b \div RT_TICK_PER_SECOND) - ((b - a) \div RT_TICK_PER_SECOND)
    PROVE  l \in Nat /\ l < SPD
<1> DEFINE n == RT_TICK_PER_SECOND
           c == b - a
           q == b \div n
           r == b % n
           p == c \div n
           x == c % n
<1>1. n \in Nat /\ n > 0 /\ b \in Int /\ c \in Int /\ c <= b /\ b = c + a
  BY TickAssumption
<1>2. a < n * (SPD - 1)
  BY AgeAssumption, TickAssumption, DayIsPositive
<1>3. l = q - p
  OBVIOUS
<1> HIDE DEF n, c
<1>4. p <= q
  BY <1>1, DivMonotone
<1>5. /\ q \in Int /\ r \in Int /\ 0 <= r /\ r < n /\ b = n * q + r
      /\ p \in Int /\ x \in Int /\ 0 <= x /\ x < n /\ c = n * p + x
  BY <1>1, DivFacts
<1> HIDE DEF q, r, p, x
<1> DEFINE y == p + (SPD - 1)
<1>6. y \in Int /\ n * y = n * p + n * (SPD - 1)
  BY <1>1, <1>5, DayIsPositive
<1>7. n * (SPD - 1) \in Int
  BY <1>1, DayIsPositive
<1>8. y = p + (SPD - 1)
  OBVIOUS
<1> HIDE DEF y
<1>9. n * q + r <= n * y + x
  <2> DEFINE nq == n * q
             np == n * p
             ny == n * y
             ns == n * (SPD - 1)
  <2>1. nq \in Int /\ np \in Int /\ ny \in Int /\ ns \in Int
    BY <1>1, <1>5, <1>6, <1>7
  <2>2. b = nq + r /\ c = np + x /\ ny = np + ns /\ a < ns
    BY <1>2, <1>5, <1>6
  <2> HIDE DEF nq, np, ny, ns
  <2>3. nq + r <= ny + x
    BY <1>1, <1>5, <2>1, <2>2
  <2>. QED
    BY <2>3 DEF nq, ny
<1>10. q <= y
  BY <1>1, <1>5, <1>6, <1>9, Quotients
<1>. QED
  BY <1>3, <1>4, <1>5, <1>8, <1>10, DayIsPositive

\* How far a call has come.  After set_time the time of day is right, on whatever
\* day; set_date then lands on the request.  At boot set_date comes first, and its
\* time of day is just after midnight, where SOFT_RTC_TIME_DEFAULT is.
Course(chain, place, T, l, mid, m, z, t) ==
    /\ chain = <<"set_time", "set_date">> =>
         /\ place = "mktime" => Same(T, l, m)
         /\ place = "store" => Same(T, l, z)
    /\ chain = <<"set_date">> =>
         /\ place = "call" => Same(T, l, t)
         /\ place = "mktime" => Lands(T, l, mid, m)
         /\ place = "store" => Lands(T, l, mid, z)
    /\ chain = <<"set_date", "set_time">> =>
         /\ place = "mktime" => Early(l, mid, m)
         /\ place = "store" => Early(l, mid, z)
    /\ chain = <<"set_time">> =>
         /\ place = "call" => Early(l, mid, t)
         /\ place = "mktime" => Lands(T, l, mid, m)
         /\ place = "store" => Lands(T, l, mid, z)

\* A thread's call is on course, if the tick counter has not wrapped.
OnCourse(s) ==
    ~hist[s].wrapped =>
       Course(todo[s], at[s], hist[s].times, Late(s), Midnight(req[s]),
              mktime(tm_new[s]), stamp[s] + Elapsed, GetTime)

\* The time of day asked for is among those of the call's history.
Asked == \A s \in Thread : todo[s] # << >> => TimeOfDay(req[s]) \in hist[s].times

\* At boot the clock runs on from SOFT_RTC_TIME_DEFAULT, and the tick counter has
\* counted since main began.
Booting ==
    /\ todo["main"] = <<"set_date", "set_time">> => init_time = TimeDefault
    /\ at["main"] # "idle" /\ ~hist["main"].wrapped => hist["main"].age = ticks

\* A call of tshell during one of dst_show is the shorter one, and dst_show knows
\* of all that tshell asks for.
Nested ==
    at["tshell"] # "idle" /\ at["dst_show"] # "idle" =>
       /\ hist["tshell"].times \subseteq hist["dst_show"].times
       /\ hist["tshell"].age <= hist["dst_show"].age
       /\ hist["tshell"].wrapped => hist["dst_show"].wrapped

\* Passing seconds keep a call on course, and so do requests of other threads.
LEMMA CourseStep ==
    ASSUME NEW chain, NEW place, NEW T \in SUBSET (0 .. SPD - 1), NEW l \in Int,
           NEW mid \in Int, NEW m, NEW z \in Int, NEW t \in Int,
           Course(chain, place, T, l, mid, m, z, t),
           NEW c \in Nat, NEW T1, T \subseteq T1, NEW l1 \in Int, l + c <= l1,
           NEW z1, z1 = z + c, NEW t1, t1 = t + c
    PROVE  Course(chain, place, T1, l1, mid, m, z1, t1)
<1>1. \A x : /\ Same(T, l, x) => Same(T1, l1, x + c)
             /\ Lands(T, l, mid, x) => Lands(T1, l1, mid, x + c)
             /\ Early(l, mid, x) => Early(l1, mid, x + c)
  BY SameStep, LandsStep, EarlyStep
<1> DEFINE zero == 0
<1>2. zero \in Nat /\ l + zero <= l1
  OBVIOUS
<1> HIDE DEF zero
<1>3. ASSUME Same(T, l, m)  PROVE Same(T1, l1, m)
  <2>1. m + zero = m
    <3>1. PICK t0 \in T, d \in 0 .. l, k \in Int : m = SPD * k + t0 + d
      BY <1>3 DEF Same
    <3>2. m \in Int
      BY <3>1, DayIsPositive
    <3>. QED
      BY <3>2 DEF zero
  <2>. QED
    BY <1>2, <1>3, <2>1, SameStep
<1>4. ASSUME Lands(T, l, mid, m)  PROVE Lands(T1, l1, mid, m)
  <2>1. m + zero = m
    <3>1. PICK t0 \in T, d \in 0 .. l : \/ m = mid + t0 + d
                                        \/ t0 + d >= SPD /\ m = mid + t0 + d - SPD
      BY <1>4 DEF Lands
    <3>2. m \in Int
      BY <3>1, DayIsPositive
    <3>. QED
      BY <3>2 DEF zero
  <2>. QED
    BY <1>2, <1>4, <2>1, LandsStep
<1>5. ASSUME Early(l, mid, m)  PROVE Early(l1, mid, m)
  <2>1. m + zero = m
    BY <1>5 DEF zero, Early
  <2>. QED
    BY <1>2, <1>5, <2>1, EarlyStep
<1>. QED
  BY <1>1, <1>3, <1>4, <1>5 DEF Course

\* A call is less than a day late.
LEMMA LateType ==
    ASSUME Control, NEW s \in Thread
    PROVE  Late(s) \in Nat /\ Late(s) < SPD
<1> DEFINE b == ticks
           a == hist[s].age
           l == Late(s)
<1>1. b \in Nat /\ a \in Nat /\ a <= MaxAge
  BY HistFields, TickAssumption DEF Control
<1>2. l = (b \div RT_TICK_PER_SECOND) - ((b - a) \div RT_TICK_PER_SECOND)
  BY DEF Late, Elapsed
<1> HIDE DEF a, b, l
<1>3. l \in Nat /\ l < SPD
  BY <1>1, <1>2, LateBound
<1>. QED
  BY <1>3 DEF l

\* The arguments of Course have their types.
LEMMA CourseTypes ==
    ASSUME Control, Bounds, NEW s \in Thread
    PROVE  /\ hist[s].times \in SUBSET (0 .. SPD - 1) /\ hist[s].wrapped \in BOOLEAN
           /\ Late(s) \in Int /\ Late(s) \in Nat /\ Late(s) < SPD
           /\ Midnight(req[s]) \in Int /\ req[s] \in Request
           /\ RequestDay(req[s]) \in Int /\ Midnight(req[s]) = SPD * RequestDay(req[s])
           /\ stamp[s] \in Int /\ Elapsed \in Nat /\ stamp[s] + Elapsed \in Int
           /\ GetTime \in Int /\ GetTime \in Times
<1> DEFINE r == req[s]
<1>1. r \in Request
  BY DEF Control
<1>2. Midnight(r) \in Int /\ RequestDay(r) \in Int /\ Midnight(r) = SPD * RequestDay(r)
  <2> HIDE DEF r
  <2>1. Midnight(r) = SPD * RequestDay(r) /\ RequestDay(r) \in Nat
    BY <1>1, MidnightIs
  <2>. QED
    BY <2>1, DayIsPositive
<1>3. stamp[s] \in Int
  <2>1. TypeOK
    BY TypesFollow
  <2>. QED
    BY <2>1 DEF TypeOK
<1>4. /\ GetTime \in Times /\ GetTime = init_time + Elapsed /\ init_time \in Nat /\ Elapsed \in Nat
  BY TimeInCalendar
<1>5. GetTime \in Int /\ stamp[s] + Elapsed \in Int
  BY <1>3, <1>4
<1>. QED
  BY <1>1, <1>2, <1>3, <1>4, <1>5, HistFields, LateType

\* Who has no call left is on course.
LEMMA OnCourseIdle ==
    ASSUME NEW s \in Thread, todo[s] = << >>
    PROVE  OnCourse(s)
BY Chains DEF OnCourse, Course

\* Steps of others that leave the clock alone.
LEMMA OnCourseKept ==
    ASSUME Control, Bounds, NEW s \in Thread, OnCourse(s),
           at'[s] = at[s], todo'[s] = todo[s], tm_new'[s] = tm_new[s], stamp'[s] = stamp[s],
           req'[s] = req[s], ticks' = ticks, init_time' = init_time,
           hist'[s].age = hist[s].age, hist'[s].wrapped = hist[s].wrapped,
           hist[s].times \subseteq hist'[s].times
    PROVE  OnCourse(s)'
<1> DEFINE T == hist[s].times
           T1 == hist'[s].times
           l == Late(s)
           mid == Midnight(req[s])
           m == mktime(tm_new[s])
           z == stamp[s] + Elapsed
           t == GetTime
           c == 0
<1>1. /\ T \in SUBSET (0 .. SPD - 1) /\ T \subseteq T1 /\ l \in Int /\ mid \in Int
      /\ z \in Int /\ t \in Int /\ c \in Nat /\ l + c <= l /\ z = z + c /\ t = t + c
  BY CourseTypes
<1>2. /\ Late(s)' = l /\ Midnight(req[s])' = mid /\ mktime(tm_new[s])' = m
      /\ (stamp[s] + Elapsed)' = z /\ GetTime' = t
  BY DEF Late, Elapsed, GetTime
<1>3. ~hist[s].wrapped => Course(todo[s], at[s], T, l, mid, m, z, t)
  BY DEF OnCourse
<1>4. OnCourse(s)' <=> (~hist[s].wrapped => Course(todo[s], at[s], T1, l, mid, m, z, t))
  BY <1>2 DEF OnCourse
<1> HIDE DEF T, T1, l, mid, m, z, t, c
<1>5. ~hist[s].wrapped => Course(todo[s], at[s], T1, l, mid, m, z, t)
  BY <1>1, <1>3, CourseStep
<1>. QED
  BY <1>4, <1>5

\* A tick keeps a call on course.
LEMMA OnCourseTick ==
    ASSUME Control, Bounds, NEW s \in Thread, OnCourse(s), Tick
    PROVE  OnCourse(s)'
<1>1. UNCHANGED <<init_time, tmp, at, todo, req, tm_new, stamp, now, shown>>
  BY DEF Tick
<1>2. CASE ~Active(s)
  <2>1. todo'[s] = << >>
    BY <1>1, <1>2 DEF Active, Control, Calls
  <2>. QED
    BY <2>1, Chains DEF OnCourse, Course
<1>3. CASE Active(s) /\ ticks' = 0
  <2>1. hist'[s].wrapped = TRUE
    BY <1>3, TickHist
  <2>. QED
    BY <2>1 DEF OnCourse
<1>4. CASE Active(s) /\ ticks' # 0
  <2> DEFINE T == hist[s].times
             l == Late(s)
             l1 == Late(s)'
             mid == Midnight(req[s])
             m == mktime(tm_new[s])
             z == stamp[s] + Elapsed
             z1 == stamp[s] + Elapsed'
             t == GetTime
             t1 == GetTime'
             e == Elapsed
             e1 == Elapsed'
             c == e1 - e
  <2>1. /\ T \in SUBSET (0 .. SPD - 1) /\ T \subseteq T /\ l \in Int /\ mid \in Int
        /\ z \in Int /\ t \in Int /\ stamp[s] \in Int /\ z = stamp[s] + e /\ z1 = stamp[s] + e1
    BY CourseTypes
  <2>2. hist'[s].times = T /\ hist'[s].wrapped = hist[s].wrapped
    BY <1>4, TickHist
  <2>3. /\ l1 \in Int /\ e \in Nat /\ e1 \in Nat /\ l1 - l = e1 - e /\ (e1 = e \/ e1 = e + 1)
    BY <1>4, TickLate
  <2>4. t = init_time + e /\ t1 = init_time + e1 /\ init_time \in Nat
    BY <1>1, TimeInCalendar DEF GetTime
  <2>5. ~hist[s].wrapped => Course(todo[s], at[s], T, l, mid, m, z, t)
    BY DEF OnCourse
  <2>6. OnCourse(s)' <=> (~hist[s].wrapped => Course(todo[s], at[s], T, l1, mid, m, z1, t1))
    BY <1>1, <2>2 DEF OnCourse
  <2> HIDE DEF T, l, l1, mid, m, z, z1, t, t1, e, e1
  <2>7. c \in Nat /\ l + c <= l1 /\ z1 = z + c /\ t1 = t + c
    BY <2>1, <2>3, <2>4
  <2> HIDE DEF c
  <2>8. ~hist[s].wrapped => Course(todo[s], at[s], T, l1, mid, m, z1, t1)
    BY <2>1, <2>3, <2>5, <2>7, CourseStep
  <2>. QED
    BY <2>6, <2>8
<1>. QED
  BY <1>2, <1>3, <1>4

\* What the call puts together, by the calls that are left.
LEMMA ReadCourse ==
    ASSUME NEW chain \in Chain, chain # << >>, NEW T \in SUBSET (0 .. SPD - 1),
           NEW l \in Nat, l < SPD,
           NEW r \in Request, TimeOfDay(r) \in T, NEW mid, mid = Midnight(r),
           NEW t \in Times, NEW x, x = Changed(Head(chain), gmtime_r(t), r),
           chain = <<"set_date">> => Same(T, l, t),
           chain = <<"set_time">> => Early(l, mid, t),
           chain = <<"set_date", "set_time">> => t = TimeDefault + l,
           NEW m, m = mktime(x), NEW z
    PROVE  Course(chain, "mktime", T, l, mid, m, z, t)
<1> DEFINE day == RequestDay(r)
           u == TimeOfDay(r)
           q == t \div SPD
           tod == t % SPD
           zero == 0
<1>1. /\ t \in Nat /\ q \in Int /\ tod \in 0 .. SPD - 1 /\ t = SPD * q + tod
  BY SplitTime, LastDay
<1>2. mid = SPD * day /\ day \in Int /\ mid \in Int
  <2>1. Midnight(r) = SPD * day /\ day \in Nat
    BY MidnightIs
  <2> HIDE DEF day
  <2>. QED
    BY <2>1, DayIsPositive
<1>3. u \in 0 .. SPD - 1 /\ u \in Nat /\ u \in T
  <2>1. u \in 0 .. SPD - 1
    BY RequestFields
  <2> HIDE DEF u
  <2>2. u \in Nat
    BY <2>1, DayIsPositive
  <2>. QED
    BY <2>1, <2>2 DEF u
<1>4. CASE Head(chain) = "set_time"
  <2>1. m = SPD * q + u
    <3>1. x = Changed("set_time", gmtime_r(t), r)
      BY <1>4
    <3>. QED
      BY <3>1, ChangedTime
  <2>2. CASE chain = <<"set_time", "set_date">>
    <3> HIDE DEF u, q, tod, day
    <3>1. 0 \in 0 .. l /\ SPD * q \in Int /\ m = SPD * q + u + 0
      BY <1>1, <1>3, <2>1, DayIsPositive
    <3>2. Same(T, l, m)
      BY <1>1, <1>3, <3>1 DEF Same
    <3>. QED
      BY <2>2, <3>2, Chains DEF Course
  <2>3. CASE chain = <<"set_time">>
    <3>1. PICK d \in 0 .. l : t = mid + d
      BY <2>3 DEF Early
    <3> HIDE DEF u, q, tod, day
    <3>2. d \in Nat /\ d < SPD /\ t = SPD * day + d
      BY <1>2, <3>1, DayIsPositive
    <3>3. q = day
      BY <1>2, <3>2, DivUnique DEF q
    <3>4. 0 \in 0 .. l /\ m = mid + u + 0
      BY <1>2, <1>3, <2>1, <3>3
    <3>5. Lands(T, l, mid, m)
      BY <1>3, <3>4 DEF Lands
    <3>. QED
      BY <2>3, <3>5, Chains DEF Course
  <2>. QED
    BY <1>4, <2>2, <2>3, Chains DEF Chain
<1>5. CASE Head(chain) = "set_date"
  <2>1. m = mid + tod
    <3>1. x = Changed("set_date", gmtime_r(t), r)
      BY <1>5
    <3>. QED
      BY <3>1, ChangedDate
  <2>2. CASE chain = <<"set_date">>
    <3>1. tod = t % SPD /\ t \in Int /\ l \in Int
      BY <1>1
    <3> HIDE DEF u, q, tod, day
    <3>2. Lands(T, l, mid, m)
      BY <1>2, <2>1, <2>2, <3>1, SameLands
    <3>. QED
      BY <2>2, <3>2, Chains DEF Course
  <2>3. CASE chain = <<"set_date", "set_time">>
    <3> DEFINE k == 17532
    <3>1. t = SPD * k + l /\ k \in Int
      BY <2>3, TimeDefaultIs
    <3> HIDE DEF u, q, tod, day, k
    <3>2. tod = l
      BY <3>1, DivUnique DEF tod
    <3>3. l \in 0 .. l /\ m = mid + l
      BY <2>1, <3>2
    <3>4. Early(l, mid, m)
      BY <3>3 DEF Early
    <3>. QED
      BY <2>3, <3>4, Chains DEF Course
  <2>. QED
    BY <1>5, <2>2, <2>3, Chains DEF Chain
<1>. QED
  BY <1>4, <1>5, Chains DEF Chain

\* At boot the clock runs on from SOFT_RTC_TIME_DEFAULT.
LEMMA BootTime ==
    ASSUME Control, Bounds, Booting, todo["main"] = <<"set_date", "set_time">>,
           ~hist["main"].wrapped
    PROVE  GetTime = TimeDefault + Late("main")
<1> DEFINE a == ticks - hist["main"].age
           zero == 0
<1>1. "main" \in Thread /\ at["main"] # "idle"
  BY ThreadIs, Chains DEF Control, Calls
<1>2. hist["main"].age = ticks /\ ticks \in Nat
  BY <1>1, TickAssumption DEF Booting, Control
<1>3. a = 0
  BY <1>2
<1>4. Late("main") = Elapsed - (a \div RT_TICK_PER_SECOND)
  BY DEF Late
<1>5. a \div RT_TICK_PER_SECOND = 0
  BY <1>3, DivOfSmall, TickAssumption
<1>6. GetTime = init_time + Elapsed /\ Elapsed \in Nat /\ init_time = TimeDefault
      /\ init_time \in Nat
  BY TimeInCalendar DEF Booting
<1> HIDE DEF a
<1>. QED
  BY <1>4, <1>5, <1>6

\* Reading the clock keeps the thread on course,
LEMMA OnCourseRead ==
    ASSUME Control, Bounds, NEW s \in Thread, OnCourse(s), Asked, Booting, Read(s)
    PROVE  OnCourse(s)'
<1> DEFINE chain == todo[s]
           T == hist[s].times
           l == Late(s)
           r == req[s]
           mid == Midnight(req[s])
           x == tm_new'[s]
           m == mktime(tm_new'[s])
           z == stamp[s] + Elapsed
           t == GetTime
<1>1. /\ at[s] = "call" /\ tmp' = gmtime_r(t) /\ x = Changed(Head(chain), gmtime_r(t), r)
      /\ at'[s] = "mktime" /\ UNCHANGED <<ticks, init_time, todo, req, stamp>>
      /\ hist'[s] = hist[s]
  BY DEF Read, Control, Bounds
<1>2. chain \in Chain /\ chain # << >> /\ (s # "main" => chain # <<"set_date", "set_time">>)
  BY <1>1, Chains DEF Control, Calls
<1>3. /\ T \in SUBSET (0 .. SPD - 1) /\ l \in Nat /\ l < SPD /\ r \in Request
      /\ mid = Midnight(r) /\ t \in Times /\ m = mktime(x)
  BY CourseTypes
<1>4. TimeOfDay(r) \in T
  BY <1>2 DEF Asked
<1>5. OnCourse(s)' <=> (~hist[s].wrapped => Course(chain, "mktime", T, l, mid, m, z, t))
  <2>1. Late(s)' = l /\ GetTime' = t /\ Elapsed' = Elapsed
    BY <1>1 DEF Late, Elapsed, GetTime
  <2>. QED
    BY <1>1, <2>1 DEF OnCourse
<1>6. ~hist[s].wrapped => /\ chain = <<"set_date">> => Same(T, l, t)
                          /\ chain = <<"set_time">> => Early(l, mid, t)
  BY <1>1 DEF OnCourse, Course
<1>7. ~hist[s].wrapped /\ chain = <<"set_date", "set_time">> => t = TimeDefault + l
  <2> SUFFICES ASSUME ~hist[s].wrapped, chain = <<"set_date", "set_time">>
               PROVE  t = TimeDefault + l
    OBVIOUS
  <2>1. s = "main"
    BY <1>2
  <2>. QED
    BY <2>1, BootTime
<1> HIDE DEF chain, T, l, r, mid, x, m, z, t
<1>8. ~hist[s].wrapped => Course(chain, "mktime", T, l, mid, m, z, t)
  <2> SUFFICES ASSUME ~hist[s].wrapped PROVE Course(chain, "mktime", T, l, mid, m, z, t)
    OBVIOUS
  <2>1. /\ chain = <<"set_date">> => Same(T, l, t)
        /\ chain = <<"set_time">> => Early(l, mid, t)
        /\ chain = <<"set_date", "set_time">> => t = TimeDefault + l
    BY <1>6, <1>7
  <2>2. /\ chain \in Chain /\ chain # << >> /\ T \in SUBSET (0 .. SPD - 1)
        /\ l \in Nat /\ l < SPD /\ r \in Request /\ TimeOfDay(r) \in T /\ mid = Midnight(r)
        /\ t \in Times /\ x = Changed(Head(chain), gmtime_r(t), r) /\ m = mktime(x)
    BY <1>1, <1>2, <1>3, <1>4
  <2>. QED
    BY <2>1, <2>2, ReadCourse, Zenon
<1>. QED
  BY <1>5, <1>8

\* so does making the new init_time, for the seconds elapsed come off it,
LEMMA OnCourseStamp ==
    ASSUME Control, Bounds, NEW s \in Thread, OnCourse(s), Stamp(s)
    PROVE  OnCourse(s)'
<1> DEFINE chain == todo[s]
           T == hist[s].times
           l == Late(s)
           mid == Midnight(req[s])
           m == mktime(tm_new[s])
           e == Elapsed
           z == stamp'[s] + e
           t == GetTime
<1>1. /\ at[s] = "mktime" /\ stamp'[s] = m - e
      /\ at'[s] = "store" /\ UNCHANGED <<ticks, init_time, todo, req, tm_new, hist>>
  BY DEF Stamp, Control, Bounds
<1>2. OnCourse(s)' <=> (~hist[s].wrapped => Course(chain, "store", T, l, mid, m, z, t))
  <2>1. Late(s)' = l /\ GetTime' = t /\ Elapsed' = e
    BY <1>1 DEF Late, Elapsed, GetTime
  <2>. QED
    BY <1>1, <2>1 DEF OnCourse
<1>3. ~hist[s].wrapped => Course(chain, "mktime", T, l, mid, m, stamp[s] + e, t)
  BY <1>1 DEF OnCourse
<1>4. z = m
  <2>1. e \in Nat
    BY CourseTypes
  <2>2. m \in Int
    <3>1. CallBounds(s)
      BY DEF Bounds
    <3>. QED
      BY <1>1, <3>1 DEF CallBounds, Fits
  <2>. QED
    BY <1>1, <2>1, <2>2
<1> HIDE DEF chain, T, l, mid, m, z, t, e
<1>5. ~hist[s].wrapped => Course(chain, "store", T, l, mid, m, z, t)
  BY <1>3, <1>4 DEF Course
<1>. QED
  BY <1>2, <1>5

\* and so does writing it.
LEMMA OnCourseStore ==
    ASSUME Control, Bounds, NEW s \in Thread, OnCourse(s), Store(s)
    PROVE  OnCourse(s)'
<1> DEFINE T == hist[s].times
           l == Late(s)
           mid == Midnight(req[s])
           z == stamp[s] + Elapsed
           m1 == mktime(tm_new'[s])
           z1 == stamp'[s] + Elapsed
<1>1. /\ at[s] = "store" /\ init_time' = stamp[s] /\ ticks' = ticks
      /\ todo'[s] = Tail(todo[s])
      /\ todo'[s] # << >> => at'[s] = "call" /\ req' = req /\ hist' = hist
  BY DEF Store, Control
<1>2. CASE todo'[s] = << >>
  BY <1>2, Chains DEF OnCourse, Course
<1>3. CASE todo'[s] # << >>
  <2>1. \/ todo[s] = <<"set_date", "set_time">> /\ todo'[s] = <<"set_time">>
        \/ todo[s] = <<"set_time", "set_date">> /\ todo'[s] = <<"set_date">>
    <3>1. todo[s] \in Chain /\ todo[s] # << >>
      BY <1>1 DEF Control, Calls
    <3>. QED
      BY <1>1, <1>3, <3>1, Chains DEF Chain
  <2>2. Late(s)' = l /\ GetTime' = z /\ Elapsed' = Elapsed
    BY <1>1, <1>3 DEF Late, Elapsed, GetTime
  <2>3. OnCourse(s)' <=> (~hist[s].wrapped => Course(todo'[s], "call", T, l, mid, m1, z1, z))
    BY <1>1, <1>3, <2>2 DEF OnCourse
  <2>4. ~hist[s].wrapped => /\ todo[s] = <<"set_time", "set_date">> => Same(T, l, z)
                            /\ todo[s] = <<"set_date", "set_time">> => Early(l, mid, z)
    BY <1>1 DEF OnCourse, Course
  <2> HIDE DEF T, l, mid, z, m1, z1
  <2>5. ~hist[s].wrapped => Course(todo'[s], "call", T, l, mid, m1, z1, z)
    BY <2>1, <2>4, Chains DEF Course
  <2>. QED
    BY <2>3, <2>5
<1>. QED
  BY <1>2, <1>3

\* tshell sets the clock while dst_show is in the middle of date.
LEMMA OnCourseOther ==
    ASSUME Control, Bounds, OnCourse("tshell"), OnCourse("dst_show"), Nested, Store("tshell")
    PROVE  OnCourse("dst_show")'
<1> DEFINE s == "dst_show"
           o == "tshell"
           T == hist[s].times
           l == Late(s)
           To == hist[o].times
           lo == Late(o)
           mid == Midnight(req[s])
           m == mktime(tm_new[s])
           z == stamp[s] + Elapsed
           t1 == stamp[o] + Elapsed
           t == GetTime
           mo == Midnight(req[o])
           c == 0
<1>0. s \in Thread /\ o \in Thread
  BY ThreadIs
<1>1. /\ at[o] = "store" /\ init_time' = stamp[o] /\ ticks' = ticks
      /\ UNCHANGED <<at[s], todo[s], req[s], hist[s], tm_new[s], stamp[s]>>
  BY <1>0 DEF Store, Control, Bounds
<1>2. CASE todo[s] = << >>
  <2>1. todo'[s] = << >>
    BY <1>1, <1>2
  <2>. QED
    BY <2>1, Chains DEF OnCourse, Course
<1>3. CASE todo[s] # << >>
  <2>1. at[s] # "idle" /\ at[o] # "idle"
    BY <1>0, <1>1, <1>3 DEF Control, Calls
  <2>2. /\ T \in SUBSET (0 .. SPD - 1) /\ l \in Int /\ mid \in Int /\ z \in Int /\ t \in Int
        /\ To \in SUBSET (0 .. SPD - 1) /\ lo \in Int /\ t1 \in Int
        /\ RequestDay(req[o]) \in Int /\ mo = SPD * RequestDay(req[o])
        /\ hist[o].wrapped \in BOOLEAN /\ hist[s].wrapped \in BOOLEAN
    BY <1>0, CourseTypes
  <2>3. lo + c <= l /\ c \in Nat /\ t1 = t1 + c
    <3> DEFINE n == RT_TICK_PER_SECOND
               a == ticks - hist[s].age
               b == ticks - hist[o].age
    <3>1. n \in Nat /\ n > 0 /\ a \in Int /\ b \in Int /\ a <= b
      BY <1>0, <2>1, HistFields, TickAssumption DEF Nested, Control
    <3>2. l = Elapsed - (a \div n) /\ lo = Elapsed - (b \div n) /\ Elapsed \in Nat
      BY ElapsedBound DEF Late
    <3> HIDE DEF a, b, n, l, lo
    <3>3. a \div n <= b \div n /\ a \div n \in Int /\ b \div n \in Int
      BY <3>1, DivMonotone, DivFacts
    <3>. QED
      BY <2>2, <3>2, <3>3
  <2>4. To \subseteq T /\ (~hist[s].wrapped => ~hist[o].wrapped)
    BY <2>1, <2>2 DEF Nested
  <2>5. ~hist[s].wrapped => Same(To, lo, t1)
    <3> SUFFICES ASSUME ~hist[s].wrapped PROVE Same(To, lo, t1)
      OBVIOUS
    <3>1. todo[o] \in {<<"set_date">>, <<"set_time", "set_date">>}
      BY <1>0, <1>1 DEF Control, Calls
    <3>2. /\ todo[o] = <<"set_time", "set_date">> => Same(To, lo, t1)
          /\ todo[o] = <<"set_date">> => Lands(To, lo, mo, t1)
      BY <1>1, <2>4 DEF OnCourse, Course
    <3>3. mo = SPD * RequestDay(req[o]) /\ RequestDay(req[o]) \in Int
      BY <2>2
    <3> HIDE DEF To, lo, t1, mo
    <3>4. Lands(To, lo, mo, t1) => Same(To, lo, t1)
      BY <2>2, <3>3, LandsSame
    <3>. QED
      BY <3>1, <3>2, <3>4
  <2>6. OnCourse(s)' <=> (~hist[s].wrapped => Course(todo[s], at[s], T, l, mid, m, z, t1))
    <3>1. Late(s)' = l /\ GetTime' = t1 /\ Elapsed' = Elapsed
      BY <1>1 DEF Late, Elapsed, GetTime
    <3>. QED
      BY <1>1, <3>1 DEF OnCourse
  <2>7. ~hist[s].wrapped => Course(todo[s], at[s], T, l, mid, m, z, t)
    BY DEF OnCourse
  <2>8. todo[s] # <<"set_time">>
    BY <1>0, <1>3, Chains DEF Control
  <2> HIDE DEF T, l, To, lo, mid, m, z, t1, t, c
  <2>9. ~hist[s].wrapped => Same(T, l, t1)
    BY <2>2, <2>3, <2>4, <2>5, SameStep
  <2>10. ~hist[s].wrapped => Course(todo[s], at[s], T, l, mid, m, z, t1)
    BY <2>7, <2>8, <2>9 DEF Course
  <2>. QED
    BY <2>6, <2>10
<1>. QED
  BY <1>2, <1>3

\* The inductive invariant, fourth part: where the clock is going to land.
Aim == (\A s \in Thread : OnCourse(s)) /\ Asked /\ Booting /\ Nested

\* Aim holds at boot.
LEMMA AimInit == Init => Aim
<1> SUFFICES ASSUME Init PROVE Aim
  OBVIOUS
<1>1. /\ \A s \in Thread : s # "main" => todo[s] = << >> /\ at[s] = "idle"
      /\ "main" \in Thread /\ todo["main"] = <<"set_date", "set_time">> /\ at["main"] = "call"
      /\ req["main"] = Boot /\ hist["main"] = Begun({TimeOfDay(Boot)})
      /\ "tshell" \in Thread /\ ticks = 0 /\ init_time = TimeDefault
  BY ThreadIs DEF Init
<1>2. \A s \in Thread : s # "main" => OnCourse(s)
  BY <1>1, OnCourseIdle
<1>3. OnCourse("main")
  BY <1>1, Chains DEF OnCourse, Course
<1>4. hist["main"].times = {TimeOfDay(Boot)} /\ hist["main"].age = 0
  <2>1. {TimeOfDay(Boot)} \in SUBSET (0 .. SPD - 1)
    BY BootIsRequest, RequestFields
  <2>. QED
    BY <1>1, <2>1, HistBegun
<1>5. Asked /\ Booting /\ Nested
  BY <1>1, <1>4 DEF Asked, Booting, Nested
<1>. QED
  BY <1>2, <1>3, <1>5 DEF Aim

\* A tick keeps it,
LEMMA AimTick ==
    ASSUME Control, Bounds, Aim, Tick
    PROVE  Aim'
<1>1. UNCHANGED <<init_time, tmp, at, todo, req, tm_new, stamp, now, shown>>
  BY DEF Tick
<1>2. \A s \in Thread : OnCourse(s)'
  BY OnCourseTick DEF Aim
<1>3. Asked'
  <2> SUFFICES ASSUME NEW s \in Thread, todo[s] # << >>  PROVE TimeOfDay(req[s]) \in hist'[s].times
    BY <1>1 DEF Asked
  <2>1. Active(s)
    BY DEF Control, Calls, Active
  <2>2. hist'[s].times = hist[s].times
    BY <2>1, TickHist
  <2>. QED
    BY <2>2 DEF Aim, Asked
<1>4. Booting'
  <2>1. ASSUME at["main"] # "idle", ~hist'["main"].wrapped  PROVE hist'["main"].age = ticks'
    <3>1. "main" \in Thread /\ Active("main")
      BY <2>1, ThreadIs DEF Active
    <3>2. /\ hist'["main"].age = hist["main"].age + 1
          /\ ticks' # 0 /\ ~hist["main"].wrapped
      BY <2>1, <3>1, TickHist
    <3>3. hist["main"].age = ticks
      BY <2>1, <3>2 DEF Aim, Booting
    <3>4. ticks' = ticks + 1
      BY <3>2, TickSeconds
    <3>. QED
      BY <3>2, <3>3, <3>4
  <2>. QED
    BY <1>1, <2>1 DEF Aim, Booting
<1>5. Nested'
  <2> SUFFICES ASSUME at["tshell"] # "idle", at["dst_show"] # "idle"
               PROVE  /\ hist'["tshell"].times \subseteq hist'["dst_show"].times
                      /\ hist'["tshell"].age <= hist'["dst_show"].age
                      /\ hist'["tshell"].wrapped => hist'["dst_show"].wrapped
    BY <1>1 DEF Nested
  <2>1. /\ "tshell" \in Thread /\ Active("tshell") /\ "dst_show" \in Thread /\ Active("dst_show")
    BY ThreadIs DEF Active
  <2>2. /\ hist["tshell"].times \subseteq hist["dst_show"].times
        /\ hist["tshell"].age <= hist["dst_show"].age
        /\ hist["tshell"].wrapped => hist["dst_show"].wrapped
    BY DEF Aim, Nested
  <2>3. hist["tshell"].age \in Nat /\ hist["dst_show"].age \in Nat
    BY <2>1, HistFields
  <2>4. /\ hist'["tshell"].age = hist["tshell"].age + 1
        /\ hist'["dst_show"].age = hist["dst_show"].age + 1
        /\ hist'["tshell"].times = hist["tshell"].times
        /\ hist'["dst_show"].times = hist["dst_show"].times
    BY <2>1, TickHist
  <2>5. ticks' = 0 => hist'["dst_show"].wrapped
    BY <2>1, TickHist
  <2>6. ticks' # 0 => /\ hist'["tshell"].wrapped = hist["tshell"].wrapped
                      /\ hist'["dst_show"].wrapped = hist["dst_show"].wrapped
    BY <2>1, TickHist
  <2>. QED
    BY <2>2, <2>3, <2>4, <2>5, <2>6
<1>. QED
  BY <1>2, <1>3, <1>4, <1>5 DEF Aim

\* so does a call of date, whose time of day the interrupted call takes note of,
LEMMA AimDate ==
    ASSUME Control, Bounds, Aim, NEW s \in Thread, NEW m \in Messages, Date(s, m)
    PROVE  Aim'
<1> DEFINE u == TimeOfDay(Cut(m))
<1>1. /\ at' = [at EXCEPT ![s] = "call"] /\ s # "main" /\ at[s] = "idle" /\ Runs(s)
      /\ todo' = [todo EXCEPT ![s] = <<"set_time", "set_date">>]
      /\ req' = [req EXCEPT ![s] = Cut(m)]
      /\ UNCHANGED <<ticks, init_time, tmp, tm_new, stamp, shown>>
  BY DEF Date, DateCalls
<1>2. Cut(m) \in Request /\ u \in 0 .. SPD - 1
  BY RequestFields DEF Date, InRange
<1>3. /\ todo'[s] = <<"set_time", "set_date">> /\ at'[s] = "call" /\ req'[s] = Cut(m)
      /\ \A s2 \in Thread : s2 # s => todo'[s2] = todo[s2] /\ at'[s2] = at[s2] /\ req'[s2] = req[s2]
  BY <1>1 DEF Control
<1>4. at["main"] = "idle" /\ at'["main"] = "idle" /\ todo'["main"] = << >>
  BY <1>1, <1>3, ThreadIs, WhoRuns DEF Control, Calls
<1>5. hist'[s].times = {u} /\ hist'[s].age = 0 /\ hist'[s].wrapped = FALSE
  <2>1. hist'[s] = Begun({u}) /\ {u} \in SUBSET (0 .. SPD - 1)
    BY <1>2 DEF Date
  <2> HIDE DEF u
  <2>. QED
    BY <2>1, HistBegun
<1>6. ASSUME NEW s2 \in Thread, s2 # s
      PROVE  /\ hist'[s2].age = hist[s2].age /\ hist'[s2].wrapped = hist[s2].wrapped
             /\ hist[s2].times \subseteq hist'[s2].times
             /\ at[s2] # "idle" => u \in hist'[s2].times
  <2>1. hist[s2] \in HistRec
    BY HistFields
  <2>2. CASE ~Active(s2)
    <3>1. hist'[s2] = hist[s2]
      BY <1>6, <2>2 DEF Date
    <3>. QED
      BY <2>2, <3>1 DEF Active
  <2>3. CASE Active(s2)
    <3> DEFINE h == hist[s2]
               x == hist'[s2]
    <3>1. x = [h EXCEPT !.times = @ \cup {u}] /\ h \in HistRec
      BY <1>6, <2>1, <2>3 DEF Date
    <3> HIDE DEF h, x, u
    <3>2. x.age = h.age /\ x.times = h.times \cup {u} /\ x.wrapped = h.wrapped
      BY <1>2, <3>1, HistJoined
    <3>. QED
      BY <3>2 DEF h, x
  <2>. QED
    BY <2>2, <2>3
<1> HIDE DEF u
<1>7. \A s2 \in Thread : OnCourse(s2)'
  <2> SUFFICES ASSUME NEW s2 \in Thread  PROVE OnCourse(s2)'
    OBVIOUS
  <2>1. CASE s2 = s
    BY <1>3, <2>1, Chains DEF OnCourse, Course
  <2>2. CASE s2 # s
    <3>1. OnCourse(s2)
      BY DEF Aim
    <3>. QED
      BY <1>1, <1>3, <1>6, <2>2, <3>1, OnCourseKept
  <2>. QED
    BY <2>1, <2>2
<1>8. Asked'
  BY <1>3, <1>5, <1>6 DEF Asked, Aim, u
<1>9. Booting'
  BY <1>4, Chains DEF Booting
<1>10. Nested'
  <2>1. CASE s = "tshell"
    <3> SUFFICES ASSUME at'["dst_show"] # "idle"
                 PROVE  /\ hist'["tshell"].times \subseteq hist'["dst_show"].times
                        /\ hist'["tshell"].age <= hist'["dst_show"].age
                        /\ hist'["tshell"].wrapped => hist'["dst_show"].wrapped
      BY DEF Nested
    <3>1. "dst_show" \in Thread /\ at["dst_show"] # "idle" /\ "dst_show" # s
      BY <1>3, <2>1, ThreadIs
    <3>2. hist'["dst_show"].age \in Nat /\ u \in hist'["dst_show"].times
      BY <1>6, <3>1, HistFields
    <3>. QED
      BY <1>5, <2>1, <3>2
  <2>2. CASE s = "dst_show"
    BY <1>1, <1>3, <2>2, ThreadIs, WhoRuns DEF Nested
  <2>. QED
    BY <1>1, <2>1, <2>2, ThreadIs
<1>. QED
  BY <1>7, <1>8, <1>9, <1>10 DEF Aim

\* so do the three steps of set_time and set_date,
LEMMA AimRead ==
    ASSUME Control, Bounds, Aim, NEW s \in Thread, Read(s)
    PROVE  Aim'
<1>1. /\ at[s] = "call" /\ at' = [at EXCEPT ![s] = "mktime"] /\ hist'[s] = hist[s]
      /\ UNCHANGED <<ticks, init_time, todo, req, stamp, shown>>
      /\ \A s2 \in Thread : s2 # s => at'[s2] = at[s2] /\ tm_new'[s2] = tm_new[s2]
  BY DEF Read, Control, Bounds
<1>2. \A s2 \in Thread : (at'[s2] = "idle") <=> (at[s2] = "idle")
  BY <1>1 DEF Control
<1>3. ASSUME NEW s2 \in Thread
      PROVE  /\ hist'[s2].age = hist[s2].age /\ hist'[s2].wrapped = hist[s2].wrapped
             /\ hist'[s2].times = hist[s2].times
  <2>1. CASE s2 # s /\ Active(s2)
    <3> DEFINE h == hist[s2]
               x == hist'[s2]
    <3>1. x = [h EXCEPT !.torn = TRUE] /\ h \in HistRec
      BY <2>1, HistFields DEF Read
    <3> HIDE DEF h, x
    <3>2. x.age = h.age /\ x.times = h.times /\ x.wrapped = h.wrapped
      BY <3>1, HistTorn
    <3>. QED
      BY <3>2 DEF h, x
  <2>2. CASE ~(s2 # s /\ Active(s2))
    <3>1. hist'[s2] = hist[s2]
      BY <2>2 DEF Read
    <3>. QED
      BY <3>1
  <2>. QED
    BY <2>1, <2>2
<1>4. \A s2 \in Thread : OnCourse(s2)'
  <2> SUFFICES ASSUME NEW s2 \in Thread  PROVE OnCourse(s2)'
    OBVIOUS
  <2>1. OnCourse(s2)
    BY DEF Aim
  <2>2. CASE s2 = s
    BY <2>1, <2>2, OnCourseRead DEF Aim
  <2>3. CASE s2 # s
    BY <1>1, <1>3, <2>1, <2>3, OnCourseKept
  <2>. QED
    BY <2>2, <2>3
<1>5. Asked'
  BY <1>1, <1>3 DEF Asked, Aim
<1>6. Booting'
  BY <1>1, <1>2, <1>3, ThreadIs DEF Booting, Aim
<1>7. Nested'
  BY <1>2, <1>3, ThreadIs DEF Nested, Aim
<1>. QED
  BY <1>4, <1>5, <1>6, <1>7 DEF Aim

\* the second,
LEMMA AimStamp ==
    ASSUME Control, Bounds, Aim, NEW s \in Thread, Stamp(s)
    PROVE  Aim'
<1>1. /\ at[s] = "mktime" /\ at' = [at EXCEPT ![s] = "store"]
      /\ UNCHANGED <<ticks, init_time, todo, req, tm_new, hist>>
      /\ \A s2 \in Thread : s2 # s => at'[s2] = at[s2] /\ stamp'[s2] = stamp[s2]
  BY DEF Stamp, Control, Bounds
<1>2. \A s2 \in Thread : (at'[s2] = "idle") <=> (at[s2] = "idle")
  BY <1>1 DEF Control
<1>3. \A s2 \in Thread : OnCourse(s2)'
  <2> SUFFICES ASSUME NEW s2 \in Thread  PROVE OnCourse(s2)'
    OBVIOUS
  <2>1. OnCourse(s2)
    BY DEF Aim
  <2>2. CASE s2 = s
    BY <2>1, <2>2, OnCourseStamp
  <2>3. CASE s2 # s
    BY <1>1, <2>1, <2>3, OnCourseKept
  <2>. QED
    BY <2>2, <2>3
<1>4. Asked' /\ Booting' /\ Nested'
  BY <1>1, <1>2, ThreadIs DEF Asked, Booting, Nested, Aim
<1>. QED
  BY <1>3, <1>4 DEF Aim

\* and the third, which may change the clock in the middle of another call,
LEMMA AimStore ==
    ASSUME Control, Bounds, Aim, NEW s \in Thread, Store(s)
    PROVE  Aim'
<1>1. /\ at[s] = "store" /\ Runs(s) /\ init_time' = stamp[s] /\ ticks' = ticks
      /\ \A s2 \in Thread : s2 # s =>
            /\ at'[s2] = at[s2] /\ stamp'[s2] = stamp[s2] /\ todo'[s2] = todo[s2]
            /\ tm_new'[s2] = tm_new[s2] /\ req'[s2] = req[s2] /\ hist'[s2] = hist[s2]
      /\ todo'[s] = Tail(todo[s])
      /\ todo'[s] # << >> => req' = req /\ hist' = hist
      /\ todo'[s] = << >> => at'[s] \in {"idle", "time"}
      /\ s # "dst_show" /\ todo'[s] = << >> => at'[s] = "idle"
  BY DEF Store, Control, Bounds
<1>2. OnCourse(s)'
  BY OnCourseStore DEF Aim
<1>3. CASE s = "main"
  <2>1. at["tshell"] = "idle" /\ at["dst_show"] = "idle" /\ "tshell" \in Thread /\ "dst_show" \in Thread
    BY <1>1, <1>3, ThreadIs DEF Control
  <2>2. \A s2 \in Thread : s2 # s => todo'[s2] = << >>
    BY <1>1, <1>3, <2>1, ThreadIs DEF Control, Calls
  <2>3. \A s2 \in Thread : OnCourse(s2)'
    <3>1. \A s2 \in Thread : s2 # s => OnCourse(s2)'
      BY <2>2, Chains DEF OnCourse, Course
    <3>. QED
      BY <1>2, <3>1
  <2>4. Asked'
    BY <1>1, <2>2 DEF Asked, Aim, Control, Calls
  <2>5. Nested'
    BY <1>1, <1>3, <2>1 DEF Nested
  <2>6. Booting'
    <3>1. todo'["main"] # <<"set_date", "set_time">>
      BY <1>1, <1>3, ThreadIs, Chains DEF Control, Calls
    <3>2. at'["main"] # "idle" => hist' = hist
      BY <1>1, <1>3
    <3>. QED
      BY <1>1, <1>3, <3>1, <3>2 DEF Booting, Aim
  <2>. QED
    BY <2>3, <2>4, <2>5, <2>6 DEF Aim
<1>4. CASE s # "main"
  <2>1. at["main"] = "idle" /\ at'["main"] = "idle" /\ todo'["main"] = << >> /\ "main" \in Thread
    BY <1>1, <1>4, ThreadIs, WhoRuns DEF Control, Calls
  <2>2. Booting'
    BY <2>1, Chains DEF Booting
  <2>3. Asked'
    BY <1>1 DEF Asked, Aim, Control, Calls
  <2>4. CASE s = "dst_show"
    <3>1. at["tshell"] = "idle" /\ "tshell" \in Thread /\ at'["tshell"] = "idle"
      BY <1>1, <2>4, ThreadIs, WhoRuns
    <3>2. \A s2 \in Thread : s2 # s => todo'[s2] = << >>
      BY <1>1, <2>1, <2>4, <3>1, ThreadIs DEF Control, Calls
    <3>3. \A s2 \in Thread : s2 # s => OnCourse(s2)'
      BY <3>2, Chains DEF OnCourse, Course
    <3>4. Nested'
      BY <3>1 DEF Nested
    <3>. QED
      BY <1>2, <2>2, <2>3, <3>3, <3>4 DEF Aim
  <2>5. CASE s = "tshell"
    <3>1. OnCourse("main")'
      BY <2>1, Chains DEF OnCourse, Course
    <3>2. OnCourse("dst_show")'
      BY <2>5, OnCourseOther, ThreadIs DEF Aim
    <3>3. Nested'
      <4>1. "dst_show" \in Thread /\ at'["dst_show"] = at["dst_show"]
        BY <1>1, <2>5, ThreadIs
      <4>2. CASE todo'[s] = << >>
        BY <1>1, <2>5, <4>2 DEF Nested
      <4>3. CASE todo'[s] # << >>
        BY <1>1, <2>5, <4>1, <4>3 DEF Nested, Aim
      <4>. QED
        BY <4>2, <4>3
    <3>. QED
      BY <1>2, <2>2, <2>3, <2>5, <3>1, <3>2, <3>3, ThreadIs DEF Aim
  <2>. QED
    BY <1>4, <2>4, <2>5, ThreadIs
<1>. QED
  BY <1>3, <1>4

\* so do the steps that draw,
LEMMA AimText ==
    ASSUME Control, Bounds, Aim, Drawing
    PROVE  Aim'
<1>1. /\ Runs("dst_show") /\ at["dst_show"] \notin Calls /\ todo' = todo
      /\ at' = [at EXCEPT !["dst_show"] = at'["dst_show"]]
  BY DrawingMoves
<1>2. /\ at["main"] = "idle" /\ at["tshell"] = "idle"
      /\ at'["main"] = "idle" /\ at'["tshell"] = "idle"
  BY <1>1, WhoRuns, ThreadIs DEF Control
<1>3. \A s \in Thread : todo'[s] = << >>
  BY <1>1, <1>2, ThreadIs DEF Control, Calls
<1>4. \A s \in Thread : OnCourse(s)'
  BY <1>3, Chains DEF OnCourse, Course
<1>. QED
  BY <1>2, <1>3, <1>4, ThreadIs, Chains DEF Aim, Asked, Booting, Nested

\* and so does printing the date.
LEMMA AimShow ==
    ASSUME Control, Bounds, Aim, DateShow
    PROVE  Aim'
<1>1. UNCHANGED <<ticks, init_time, at, todo, req, tm_new, stamp>>
  BY DEF DateShow
<1>2. ASSUME NEW s \in Thread
      PROVE  /\ hist'[s].age = hist[s].age /\ hist'[s].wrapped = hist[s].wrapped
             /\ hist'[s].times = hist[s].times
  <2> DEFINE h == hist[s]
             x == hist'[s]
  <2>1. (x = h \/ x = [h EXCEPT !.torn = TRUE]) /\ h \in HistRec
    BY HistFields DEF DateShow, Control
  <2> HIDE DEF h, x
  <2>2. x.age = h.age /\ x.times = h.times /\ x.wrapped = h.wrapped
    BY <2>1, HistTorn
  <2>. QED
    BY <2>2 DEF h, x
<1>3. \A s \in Thread : OnCourse(s)'
  BY <1>1, <1>2, OnCourseKept DEF Aim
<1>. QED
  BY <1>1, <1>2, <1>3, ThreadIs DEF Aim, Asked, Booting, Nested

\* Every step keeps Aim,
LEMMA AimNext == Control /\ Bounds /\ Aim /\ [Next]_vars => Aim'
<1> SUFFICES ASSUME Control, Bounds, Aim, [Next]_vars PROVE Aim'
  OBVIOUS
<1>1. CASE UNCHANGED vars
  <2>1. UNCHANGED <<ticks, init_time, tmp, at, todo, req, tm_new, stamp, hist>>
    BY <1>1 DEF vars
  <2>2. \A s \in Thread : OnCourse(s)'
    BY <2>1, OnCourseKept DEF Aim
  <2>. QED
    BY <2>1, <2>2 DEF Aim, Asked, Booting, Nested
<1>. QED
  BY <1>1, AimTick, AimDate, AimRead, AimStamp, AimStore, AimText, AimShow DEF Next, Drawing

\* and so it always holds.
LEMMA AimAlways == Spec => []Aim
<1>1. Init => Aim
  BY AimInit
<1>2. Control /\ Bounds /\ Aim /\ [Next]_vars => Aim'
  BY AimNext
<1>. QED
  BY <1>1, <1>2, ControlAlways, BoundsAlways, PTL DEF Spec

\* With Aim the last write of a call lands on the request.
LEMMA LastStore ==
    ASSUME Control, Bounds, Aim, [Next]_vars, NEW s \in Thread,
           todo[s] # << >>, todo'[s] = << >>, ~hist[s].wrapped
    PROVE  \E t \in hist[s].times, d \in 0 .. Late(s) :
              \/ GetTime' = Midnight(req[s]) + t + d
              \/ t + d >= SPD /\ GetTime' = Midnight(req[s]) + t + d - SPD
<1>1. Store(s)
  <2>1. ASSUME todo' = todo  PROVE FALSE
    BY <2>1
  <2>2. ASSUME NEW s2 \in Thread, NEW m \in Messages, Date(s2, m)  PROVE FALSE
    BY <2>2, Chains DEF Date, DateCalls, Control
  <2>3. ASSUME NEW s2 \in Thread, Store(s2), s2 # s  PROVE FALSE
    BY <2>3 DEF Store, Control
  <2>. QED
    BY <2>1, <2>2, <2>3
    DEF Next, Tick, Read, Stamp, DateShow, NoMessage, GetNow, LocalTime, StrField, Draw, vars
<1> DEFINE T == hist[s].times
           l == Late(s)
           mid == Midnight(req[s])
           z == stamp[s] + Elapsed
<1>2. at[s] = "store" /\ GetTime' = z /\ todo'[s] = Tail(todo[s])
  BY <1>1 DEF Store, Control, GetTime, Elapsed
<1>3. todo[s] \in {<<"set_time">>, <<"set_date">>}
  BY <1>2, Chains DEF Control, Chain
<1>4. Lands(T, l, mid, z)
  BY <1>2, <1>3 DEF Aim, OnCourse, Course
<1>. QED
  BY <1>2, <1>4 DEF Lands

\* A call of date, and the two calls at boot, leave the clock on the day and at
\* the time of day asked for, late by no more than the call took, and a day behind
\* if midnight passed between set_time and set_date: for every set of messages,
\* for calls of any length below a day, and with another thread's date at any
\* point of them, whose time of day may then be the one that is left.
THEOREM ClockLandsOnRequest == Spec => LandsOnRequest
<1>1. Control /\ Bounds /\ Aim /\ [Next]_vars =>
        [\A s \in Thread :
          todo[s] # << >> /\ todo'[s] = << >> /\ ~hist[s].wrapped =>
              \E t \in hist[s].times, d \in 0 .. Late(s) :
                  \/ GetTime' = Midnight(req[s]) + t + d
                  \/ t + d >= SPD /\ GetTime' = Midnight(req[s]) + t + d - SPD]_vars
  BY LastStore
<1>. QED
  BY <1>1, ControlAlways, BoundsAlways, AimAlways, PTL DEF Spec, LandsOnRequest
=============================================================================
