---------------------------- MODULE MarketCalendar ----------------------------
(***************************************************************************)
(* cherrypick.core.calendar: the NYSE holidays computed from their rules,  *)
(* and the loops that walk to the next, the previous or the last trading   *)
(* day.  A date is its ordinal, as date.toordinal() counts (the first of   *)
(* January of year 1 is day 1); each iteration of a loop is a step.        *)
(***************************************************************************)
EXTENDS Integers, FiniteSets

CONSTANTS
  FirstYear, LastYear  \* bounds on the days that are asked about

ASSUME CalendarAssumption ==
  /\ FirstYear \in Nat /\ LastYear \in Nat
  /\ 1583 < FirstYear /\ FirstYear <= LastYear

VARIABLES
  query,   \* the loop that runs, or "none"
  origin,  \* the day it was asked about
  day      \* the day it looks at; without a loop, the last answer

vars == <<query, origin, day>>

-----------------------------------------------------------------------------
(* datetime.date *)

Leap(y) == y % 4 = 0 /\ (y % 100 # 0 \/ y % 400 = 0)

DaysBefore(y, m) ==
  <<0, 31, 59, 90, 120, 151, 181, 212, 243, 273, 304, 334>>[m]
    + (IF m > 2 /\ Leap(y) THEN 1 ELSE 0)

Date(y, m, d) ==
  LET p == y - 1 IN
  365 * p + p \div 4 - p \div 100 + p \div 400 + DaysBefore(y, m) + d

YearOf(n) ==
  CHOOSE y \in (n \div 366 + 1)..(n \div 365 + 1) :
    Date(y, 1, 1) <= n /\ n < Date(y + 1, 1, 1)

Weekday(n) == (n + 6) % 7

MON == 0
THU == 3
SAT == 5
SUN == 6

\* The last day of a month that is not December is the day before the next.
MonthEnd(y, m) == IF m = 12 THEN Date(y, 12, 31) ELSE Date(y, m + 1, 1) - 1

-----------------------------------------------------------------------------
(* The rules *)

NthWeekday(y, m, weekday, n) ==
  LET first == Date(y, m, 1) IN
  first + ((weekday - Weekday(first)) % 7) + 7 * (n - 1)

LastWeekday(y, m, weekday) ==
  LET last == MonthEnd(y, m) IN last - ((Weekday(last) - weekday) % 7)

\* Mutant: without the correction m the late Easters of 1981 and 2049 are wrong.
EasterUncorrected(y) ==
  LET a == y % 19   b == y \div 100   c == y % 100
      g == (b - (b + 8) \div 25 + 1) \div 3
      h == (19 * a + b - b \div 4 - g + 15) % 30
      l == (32 + 2 * (b % 4) + 2 * (c \div 4) - h - (c % 4)) % 7
      n == h + l + 114
  IN Date(y, n \div 31, (n % 31) + 1)

\* The algorithm of Meeus, Jones and Butcher.
Easter(y) ==
  LET a == y % 19   b == y \div 100   c == y % 100
      g == (b - (b + 8) \div 25 + 1) \div 3
      h == (19 * a + b - b \div 4 - g + 15) % 30
      l == (32 + 2 * (b % 4) + 2 * (c \div 4) - h - (c % 4)) % 7
      m == (a + 11 * h + 22 * l) \div 451
      n == h + l - 7 * m + 114
  IN Date(y, n \div 31, (n % 31) + 1)

\* Mutant: a holiday on a Sunday is not moved.
ObservedSaturdays(d) == IF Weekday(d) = SAT THEN d - 1 ELSE d

Observed(d) ==
  IF Weekday(d) = SAT THEN d - 1
  ELSE IF Weekday(d) = SUN THEN d + 1
  ELSE d

\* Mutant: a New Year's Day observed in December is kept in the year it is of.
NewYearAlways(y) == {Observed(Date(y, 1, 1))}

\* The code's comment has a New Year's Day on a Saturday observed on the 31st of
\* December before, "which belongs to the previous year, so it is not added here".
\* The code does not add it to the previous year either: is_trading_day says yes
\* to that day.
NewYear(y) == {d \in {Observed(Date(y, 1, 1))} : YearOf(d) = y}

NyseHolidays(y) ==
  NewYear(y)
    \cup {NthWeekday(y, 1, MON, 3), NthWeekday(y, 2, MON, 3), Easter(y) - 2,
          LastWeekday(y, 5, MON), Observed(Date(y, 7, 4)),
          NthWeekday(y, 9, MON, 1), NthWeekday(y, 11, THU, 4),
          Observed(Date(y, 12, 25))}
    \cup (IF y >= 2022 THEN {Observed(Date(y, 6, 19))} ELSE {})

\* Mutant: a dropped "not".
IsTradingDayInverted(d) == Weekday(d) < SAT /\ d \in NyseHolidays(YearOf(d))

IsTradingDay(d) == Weekday(d) < SAT /\ d \notin NyseHolidays(YearOf(d))

QuarterMonths == {3, 6, 9, 12}

-----------------------------------------------------------------------------
(* The loops *)

Days == Date(FirstYear, 1, 1)..Date(LastYear, 12, 31)

Init ==
  /\ query = "none"
  /\ day \in Days
  /\ origin = day

\* next_trading_day, previous_trading_day and each quarter of
\* quarterly_expiry_dates, up to the first test of their loop.
AskNext ==
  /\ query = "none" /\ day \in Days
  /\ query' = "next" /\ origin' = day /\ day' = day + 1

AskPrevious ==
  /\ query = "none" /\ day \in Days
  /\ query' = "previous" /\ origin' = day /\ day' = day - 1

AskQuarter ==
  /\ query = "none" /\ day \in Days
  /\ \E y \in {YearOf(day)} \cap FirstYear..LastYear, m \in QuarterMonths :
       /\ query' = "quarter"
       /\ origin' = MonthEnd(y, m) /\ day' = MonthEnd(y, m)

Step == IF query = "next" THEN 1 ELSE -1

\* Mutant: the loop looks at every other day.
WalkByTwo ==
  /\ query # "none" /\ ~IsTradingDay(day)
  /\ day' = day + 2 * Step
  /\ UNCHANGED <<query, origin>>

Walk ==
  /\ query # "none" /\ ~IsTradingDay(day)
  /\ day' = day + Step
  /\ UNCHANGED <<query, origin>>

Answer ==
  /\ query # "none" /\ IsTradingDay(day)
  /\ query' = "none" /\ origin' = day
  /\ UNCHANGED day

Next == AskNext \/ AskPrevious \/ AskQuarter \/ Walk \/ Answer

Spec == Init /\ [][Next]_vars

-----------------------------------------------------------------------------
(* Properties *)

\* The type invariant: a walk leaves the years that are asked about by a few
\* days at most.
TypeOK ==
  /\ query \in {"none", "next", "previous", "quarter"}
  /\ origin \in Int
  /\ day \in (Date(FirstYear, 1, 1) - 4)..(Date(LastYear, 12, 31) + 4)

\* No trading day lies between the day a loop was asked about and the day it
\* looks at, so previous_trading_day undoes next_trading_day on trading days and
\* no quarter expires before its last trading day.
NothingSkipped ==
  /\ query = "next" =>
       origin < day /\ \A d \in (origin + 1)..(day - 1) : ~IsTradingDay(d)
  /\ query = "previous" =>
       day < origin /\ \A d \in (day + 1)..(origin - 1) : ~IsTradingDay(d)
  /\ query = "quarter" =>
       day <= origin /\ \A d \in (day + 1)..origin : ~IsTradingDay(d)

\* However holidays and weekends meet, around Easter or at the turn of a year,
\* the market never closes for more than three days in a row.
ShortClosures == day - origin <= 4 /\ origin - day <= 4

\* In every year that a loop walks in, each rule closes the market on a day of
\* its own: the holidays are weekdays, they fall in the year is_holiday looks
\* them up in, and none coincide.  The one exception is the New Year's Day of a
\* Saturday, which no year lists, whatever the code's comment says of it (see
\* NewYear).
EveryHolidayCloses ==
  query # "none" =>
    LET y == YearOf(day)
        rules == IF y < 2022 THEN 9 ELSE 10
        lost  == IF Weekday(Date(y, 1, 1)) = SAT THEN 1 ELSE 0
    IN
    /\ \A h \in NyseHolidays(y) : Weekday(h) < SAT /\ YearOf(h) = y
    /\ Cardinality(NyseHolidays(y)) = rules - lost

\* The ecclesiastical full moon of a year, from its golden number and epact.
FullMoon(y) ==
  LET golden  == (y % 19) + 1
      century == y \div 100 + 1
      solar   == (3 * century) \div 4 - 12
      lunar   == (8 * century + 5) \div 25 - 5
      e       == (11 * golden + 20 + lunar - solar) % 30
      epact   == IF (e = 25 /\ golden > 11) \/ e = 24 THEN e + 1 ELSE e
      n       == 44 - epact
  IN Date(y, 3, 1) - 1 + (IF n < 21 THEN n + 30 ELSE n)

\* easter(year) is the Sunday that follows that full moon, in every year that a
\* loop walks in.
EasterFollowsFullMoon ==
  query # "none" =>
    LET y == YearOf(day) IN
    Weekday(Easter(y)) = SUN /\ Easter(y) - FullMoon(y) \in 1..7

=============================================================================
