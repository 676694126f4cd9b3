------------------------- MODULE MarketCalendarProofs -------------------------
(***************************************************************************)
(* Theorems about MarketCalendar, for any range of years: where the        *)
(* holidays of a year fall, that the market never closes for long, and     *)
(* what the walks therefore find.                                          *)
(***************************************************************************)
EXTENDS MarketCalendar, FiniteSetTheorems, TLAPS

-----------------------------------------------------------------------------
(* datetime.date and the rules *)

\* A holiday that is observed is observed on a weekday, at most a day away.
THEOREM ObservedOnWeekday ==
  ASSUME NEW d \in Int
  PROVE  Weekday(Observed(d)) < SAT /\ Observed(d) - d \in -1..1
BY DEF Observed, Weekday, SAT, SUN

LEMMA DateIsInt ==
  ASSUME NEW y \in Int, NEW m \in 1..12, NEW d \in Int
  PROVE  Date(y, m, d) \in Int
<1>1. DaysBefore(y, m) \in Int
  BY DEF DaysBefore
<1>. QED
  BY <1>1 DEF Date

LEMMA MonthEndIsInt ==
  ASSUME NEW y \in Int, NEW m \in 1..12
  PROVE  MonthEnd(y, m) \in Int
<1>1. CASE m = 12
  BY <1>1, DateIsInt DEF MonthEnd
<1>2. CASE m # 12
  <2>1. PICK n \in 1..12 : n = m + 1
    BY <1>2
  <2>2. 1 \in Int
    OBVIOUS
  <2>3. Date(y, n, 1) \in Int
    BY <2>2, DateIsInt, Zenon
  <2>4. MonthEnd(y, m) = Date(y, n, 1) - 1
    BY <1>2, <2>1 DEF MonthEnd
  <2>. QED
    BY <2>3, <2>4
<1>. QED
  BY <1>1, <1>2

\* The n-th Monday of a month is a Monday, and the n-th of them: it falls in the
\* n-th seven days.
THEOREM NthWeekdayIsNth ==
  ASSUME NEW y \in Int, NEW m \in 1..12, NEW w \in 0..6, NEW n \in 1..4
  PROVE  /\ Weekday(NthWeekday(y, m, w, n)) = w
         /\ NthWeekday(y, m, w, n) - Date(y, m, 1) \in (7 * (n - 1))..(7 * n - 1)
<1>. DEFINE first == Date(y, m, 1)
<1>1. first \in Int
  BY DateIsInt, 1 \in Int, Zenon
<1>. HIDE DEF first
<1>2. NthWeekday(y, m, w, n) = first + ((w - Weekday(first)) % 7) + 7 * (n - 1)
  BY DEF NthWeekday, first
<1>3. NthWeekday(y, m, w, n) - first \in (7 * (n - 1))..(7 * n - 1)
  BY <1>1, <1>2 DEF Weekday
<1>4. Weekday(NthWeekday(y, m, w, n)) = w
  BY <1>1, <1>2 DEF Weekday
<1>. QED
  BY <1>3, <1>4 DEF first

\* The last Monday of a month is a Monday of its last seven days.
THEOREM LastWeekdayIsLast ==
  ASSUME NEW y \in Int, NEW m \in 1..12, NEW w \in 0..6
  PROVE  /\ Weekday(LastWeekday(y, m, w)) = w
         /\ MonthEnd(y, m) - LastWeekday(y, m, w) \in 0..6
<1>. DEFINE last == MonthEnd(y, m)
<1>1. last \in Int
  BY MonthEndIsInt, Zenon
<1>. HIDE DEF last
<1>2. LastWeekday(y, m, w) = last - ((Weekday(last) - w) % 7)
  BY DEF LastWeekday, last
<1>. QED
  BY <1>1, <1>2 DEF Weekday, last

LeapDay(y) == IF Leap(y) THEN 1 ELSE 0

LEMMA LeapDayTyped == ASSUME NEW y \in Int PROVE LeapDay(y) \in 0..1
BY DEF LeapDay

LEMMA MonthStarts ==
  ASSUME NEW y \in Int, NEW d \in Int
  PROVE  /\ Date(y, 1, 1) \in Int /\ Date(y, 3, 1) \in Int
         /\ Date(y, 1, d) = Date(y, 1, 1) + d - 1
         /\ Date(y, 2, d) = Date(y, 1, 1) + 30 + d
         /\ Date(y, 3, d) = Date(y, 1, 1) + 58 + LeapDay(y) + d
         /\ Date(y, 3, d) = Date(y, 3, 1) + d - 1
         /\ Date(y, 4, d) = Date(y, 3, 1) + 30 + d
         /\ Date(y, 5, d) = Date(y, 3, 1) + 60 + d
         /\ Date(y, 6, d) = Date(y, 3, 1) + 91 + d
         /\ Date(y, 7, d) = Date(y, 3, 1) + 121 + d
         /\ Date(y, 9, d) = Date(y, 3, 1) + 183 + d
         /\ Date(y, 11, d) = Date(y, 3, 1) + 244 + d
         /\ Date(y, 12, d) = Date(y, 3, 1) + 274 + d
         /\ Date(y + 1, 1, 1) = Date(y, 3, 1) + 306
<1>. DEFINE p == y - 1
            whole == 365 * p + p \div 4 - p \div 100 + p \div 400
<1>1. whole \in Int
  OBVIOUS
<1>2. \A m \in 1..12 : Date(y, m, d) = whole + DaysBefore(y, m) + d
  BY DEF Date
<1>3. \A m \in 1..12 : Date(y, m, 1) = whole + DaysBefore(y, m) + 1
  BY DEF Date
<1>4. /\ DaysBefore(y, 1) = 0 /\ DaysBefore(y, 2) = 31
      /\ DaysBefore(y, 3) = 59 + LeapDay(y) /\ DaysBefore(y, 4) = 90 + LeapDay(y)
      /\ DaysBefore(y, 5) = 120 + LeapDay(y) /\ DaysBefore(y, 6) = 151 + LeapDay(y)
      /\ DaysBefore(y, 7) = 181 + LeapDay(y) /\ DaysBefore(y, 9) = 243 + LeapDay(y)
      /\ DaysBefore(y, 11) = 304 + LeapDay(y) /\ DaysBefore(y, 12) = 334 + LeapDay(y)
  BY DEF DaysBefore, LeapDay
<1>5. Date(y + 1, 1, 1) = whole + 366 + LeapDay(y)
  <2>1. (y \div 4) - (p \div 4) - ((y \div 100) - (p \div 100)) + (y \div 400) - (p \div 400) = LeapDay(y)
    BY DEF LeapDay, Leap
  <2>2. Date(y + 1, 1, 1) = 365 * y + y \div 4 - y \div 100 + y \div 400 + 1
    BY DEF Date, DaysBefore
  <2>. QED
    BY <2>1, <2>2
<1>. HIDE DEF whole
<1>. QED
  BY <1>1, <1>2, <1>3, <1>4, <1>5, LeapDayTyped

LEMMA YearsInOrder ==
  ASSUME NEW y \in Int, NEW z \in Int, y < z
  PROVE  Date(y + 1, 1, 1) <= Date(z, 1, 1)
BY DEF Date, DaysBefore

LEMMA QuotientAndRest ==
  ASSUME NEW x \in Int
  PROVE  /\ x \div 4 \in Int /\ x % 4 \in 0..3 /\ x = 4 * (x \div 4) + (x % 4)
         /\ x \div 7 \in Int /\ x % 7 \in 0..6 /\ x = 7 * (x \div 7) + (x % 7)
<1>1. x \div 4 \in Int /\ x \div 7 \in Int
  OBVIOUS
<1>2. x % 4 \in 0..3 /\ x % 7 \in 0..6
  OBVIOUS
<1>3. x = 4 * (x \div 4) + (x % 4)
  OBVIOUS
<1>4. x = 7 * (x \div 7) + (x % 7)
  OBVIOUS
<1>. QED
  BY <1>1, <1>2, <1>3, <1>4


\* The parts of the algorithm: golden number less one, days from the 21st of
\* March to the full moon, days from there to the Saturday before Easter.
Cycle(y)  == y % 19
MoonAge(y) ==
  LET b == y \div 100 IN
  (19 * (y % 19) + b - b \div 4 - ((b - (b + 8) \div 25 + 1) \div 3) + 15) % 30
ToSaturday(y) ==
  LET b == y \div 100   c == y % 100 IN
  (32 + 2 * (b % 4) + 2 * (c \div 4) - MoonAge(y) - (c % 4)) % 7
WeekBack(y) == (Cycle(y) + 11 * MoonAge(y) + 22 * ToSaturday(y)) \div 451

LEMMA EasterParts ==
  ASSUME NEW y \in Nat
  PROVE  /\ Cycle(y) \in 0..18 /\ MoonAge(y) \in 0..29 /\ ToSaturday(y) \in 0..6
         /\ WeekBack(y) =
              IF ToSaturday(y) = 6
                 /\ (MoonAge(y) = 29 \/ (MoonAge(y) = 28 /\ Cycle(y) > 10))
              THEN 1 ELSE 0
         /\ Easter(y) = Date(y, 3, 1) + 21 + MoonAge(y) + ToSaturday(y) - 7 * WeekBack(y)
<1>. DEFINE h == MoonAge(y)   l == ToSaturday(y)   m == WeekBack(y)
            n == h + l - 7 * m + 114
            d == (n % 31) + 1
<1>1. Cycle(y) \in 0..18 /\ h \in 0..29
  BY DEF Cycle, MoonAge
<1>2. l \in 0..6
  <2>. HIDE DEF h
  <2>1. \A x \in Int : x % 7 \in 0..6
    OBVIOUS
  <2>2. 32 + 2 * ((y \div 100) % 4) + 2 * ((y % 100) \div 4) - h - ((y % 100) % 4) \in Int
    BY <1>1
  <2>. QED
    BY <2>1, <2>2 DEF ToSaturday, h
<1>3. Easter(y) = Date(y, n \div 31, d)
  BY DEF Easter, Cycle, MoonAge, ToSaturday, WeekBack
<1>4. m = IF l = 6 /\ (h = 29 \/ (h = 28 /\ Cycle(y) > 10)) THEN 1 ELSE 0
  <2>. HIDE DEF h, l
  <2>1. m = (Cycle(y) + 11 * h + 22 * l) \div 451
    BY DEF WeekBack, h, l
  <2>. QED
    BY <1>1, <1>2, <2>1
<1>. HIDE DEF h, l, m
<1>5. n \in 107..149 /\ y \in Int /\ 1 \in Int
  BY <1>1, <1>2, <1>4
<1>6. Date(y, 3, 1) \in Int
  BY <1>5, MonthStarts
<1>7. Easter(y) = Date(y, 3, 1) + n - 93
  <2>. HIDE DEF n
  <2>1. CASE n \div 31 = 3
    <3>1. d = n - 92 /\ d \in Int
      BY <1>5, <2>1
    <3>. HIDE DEF d
    <3>2. Easter(y) = Date(y, 3, 1) + d - 1
      BY <1>3, <1>5, <2>1, <3>1, MonthStarts
    <3>. QED
      BY <1>5, <1>6, <3>1, <3>2
  <2>2. CASE n \div 31 = 4
    <3>1. d = n - 123 /\ d \in Int
      BY <1>5, <2>2
    <3>. HIDE DEF d
    <3>2. Easter(y) = Date(y, 3, 1) + 30 + d
      BY <1>3, <1>5, <2>2, <3>1, MonthStarts
    <3>. QED
      BY <1>5, <1>6, <3>1, <3>2
  <2>3. n \div 31 \in {3, 4}
    BY <1>5
  <2>. QED
    BY <2>1, <2>2, <2>3
<1>8. Easter(y) = Date(y, 3, 1) + 21 + h + l - 7 * m
  BY <1>1, <1>2, <1>4, <1>6, <1>7
<1>. QED
  BY <1>1, <1>2, <1>4, <1>8 DEF h, l, m

LEMMA EasterIsSunday ==
  ASSUME NEW y \in Nat
  PROVE  Weekday(Easter(y)) = SUN
<1>. DEFINE b == y \div 100   c == y % 100
            h == MoonAge(y)   l == ToSaturday(y)   m == WeekBack(y)
<1>1. /\ h \in 0..29 /\ l \in 0..6 /\ m \in 0..1
      /\ Easter(y) = Date(y, 3, 1) + 21 + h + l - 7 * m
  BY EasterParts
<1>2. l = (32 + 2 * (b % 4) + 2 * (c \div 4) - h - (c % 4)) % 7
  BY DEF ToSaturday
<1>. HIDE DEF h, l, m
<1>3. Date(y, 3, 1) = 365 * (y - 1) + y \div 4 - y \div 100 + y \div 400 + 60
  <2>1. Date(y, 3, 1) = 365 * (y - 1) + (y - 1) \div 4 - (y - 1) \div 100
                          + (y - 1) \div 400 + 60 + LeapDay(y)
    BY DEF Date, DaysBefore, LeapDay
  <2>2. (y - 1) \div 4 - (y - 1) \div 100 + (y - 1) \div 400 + LeapDay(y)
          = y \div 4 - y \div 100 + y \div 400
    BY DEF LeapDay, Leap
  <2>. QED
    BY <2>1, <2>2, LeapDayTyped
\* 21 weeks to a century and so on: y by centuries, leap years and years.
<1>4. PICK B \in Int, e \in 0..3, i \in 0..24, k \in 0..3 :
          /\ y = 400 * B + 100 * e + 4 * i + k
          /\ b = 4 * B + e /\ c = 4 * i + k
  <2>1. b \in Int /\ c \in 0..99 /\ y = 100 * b + c
    OBVIOUS
  <2>. HIDE DEF b, c
  <2>2. /\ b = 4 * (b \div 4) + (b % 4) /\ c = 4 * (c \div 4) + (c % 4)
        /\ b \div 4 \in Int /\ b % 4 \in 0..3 /\ c % 4 \in 0..3 /\ c \div 4 \in Int
    BY <2>1, QuotientAndRest
  <2>3. c \div 4 \in 0..24
    BY <2>1
  <2>. QED
    BY <2>1, <2>2, <2>3
<1>5. /\ y \div 4 = 100 * B + 25 * e + i /\ y \div 100 = 4 * B + e /\ y \div 400 = B
      /\ b % 4 = e /\ c \div 4 = i /\ c % 4 = k
  BY <1>4
<1>6. PICK q \in Int : l = 32 + 2 * e + 2 * i - h - k - 7 * q
  <2>1. 32 + 2 * e + 2 * i - h - k \in Int
    BY <1>1
  <2>2. PICK x \in Int : x = 32 + 2 * e + 2 * i - h - k
    BY <2>1
  <2>3. l = x % 7
    BY <1>2, <1>5, <2>2
  <2>4. x \div 7 \in Int /\ l = x - 7 * (x \div 7)
    BY <2>3, QuotientAndRest
  <2>5. l = 32 + 2 * e + 2 * i - h - k - 7 * (x \div 7)
    BY <1>1, <2>2, <2>4
  <2>. QED
    BY <2>4, <2>5, Zenon
<1>7. Easter(y) = 7 * (20871 * B + 5218 * e + 209 * i + 52 * k - q - 36 - m)
  BY <1>1, <1>3, <1>4, <1>5, <1>6
<1>. QED
  BY <1>1, <1>7 DEF Weekday, SUN

LEMMA EpactOfMoonAge ==
  ASSUME NEW y \in Nat
  PROVE  LET e == (11 * ((y % 19) + 1) + 20
                     + ((8 * (y \div 100 + 1) + 5) \div 25 - 5)
                     - ((3 * (y \div 100 + 1)) \div 4 - 12)) % 30
         IN  e = IF MoonAge(y) <= 23 THEN 23 - MoonAge(y) ELSE 53 - MoonAge(y)
<1>. DEFINE a == y % 19   b == y \div 100
<1>1. a \in 0..18 /\ b \in Int
  OBVIOUS
<1>2. MoonAge(y) = (19 * a + b - b \div 4 - ((b - (b + 8) \div 25 + 1) \div 3) + 15) % 30
  BY DEF MoonAge
<1>. HIDE DEF a, b
<1>3. (3 * (b + 1)) \div 4 = b - b \div 4
  BY <1>1
<1>4. (8 * (b + 1) + 5) \div 25 = (b - (b + 8) \div 25 + 1) \div 3
  BY <1>1
<1>5. PICK c \in Int : c = b - b \div 4 - ((b - (b + 8) \div 25 + 1) \div 3)
  BY <1>1
<1>6. MoonAge(y) = (19 * a + c + 15) % 30
  BY <1>1, <1>2, <1>5
<1>7. 11 * (a + 1) + 20 + ((8 * (b + 1) + 5) \div 25 - 5) - ((3 * (b + 1)) \div 4 - 12)
        = 11 * a + 38 - c
  BY <1>1, <1>3, <1>4, <1>5
<1>8. (11 * a + 38 - c) % 30 = IF MoonAge(y) <= 23 THEN 23 - MoonAge(y) ELSE 53 - MoonAge(y)
  BY <1>1, <1>6
<1>. QED
  BY <1>7, <1>8 DEF a, b

\* easter() agrees with the Gregorian computus in every year: the Sunday after the
\* full moon that the epact gives, whatever the correction terms do.
THEOREM EasterAfterFullMoon ==
  ASSUME NEW y \in Nat
  PROVE  Weekday(Easter(y)) = SUN /\ Easter(y) - FullMoon(y) \in 1..7
<1>. DEFINE h == MoonAge(y)   l == ToSaturday(y)   a == Cycle(y)
            e == IF h <= 23 THEN 23 - h ELSE 53 - h
            epact == IF (e = 25 /\ a + 1 > 11) \/ e = 24 THEN e + 1 ELSE e
            n == 44 - epact
<1>1. FullMoon(y) = Date(y, 3, 1) - 1 + (IF n < 21 THEN n + 30 ELSE n)
  BY EpactOfMoonAge DEF FullMoon, Cycle
<1>2. /\ a \in 0..18 /\ h \in 0..29 /\ l \in 0..6
      /\ WeekBack(y) =
              IF l = 6 /\ (h = 29 \/ (h = 28 /\ a > 10)) THEN 1 ELSE 0
      /\ Easter(y) = Date(y, 3, 1) + 21 + h + l - 7 * WeekBack(y)
  BY EasterParts
<1>3. Date(y, 3, 1) \in Int
  BY MonthStarts, 1 \in Int, y \in Int
<1>. HIDE DEF h, l, a
<1>4. Easter(y) - FullMoon(y) \in 1..7
  BY <1>1, <1>2, <1>3
<1>. QED
  BY <1>4, EasterIsSunday

-----------------------------------------------------------------------------
(* Years and holidays *)

LEMMA YearOfDay ==
  ASSUME NEW y \in Nat \ {0}, NEW n \in Int,
         Date(y, 1, 1) <= n, n < Date(y + 1, 1, 1)
  PROVE  YearOf(n) = y
<1>. DEFINE p == y - 1   whole == 365 * p + p \div 4 - p \div 100 + p \div 400
<1>1. Date(y, 1, 1) = whole + 1 /\ whole \in Int
  BY DEF Date, DaysBefore
<1>2. Date(y + 1, 1, 1) = 365 * y + y \div 4 - y \div 100 + y \div 400 + 1
  BY DEF Date, DaysBefore
<1>3. 365 * p < n /\ n < 366 * y
  BY <1>1, <1>2
<1>4. y \in (n \div 366 + 1)..(n \div 365 + 1)
  BY <1>3
<1>5. ASSUME NEW z \in Int, Date(z, 1, 1) <= n, n < Date(z + 1, 1, 1)
      PROVE  z = y
  <2>1. Date(y, 1, 1) \in Int /\ Date(z, 1, 1) \in Int
        /\ Date(y + 1, 1, 1) \in Int /\ Date(z + 1, 1, 1) \in Int
    <3>1. 1 \in Int /\ y + 1 \in Int /\ z + 1 \in Int /\ y \in Int
      BY <1>5
    <3>. QED
      BY <1>5, <3>1, MonthStarts
  <2>. QED
    BY <1>5, <2>1, YearsInOrder
<1>. QED
  BY <1>4, <1>5 DEF YearOf

LEMMA Divided ==
  ASSUME NEW x \in Nat, NEW k \in Nat \ {0}
  PROVE  \E q \in Nat, r \in Nat : x = k * q + r /\ r < k
<1>1. x \div k \in Nat /\ x % k \in Nat /\ x % k < k
  OBVIOUS
<1>2. x = k * (x \div k) + (x % k)
  OBVIOUS
<1>. QED
  BY <1>1, <1>2, Zenon

\* Whole periods of 400 years, 100 years, 4 years and a year, and days.
Assembly(q, c, f, g, d) == 146097 * q + 36524 * c + 1461 * f + 365 * g + d + 1

InOneYear(q, c, f, g, d) ==
  /\ q \in Nat /\ c \in 0..3 /\ f \in 0..24 /\ g \in 0..3 /\ d \in 0..365
  /\ d = 365 => g = 3 /\ (f < 24 \/ c = 3)

LEMMA Assembled ==
  ASSUME NEW q, NEW c, NEW f, NEW g, NEW d, InOneYear(q, c, f, g, d),
         NEW n, n = Assembly(q, c, f, g, d)
  PROVE  /\ YearOf(n) \in Nat \ {0}
         /\ Date(YearOf(n), 1, 1) <= n /\ n < Date(YearOf(n) + 1, 1, 1)
<1>. DEFINE p == 400 * q + 100 * c + 4 * f + g
            y == p + 1
<1>0. /\ q \in Nat /\ c \in 0..3 /\ f \in 0..24 /\ g \in 0..3 /\ d \in 0..365
      /\ d = 365 => g = 3 /\ (f < 24 \/ c = 3)
      /\ n \in Nat
  BY DEF InOneYear, Assembly
<1>1. p \in Nat /\ y \in Nat \ {0} /\ y - 1 = p /\ y + 1 - 1 = y
  BY <1>0
<1>2. p \div 4 = 100 * q + 25 * c + f /\ p \div 100 = 4 * q + c /\ p \div 400 = q
  BY <1>0
<1>3. Date(y, 1, 1) = 365 * p + p \div 4 - p \div 100 + p \div 400 + 1
  <2>. HIDE DEF p
  <2>. QED
    BY <1>0, <1>1 DEF Date, DaysBefore
<1>4. Date(y, 1, 1) <= n
  <2>. HIDE DEF y
  <2>. QED
    BY <1>0, <1>2, <1>3 DEF Assembly
<1>5. Date(y + 1, 1, 1) = 365 * y + y \div 4 - y \div 100 + y \div 400 + 1
  <2>. HIDE DEF y
  <2>. QED
    BY <1>0, <1>1 DEF Date, DaysBefore
<1>6. Date(y + 1, 1, 1) \in Int /\ y \div 4 \in Int /\ y \div 100 \in Int /\ y \div 400 \in Int
  <2>. HIDE DEF y
  <2>. QED
    BY <1>0, <1>1, <1>5
<1>7. /\ y \div 4 >= 100 * q + 25 * c + f /\ y \div 400 >= q
      /\ g = 3 => y \div 4 = 100 * q + 25 * c + f + 1
      /\ y \div 100 = IF g = 3 /\ f = 24 THEN 4 * q + c + 1 ELSE 4 * q + c
      /\ g = 3 /\ f = 24 /\ c = 3 => y \div 400 = q + 1
  <2>1. y \div 4 >= 100 * q + 25 * c + f /\ (g = 3 => y \div 4 = 100 * q + 25 * c + f + 1)
    BY <1>0
  <2>2. y \div 400 >= q /\ (g = 3 /\ f = 24 /\ c = 3 => y \div 400 = q + 1)
    BY <1>0
  <2>3. y \div 100 = IF g = 3 /\ f = 24 THEN 4 * q + c + 1 ELSE 4 * q + c
    BY <1>0
  <2>. QED
    BY <2>1, <2>2, <2>3
<1>8. n < Date(y + 1, 1, 1)
  <2>1. y = 400 * q + 100 * c + 4 * f + g + 1
    BY <1>0
  <2>. HIDE DEF y
  <2>. QED
    BY <1>0, <1>5, <1>6, <1>7, <2>1 DEF Assembly
<1>9. YearOf(n) = y
  <2>. HIDE DEF y
  <2>. QED
    BY <1>0, <1>1, <1>4, <1>8, YearOfDay
<1>. HIDE DEF y
<1>. QED
  BY <1>1, <1>4, <1>8, <1>9

LEMMA DayHasYear ==
  ASSUME NEW n \in Nat \ {0}
  PROVE  /\ YearOf(n) \in Nat \ {0}
         /\ Date(YearOf(n), 1, 1) <= n /\ n < Date(YearOf(n) + 1, 1, 1)
<1>. DEFINE eras == 146097   centuries == 36524   leaps == 1461   years == 365
<1>1. /\ eras \in Nat \ {0} /\ centuries \in Nat \ {0} /\ leaps \in Nat \ {0}
      /\ years \in Nat \ {0} /\ n - 1 \in Nat
  OBVIOUS
<1>. HIDE DEF eras, centuries, leaps, years
<1>2. PICK q \in Nat, r \in Nat : n - 1 = eras * q + r /\ r < eras
  BY <1>1, Divided
<1>3. PICK c \in Nat, s \in Nat : r = centuries * c + s /\ s < centuries
  BY <1>1, Divided
<1>4. PICK f \in Nat, t \in Nat : s = leaps * f + t /\ t < leaps
  BY <1>1, Divided
<1>5. PICK g \in Nat, d \in Nat : t = years * g + d /\ d < years
  BY <1>1, Divided
<1>6. n = Assembly(q, c, f, g, d)
  BY <1>2, <1>3, <1>4, <1>5 DEF Assembly, eras, centuries, leaps, years
<1>7. c < 4 \/ (c = 4 /\ f = 0 /\ g = 0 /\ d = 0)
  <2>1. r < 146097 /\ r = 36524 * c + s
    BY <1>2, <1>3 DEF eras, centuries
  <2>2. c < 4 \/ (c = 4 /\ s = 0)
    BY <2>1
  <2>3. s = 0 => f = 0 /\ t = 0
    BY <1>4 DEF leaps
  <2>4. t = 0 => g = 0 /\ d = 0
    BY <1>5 DEF years
  <2>. QED
    BY <2>2, <2>3, <2>4
<1>8. f < 25
  BY <1>3, <1>4 DEF centuries, leaps
<1>9. (g < 4 /\ d < 365) \/ (g = 4 /\ d = 0)
  BY <1>4, <1>5 DEF leaps, years
<1>10. g = 4 => f < 24
  BY <1>3, <1>4, <1>5 DEF centuries, leaps, years
<1>11. CASE c < 4 /\ g < 4
  <2>1. InOneYear(q, c, f, g, d)
    BY <1>8, <1>9, <1>11 DEF InOneYear
  <2>. QED
    BY <1>6, <2>1, Assembled, Zenon
<1>12. CASE c < 4 /\ g = 4
  <2>1. PICK e, z : e = 3 /\ z = 365
    OBVIOUS
  <2>2. InOneYear(q, c, f, e, z)
    BY <1>10, <1>12, <2>1 DEF InOneYear
  <2>3. n = Assembly(q, c, f, e, z)
    BY <1>6, <1>9, <1>12, <2>1 DEF Assembly
  <2>. QED
    BY <2>2, <2>3, Assembled, Zenon
<1>13. CASE c = 4
  <2>1. PICK b, h, e, z : b = 3 /\ h = 24 /\ e = 3 /\ z = 365
    OBVIOUS
  <2>2. InOneYear(q, b, h, e, z)
    BY <2>1 DEF InOneYear
  <2>3. n = Assembly(q, b, h, e, z)
    BY <1>6, <1>7, <1>13, <2>1 DEF Assembly
  <2>. QED
    BY <2>2, <2>3, Assembled, Zenon
<1>. QED
  BY <1>7, <1>9, <1>11, <1>12, <1>13

LEMMA MonthFirsts ==
  ASSUME NEW y \in Int
  PROVE  /\ Date(y, 2, 1) = Date(y, 1, 1) + 31
         /\ Date(y, 3, 1) = Date(y, 1, 1) + 59 + LeapDay(y)
         /\ Date(y, 6, 1) = Date(y, 3, 1) + 92
         /\ Date(y, 9, 1) = Date(y, 3, 1) + 184
         /\ Date(y, 11, 1) = Date(y, 3, 1) + 245
         /\ Date(y + 1, 1, 1) = Date(y, 3, 1) + 306
<1>1. PICK d \in Int : d = 1
  OBVIOUS
<1>2. /\ Date(y, 1, 1) \in Int /\ Date(y, 3, 1) \in Int
      /\ Date(y, 2, d) = Date(y, 1, 1) + 30 + d
      /\ Date(y, 3, d) = Date(y, 1, 1) + 58 + LeapDay(y) + d
      /\ Date(y, 6, d) = Date(y, 3, 1) + 91 + d
      /\ Date(y, 9, d) = Date(y, 3, 1) + 183 + d
      /\ Date(y, 11, d) = Date(y, 3, 1) + 244 + d
      /\ Date(y + 1, 1, 1) = Date(y, 3, 1) + 306
  BY MonthStarts
<1>. QED
  BY <1>1, <1>2, LeapDayTyped

LEMMA IntegerDays ==
  ASSUME NEW y \in Int, NEW m \in 1..12, NEW w \in 0..6, NEW n \in 1..4
  PROVE  NthWeekday(y, m, w, n) \in Int /\ LastWeekday(y, m, w) \in Int
<1>1. 1 \in Int /\ w \in Int
  OBVIOUS
<1>2. Date(y, m, 1) \in Int /\ MonthEnd(y, m) \in Int
  BY <1>1, DateIsInt, MonthEndIsInt, Zenon
<1>3. Weekday(Date(y, m, 1)) \in Int /\ Weekday(MonthEnd(y, m)) \in Int
  BY <1>2 DEF Weekday
<1>. QED
  BY <1>2, <1>3 DEF NthWeekday, LastWeekday

\* The holidays of a year in their order, each within its window.
MartinLuther(y) == NthWeekday(y, 1, MON, 3)
Washington(y)   == NthWeekday(y, 2, MON, 3)
GoodFriday(y)   == Easter(y) - 2
Memorial(y)     == LastWeekday(y, 5, MON)
Juneteenth(y)   == Observed(Date(y, 6, 19))
Independence(y) == Observed(Date(y, 7, 4))
Labor(y)        == NthWeekday(y, 9, MON, 1)
Thanksgiving(y) == NthWeekday(y, 11, THU, 4)
Christmas(y)    == Observed(Date(y, 12, 25))

LEMMA HolidayWindows ==
  ASSUME NEW y \in Nat \ {0}
  PROVE  LET j == Date(y, 1, 1)
             m == Date(y, 3, 1)
         IN  /\ j \in Int /\ m \in Int /\ m - j \in 59..60
             /\ Date(y + 1, 1, 1) = m + 306
             /\ MartinLuther(y) \in (j + 14)..(j + 20) /\ Weekday(MartinLuther(y)) < SAT
             /\ Washington(y) \in (j + 45)..(j + 51) /\ Weekday(Washington(y)) < SAT
             /\ GoodFriday(y) \in (m + 19)..(m + 53) /\ Weekday(GoodFriday(y)) < SAT
             /\ Memorial(y) \in (m + 85)..(m + 91) /\ Weekday(Memorial(y)) < SAT
             /\ Juneteenth(y) \in (m + 109)..(m + 111) /\ Weekday(Juneteenth(y)) < SAT
             /\ Independence(y) \in (m + 124)..(m + 126) /\ Weekday(Independence(y)) < SAT
             /\ Labor(y) \in (m + 184)..(m + 190) /\ Weekday(Labor(y)) < SAT
             /\ Thanksgiving(y) \in (m + 266)..(m + 272) /\ Weekday(Thanksgiving(y)) < SAT
             /\ Christmas(y) \in (m + 298)..(m + 300) /\ Weekday(Christmas(y)) < SAT
<1>. DEFINE j == Date(y, 1, 1)   m == Date(y, 3, 1)
<1>1. y \in Int /\ 1 \in Int /\ 4 \in Int /\ 19 \in Int /\ 25 \in Int
  OBVIOUS
<1>2. j \in Int /\ m \in Int
  BY <1>1, MonthStarts
<1>3. m - j \in 59..60 /\ Date(y + 1, 1, 1) = m + 306
  <2>1. m = j + 59 + LeapDay(y) /\ Date(y + 1, 1, 1) = m + 306
    BY <1>1, MonthFirsts
  <2>2. LeapDay(y) \in 0..1
    BY <1>1, LeapDayTyped
  <2>. HIDE DEF j, m
  <2>. QED
    BY <1>2, <2>1, <2>2
<1>4. /\ Date(y, 2, 1) = j + 31 /\ Date(y, 6, 1) = m + 92
      /\ Date(y, 9, 1) = m + 184 /\ Date(y, 11, 1) = m + 245
  BY <1>1, MonthFirsts
<1>5. Date(y, 6, 19) = m + 110
  BY <1>1, <1>2, MonthStarts
<1>6. Date(y, 7, 4) = m + 125
  BY <1>1, <1>2, MonthStarts
<1>7. Date(y, 12, 25) = m + 299
  BY <1>1, <1>2, MonthStarts
<1>8. MonthEnd(y, 5) = m + 91
  BY <1>2, <1>4 DEF MonthEnd
<1>9. /\ 1 \in 1..12 /\ 2 \in 1..12 /\ 5 \in 1..12 /\ 9 \in 1..12 /\ 11 \in 1..12
      /\ MON \in 0..6 /\ THU \in 0..6 /\ 1 \in 1..4 /\ 3 \in 1..4 /\ 4 \in 1..4
      /\ MON < SAT /\ THU < SAT
  BY DEF MON, THU, SAT
<1>10. MartinLuther(y) \in (j + 14)..(j + 20) /\ Weekday(MartinLuther(y)) < SAT
  <2>1. /\ Weekday(MartinLuther(y)) = MON
        /\ MartinLuther(y) - j \in (7 * (3 - 1))..(7 * 3 - 1)
    BY <1>1, <1>9, NthWeekdayIsNth DEF MartinLuther
  <2>2. MartinLuther(y) \in Int
    BY <1>1, <1>9, IntegerDays DEF MartinLuther
  <2>. QED
    BY <1>2, <1>9, <2>1, <2>2
<1>11. Washington(y) \in (j + 45)..(j + 51) /\ Weekday(Washington(y)) < SAT
  <2>1. /\ Weekday(Washington(y)) = MON
        /\ Washington(y) - Date(y, 2, 1) \in (7 * (3 - 1))..(7 * 3 - 1)
    BY <1>1, <1>9, NthWeekdayIsNth DEF Washington
  <2>2. Washington(y) \in Int
    BY <1>1, <1>2, <1>4, <1>9, IntegerDays DEF Washington
  <2>. QED
    BY <1>2, <1>4, <1>9, <2>1, <2>2
<1>12. GoodFriday(y) \in (m + 19)..(m + 53) /\ Weekday(GoodFriday(y)) < SAT
  <2>1. Weekday(Easter(y)) = SUN
    BY EasterIsSunday
  <2>2. Easter(y) \in (m + 21)..(m + 55) /\ Easter(y) \in Int
    BY <1>2, EasterParts
  <2>. QED
    BY <1>2, <2>1, <2>2 DEF GoodFriday, Weekday, SUN, SAT
<1>13. Memorial(y) \in (m + 85)..(m + 91) /\ Weekday(Memorial(y)) < SAT
  <2>1. Weekday(Memorial(y)) = MON /\ MonthEnd(y, 5) - Memorial(y) \in 0..6
    BY <1>1, <1>9, LastWeekdayIsLast DEF Memorial
  <2>2. Memorial(y) \in Int
    BY <1>1, <1>9, IntegerDays DEF Memorial
  <2>. QED
    BY <1>2, <1>8, <1>9, <2>1, <2>2
<1>14. \A d \in Int : Observed(d) \in Int /\ Observed(d) - d \in -1..1 /\ Weekday(Observed(d)) < SAT
  BY ObservedOnWeekday DEF Observed
<1>15. Juneteenth(y) \in (m + 109)..(m + 111) /\ Weekday(Juneteenth(y)) < SAT
  BY <1>2, <1>5, <1>14 DEF Juneteenth
<1>16. Independence(y) \in (m + 124)..(m + 126) /\ Weekday(Independence(y)) < SAT
  BY <1>2, <1>6, <1>14 DEF Independence
<1>17. Labor(y) \in (m + 184)..(m + 190) /\ Weekday(Labor(y)) < SAT
  <2>1. /\ Weekday(Labor(y)) = MON
        /\ Labor(y) - Date(y, 9, 1) \in (7 * (1 - 1))..(7 * 1 - 1)
    BY <1>1, <1>9, NthWeekdayIsNth DEF Labor
  <2>2. Labor(y) \in Int
    BY <1>1, <1>9, IntegerDays DEF Labor
  <2>. QED
    BY <1>2, <1>4, <1>9, <2>1, <2>2
<1>18. Thanksgiving(y) \in (m + 266)..(m + 272) /\ Weekday(Thanksgiving(y)) < SAT
  <2>1. /\ Weekday(Thanksgiving(y)) = THU
        /\ Thanksgiving(y) - Date(y, 11, 1) \in (7 * (4 - 1))..(7 * 4 - 1)
    BY <1>1, <1>9, NthWeekdayIsNth DEF Thanksgiving
  <2>2. Thanksgiving(y) \in Int
    BY <1>1, <1>9, IntegerDays DEF Thanksgiving
  <2>. QED
    BY <1>2, <1>4, <1>9, <2>1, <2>2
<1>19. Christmas(y) \in (m + 298)..(m + 300) /\ Weekday(Christmas(y)) < SAT
  BY <1>2, <1>7, <1>14 DEF Christmas
<1>. QED
  BY <1>2, <1>3, <1>10, <1>11, <1>12, <1>13, <1>15, <1>16, <1>17, <1>18, <1>19

LEMMA YearStart ==
  ASSUME NEW y \in Nat \ {0}
  PROVE  Date(y, 1, 1) \in Nat \ {0} /\ (y > 1 => Date(y, 1, 1) > 365)
BY DEF Date, DaysBefore

\* The New Year's Day of a Saturday is observed by nobody.
LEMMA NewYearObserved ==
  ASSUME NEW y \in Nat \ {0}
  PROVE  LET j == Date(y, 1, 1)
             s == Observed(j)
         IN  /\ j \in Nat
             /\ NewYear(y) = IF Weekday(j) = SAT THEN {} ELSE {s}
             /\ Weekday(j) # SAT =>
                  s \in j..(j + 1) /\ Weekday(s) < SAT /\ YearOf(s) = y
<1>. DEFINE j == Date(y, 1, 1)   s == Observed(j)   z == Date(y + 1, 1, 1)
<1>1. j \in Nat \ {0} /\ z \in Int /\ z > j + 300
  <2>1. /\ j \in Int /\ Date(y, 3, 1) \in Int /\ Date(y, 3, 1) - j \in 59..60
        /\ z = Date(y, 3, 1) + 306
    BY HolidayWindows
  <2>2. j \in Nat \ {0}
    BY YearStart
  <2>. HIDE DEF j, z
  <2>. QED
    BY <2>1, <2>2
<1>2. CASE Weekday(j) = SAT
  <2>1. j # 1 /\ s = j - 1
    BY <1>2 DEF Observed, Weekday, SAT
  <2>. HIDE DEF j, s
  <2>2. s \in Nat \ {0} /\ s < j
    BY <1>1, <2>1
  <2>3. YearOf(s) # y
    <3>1. Date(YearOf(s), 1, 1) <= s
      BY <2>2, DayHasYear
    <3>. QED
      BY <1>1, <2>2, <3>1 DEF j
  <2>4. NewYear(y) = {}
    BY <2>3 DEF NewYear, s, j
  <2>. QED
    BY <1>1, <1>2, <2>4 DEF s, j
<1>3. CASE Weekday(j) # SAT
  <2>1. s \in j..(j + 1) /\ Weekday(s) < SAT
    <3>. HIDE DEF j
    <3>. QED
      BY <1>1, <1>3 DEF Observed, Weekday, SAT, SUN
  <2>. HIDE DEF s
  <2>2. YearOf(s) = y
    <3>1. s \in Int /\ j <= s /\ s < z
      BY <1>1, <2>1
    <3>. QED
      BY <3>1, YearOfDay
  <2>3. NewYear(y) = {s}
    BY <2>2 DEF NewYear, s
  <2>. QED
    BY <1>1, <1>3, <2>1, <2>2, <2>3 DEF s
<1>. QED
  BY <1>2, <1>3

LEMMA HolidayList ==
  ASSUME NEW y
  PROVE  NyseHolidays(y) =
           NewYear(y)
             \cup {MartinLuther(y), Washington(y), GoodFriday(y), Memorial(y),
                   Independence(y), Labor(y), Thanksgiving(y), Christmas(y)}
             \cup (IF y >= 2022 THEN {Juneteenth(y)} ELSE {})
BY DEF NyseHolidays, MartinLuther, Washington, GoodFriday, Memorial, Juneteenth,
       Independence, Labor, Thanksgiving, Christmas

LEMMA HolidaysInYear ==
  ASSUME NEW y \in Nat \ {0}, NEW h \in NyseHolidays(y)
  PROVE  /\ h \in Int /\ Date(y, 1, 1) <= h /\ h + 6 <= Date(y + 1, 1, 1)
         /\ Weekday(h) < SAT /\ YearOf(h) = y
<1>1. /\ h \in Int /\ Date(y, 1, 1) <= h /\ h + 6 <= Date(y + 1, 1, 1)
      /\ Weekday(h) < SAT
  <2>. DEFINE j == Date(y, 1, 1)   m == Date(y, 3, 1)
  <2>1. /\ j \in Int /\ m \in Int /\ m - j \in 59..60 /\ Date(y + 1, 1, 1) = m + 306
    BY HolidayWindows
  <2>2. CASE h \in NewYear(y)
    <3>1. h \in j..(j + 1) /\ Weekday(h) < SAT
      BY <2>2, NewYearObserved
    <3>. HIDE DEF j, m
    <3>2. h + 6 <= m + 306
      BY <2>1, <3>1
    <3>. QED
      BY <2>1, <3>1, <3>2 DEF j
  <2>3. CASE h \notin NewYear(y)
    <3>1. /\ Weekday(h) < SAT
          /\ h \in (j + 14)..(j + 51) \/ h \in (m + 19)..(m + 300)
      <4>1. /\ MartinLuther(y) \in (j + 14)..(j + 20) /\ Weekday(MartinLuther(y)) < SAT
            /\ Washington(y) \in (j + 45)..(j + 51) /\ Weekday(Washington(y)) < SAT
            /\ GoodFriday(y) \in (m + 19)..(m + 53) /\ Weekday(GoodFriday(y)) < SAT
            /\ Memorial(y) \in (m + 85)..(m + 91) /\ Weekday(Memorial(y)) < SAT
            /\ Juneteenth(y) \in (m + 109)..(m + 111) /\ Weekday(Juneteenth(y)) < SAT
            /\ Independence(y) \in (m + 124)..(m + 126) /\ Weekday(Independence(y)) < SAT
            /\ Labor(y) \in (m + 184)..(m + 190) /\ Weekday(Labor(y)) < SAT
            /\ Thanksgiving(y) \in (m + 266)..(m + 272) /\ Weekday(Thanksgiving(y)) < SAT
            /\ Christmas(y) \in (m + 298)..(m + 300) /\ Weekday(Christmas(y)) < SAT
        BY HolidayWindows
      <4>2. h \in {MartinLuther(y), Washington(y), GoodFriday(y), Memorial(y), Juneteenth(y),
                   Independence(y), Labor(y), Thanksgiving(y), Christmas(y)}
        BY <2>3, HolidayList
      <4>. HIDE DEF j, m
      <4>. QED
        BY <2>1, <4>1, <4>2
    <3>. HIDE DEF j, m
    <3>2. j <= h /\ h + 6 <= m + 306 /\ h \in Int
      BY <2>1, <3>1
    <3>. QED
      BY <2>1, <3>1, <3>2 DEF j
  <2>. QED
    BY <2>2, <2>3
<1>2. YearOf(h) = y
  <2>1. Date(y + 1, 1, 1) \in Int
    BY HolidayWindows
  <2>2. h < Date(y + 1, 1, 1)
    BY <1>1, <2>1
  <2>. QED
    BY <1>1, <2>2, YearOfDay
<1>. QED
  BY <1>1, <1>2

\* Two holidays of a year are at least five days apart.
LEMMA HolidaysOfAYearApart ==
  ASSUME NEW y \in Nat \ {0}, NEW a \in NyseHolidays(y), NEW b \in NyseHolidays(y), a < b
  PROVE  a + 5 <= b
<1>. DEFINE j == Date(y, 1, 1)   m == Date(y, 3, 1)
<1>1. /\ j \in Int /\ m \in Int /\ m - j \in 59..60
      /\ MartinLuther(y) \in (j + 14)..(j + 20) /\ Washington(y) \in (j + 45)..(j + 51)
      /\ GoodFriday(y) \in (m + 19)..(m + 53) /\ Memorial(y) \in (m + 85)..(m + 91)
      /\ Juneteenth(y) \in (m + 109)..(m + 111) /\ Independence(y) \in (m + 124)..(m + 126)
      /\ Labor(y) \in (m + 184)..(m + 190) /\ Thanksgiving(y) \in (m + 266)..(m + 272)
      /\ Christmas(y) \in (m + 298)..(m + 300)
  BY HolidayWindows
<1>2. PICK s \in j..(j + 1) : \A d \in NewYear(y) : d = s
  BY <1>1, NewYearObserved
<1>3. \A d \in NyseHolidays(y) :
        d \in {s, MartinLuther(y), Washington(y), GoodFriday(y), Memorial(y), Juneteenth(y),
               Independence(y), Labor(y), Thanksgiving(y), Christmas(y)}
  BY <1>2, HolidayList
<1>. HIDE DEF j, m
<1>. QED
  BY <1>1, <1>2, <1>3

\* So are two holidays of different years.
LEMMA HolidaysApart ==
  ASSUME NEW a \in Nat \ {0}, NEW b \in Nat \ {0}, a < b,
         a \in NyseHolidays(YearOf(a)), b \in NyseHolidays(YearOf(b))
  PROVE  a + 5 <= b
<1>. DEFINE y == YearOf(a)   z == YearOf(b)
<1>1. /\ y \in Nat \ {0} /\ Date(y, 1, 1) <= a /\ a < Date(y + 1, 1, 1)
      /\ z \in Nat \ {0} /\ Date(z, 1, 1) <= b /\ b < Date(z + 1, 1, 1)
  BY DayHasYear
<1>2. /\ Date(y, 1, 1) \in Int /\ Date(y + 1, 1, 1) \in Int
      /\ Date(z, 1, 1) \in Int /\ Date(z + 1, 1, 1) \in Int
  BY <1>1, HolidayWindows
<1>3. CASE y = z
  BY <1>1, <1>3, HolidaysOfAYearApart
<1>4. CASE y < z
  <2>1. a + 6 <= Date(y + 1, 1, 1)
    BY <1>1, HolidaysInYear
  <2>2. Date(y + 1, 1, 1) <= Date(z, 1, 1)
    BY <1>1, <1>4, YearsInOrder
  <2>. QED
    BY <1>1, <1>2, <2>1, <2>2
<1>5. CASE z < y
  <2>1. Date(z + 1, 1, 1) <= Date(y, 1, 1)
    BY <1>1, <1>5, YearsInOrder
  <2>. QED
    BY <1>1, <1>2, <2>1
<1>. QED
  BY <1>1, <1>3, <1>4, <1>5

\* Of any four days in a row the market opens on one: a weekend takes two of them,
\* and the weekdays among them cannot all be holidays.
THEOREM OpenWithinFourDays ==
  ASSUME NEW d \in Nat \ {0}
  PROVE  \E i \in 0..3 : IsTradingDay(d + i)
<1>1. PICK a \in 0..3, b \in 0..3 : a < b /\ Weekday(d + a) < SAT /\ Weekday(d + b) < SAT
  <2>1. Weekday(d) \in 0..6
    BY DEF Weekday
  <2>2. /\ Weekday(d) <= 3 => Weekday(d + 1) = Weekday(d) + 1
        /\ Weekday(d) = 4 => Weekday(d + 3) = 0
        /\ Weekday(d) = 5 => Weekday(d + 2) = 0 /\ Weekday(d + 3) = 1
        /\ Weekday(d) = 6 => Weekday(d + 1) = 0 /\ Weekday(d + 2) = 1
    BY DEF Weekday
  <2>3. Weekday(d + 0) = Weekday(d)
    BY DEF Weekday
  <2>4. 0 \in 0..3 /\ 1 \in 0..3 /\ 2 \in 0..3 /\ 3 \in 0..3
    OBVIOUS
  <2>5. CASE Weekday(d) <= 3
    BY <2>1, <2>2, <2>3, <2>4, <2>5 DEF SAT
  <2>6. CASE Weekday(d) = 4
    BY <2>1, <2>2, <2>3, <2>4, <2>6 DEF SAT
  <2>7. CASE Weekday(d) = 5
    BY <2>1, <2>2, <2>4, <2>7 DEF SAT
  <2>8. CASE Weekday(d) = 6
    BY <2>1, <2>2, <2>4, <2>8 DEF SAT
  <2>. QED
    BY <2>1, <2>5, <2>6, <2>7, <2>8
<1>2. d + a \in Nat \ {0} /\ d + b \in Nat \ {0} /\ d + a < d + b /\ d + b < d + a + 5
  BY <1>1
<1>3. ~(/\ d + a \in NyseHolidays(YearOf(d + a))
        /\ d + b \in NyseHolidays(YearOf(d + b)))
  <2>1. PICK e, f : e = d + a /\ f = d + b
    OBVIOUS
  <2>. QED
    BY <1>2, <2>1, HolidaysApart
<1>4. IsTradingDay(d + a) \/ IsTradingDay(d + b)
  BY <1>1, <1>3 DEF IsTradingDay
<1>. QED
  BY <1>4

\* A finite set of k days, none after n.
Counted(S, k, n) ==
  IsFiniteSet(S) /\ Cardinality(S) = k /\ k \in Nat /\ \A h \in S : h \in Int /\ h <= n

LEMMA CountOneMore ==
  ASSUME NEW S, NEW k, NEW n \in Int, NEW h \in Int, n < h, Counted(S, k, n)
  PROVE  Counted(S \cup {h}, k + 1, h)
<1>1. h \notin S
  BY DEF Counted
<1>2. IsFiniteSet(S \cup {h}) /\ Cardinality(S \cup {h}) = k + 1
  BY <1>1, FS_AddElement DEF Counted
<1>. QED
  BY <1>2 DEF Counted

\* The ten rules of a year give ten days, or nine without Juneteenth, less the New
\* Year's Day of a Saturday.
LEMMA HolidaysCounted ==
  ASSUME NEW y \in Nat \ {0}
  PROVE  Cardinality(NyseHolidays(y)) =
           (IF y < 2022 THEN 9 ELSE 10)
             - (IF Weekday(Date(y, 1, 1)) = SAT THEN 1 ELSE 0)
<1>. DEFINE j == Date(y, 1, 1)   m == Date(y, 3, 1)
            k == IF Weekday(j) = SAT THEN 0 ELSE 1
            A == NewYear(y) \cup {MartinLuther(y)}
            B == A \cup {Washington(y)}
            C == B \cup {GoodFriday(y)}
            D == C \cup {Memorial(y)}
            E == IF y >= 2022 THEN D \cup {Juneteenth(y)} ELSE D
            e == IF y >= 2022 THEN k + 5 ELSE k + 4
            F == E \cup {Independence(y)}
            G == F \cup {Labor(y)}
            H == G \cup {Thanksgiving(y)}
            I == H \cup {Christmas(y)}
<1>1. /\ j \in Int /\ m \in Int /\ m - j \in 59..60
      /\ MartinLuther(y) \in (j + 14)..(j + 20) /\ Washington(y) \in (j + 45)..(j + 51)
      /\ GoodFriday(y) \in (m + 19)..(m + 53) /\ Memorial(y) \in (m + 85)..(m + 91)
      /\ Juneteenth(y) \in (m + 109)..(m + 111) /\ Independence(y) \in (m + 124)..(m + 126)
      /\ Labor(y) \in (m + 184)..(m + 190) /\ Thanksgiving(y) \in (m + 266)..(m + 272)
      /\ Christmas(y) \in (m + 298)..(m + 300)
  BY HolidayWindows
<1>2. Counted(NewYear(y), k, j + 1)
  <2>1. CASE Weekday(j) = SAT
    <3>1. NewYear(y) = {}
      BY <2>1, NewYearObserved
    <3>. QED
      BY <2>1, <3>1, FS_EmptySet DEF Counted
  <2>2. CASE Weekday(j) # SAT
    <3>1. NewYear(y) = {Observed(j)} /\ Observed(j) \in j..(j + 1)
      BY <2>2, NewYearObserved
    <3>2. IsFiniteSet({Observed(j)}) /\ Cardinality({Observed(j)}) = 1
      BY FS_Singleton
    <3>. HIDE DEF j
    <3>. QED
      BY <1>1, <2>2, <3>1, <3>2 DEF Counted
  <2>. QED
    BY <2>1, <2>2
<1>3. NyseHolidays(y) = I
  BY HolidayList
<1>4. /\ MartinLuther(y) \in Int /\ Washington(y) \in Int /\ GoodFriday(y) \in Int
      /\ Memorial(y) \in Int /\ Juneteenth(y) \in Int /\ Independence(y) \in Int
      /\ Labor(y) \in Int /\ Thanksgiving(y) \in Int /\ Christmas(y) \in Int
      /\ j + 1 < MartinLuther(y) /\ MartinLuther(y) < Washington(y)
      /\ Washington(y) < GoodFriday(y) /\ GoodFriday(y) < Memorial(y)
      /\ Memorial(y) < Juneteenth(y) /\ Juneteenth(y) < Independence(y)
      /\ Independence(y) < Labor(y) /\ Labor(y) < Thanksgiving(y)
      /\ Thanksgiving(y) < Christmas(y) /\ Memorial(y) < Independence(y)
      /\ j + 1 \in Int /\ k \in 0..1
  <2>. HIDE DEF j, m
  <2>. QED
    BY <1>1
<1>. HIDE DEF j, m, k
<1>5. Counted(A, k + 1, MartinLuther(y))
  BY <1>2, <1>4, CountOneMore
<1>. HIDE DEF A
<1>6. Counted(B, k + 1 + 1, Washington(y))
  BY <1>4, <1>5, CountOneMore
<1>. HIDE DEF B
<1>7. Counted(C, k + 1 + 1 + 1, GoodFriday(y))
  BY <1>4, <1>6, CountOneMore
<1>. HIDE DEF C
<1>8. Counted(D, k + 1 + 1 + 1 + 1, Memorial(y))
  BY <1>4, <1>7, CountOneMore
<1>. HIDE DEF D
<1>9. Counted(F, e + 1, Independence(y))
  <2>1. CASE y >= 2022
    <3>1. Counted(E, k + 1 + 1 + 1 + 1 + 1, Juneteenth(y))
      BY <1>4, <1>8, <2>1, CountOneMore
    <3>2. e = k + 1 + 1 + 1 + 1 + 1
      BY <1>4, <2>1
    <3>. HIDE DEF E, e
    <3>. QED
      BY <1>4, <3>1, <3>2, CountOneMore
  <2>2. CASE ~(y >= 2022)
    <3>1. E = D /\ e = k + 1 + 1 + 1 + 1
      BY <1>4, <2>2
    <3>. HIDE DEF E, e
    <3>. QED
      BY <1>4, <1>8, <3>1, CountOneMore
  <2>. QED
    BY <2>1, <2>2
<1>. HIDE DEF F
<1>10. Counted(G, e + 1 + 1, Labor(y))
  <2>. HIDE DEF e
  <2>. QED
    BY <1>4, <1>9, CountOneMore
<1>. HIDE DEF G
<1>11. Counted(H, e + 1 + 1 + 1, Thanksgiving(y))
  <2>. HIDE DEF e
  <2>. QED
    BY <1>4, <1>10, CountOneMore
<1>. HIDE DEF H
<1>12. Counted(I, e + 1 + 1 + 1 + 1, Christmas(y))
  <2>. HIDE DEF e
  <2>. QED
    BY <1>4, <1>11, CountOneMore
<1>. HIDE DEF I
<1>13. Cardinality(I) = e + 4
  BY <1>4, <1>12 DEF Counted
<1>. QED
  BY <1>3, <1>4, <1>13 DEF j, k

\* In every year, each rule of nyse_holidays closes the market on a weekday of its
\* own in that year, except for a New Year on a Saturday.
THEOREM HolidaysCloseInAnyYear ==
  ASSUME NEW y \in Nat \ {0}
  PROVE  /\ \A h \in NyseHolidays(y) : Weekday(h) < SAT /\ YearOf(h) = y
         /\ Cardinality(NyseHolidays(y)) =
              (IF y < 2022 THEN 9 ELSE 10)
                - (IF Weekday(Date(y, 1, 1)) = SAT THEN 1 ELSE 0)
BY HolidaysInYear, HolidaysCounted

-----------------------------------------------------------------------------
(* The walks *)

\* The bounds that the walks stay between.
DaysTyped ==
  /\ Date(FirstYear, 1, 1) \in Nat /\ Date(LastYear, 12, 31) \in Nat
  /\ 365 < Date(FirstYear, 1, 1) /\ Date(FirstYear, 1, 1) <= Date(LastYear, 12, 31)

LEMMA DaysAreTyped == DaysTyped
<1>1. /\ FirstYear \in Nat \ {0} /\ LastYear \in Nat \ {0} /\ FirstYear > 1
      /\ FirstYear <= LastYear
  BY CalendarAssumption
<1>2. Date(FirstYear, 1, 1) \in Nat /\ 365 < Date(FirstYear, 1, 1)
  BY <1>1, YearStart
<1>3. PICK d \in Int : d = 31
  OBVIOUS
<1>4. Date(LastYear, 12, d) = Date(LastYear, 3, 1) + 274 + d
  BY <1>1, MonthStarts
<1>5. /\ Date(LastYear, 1, 1) \in Int /\ Date(LastYear, 3, 1) \in Int
      /\ Date(LastYear, 3, 1) - Date(LastYear, 1, 1) \in 59..60
  BY <1>1, HolidayWindows
<1>6. Date(FirstYear, 1, 1) <= Date(LastYear, 1, 1)
  <2>1. CASE FirstYear = LastYear
    BY <1>2, <2>1
  <2>2. CASE FirstYear < LastYear
    <3>1. Date(FirstYear + 1, 1, 1) <= Date(LastYear, 1, 1)
      BY <1>1, <2>2, YearsInOrder
    <3>2. /\ Date(FirstYear, 3, 1) \in Int /\ Date(FirstYear, 1, 1) \in Int
          /\ Date(FirstYear, 3, 1) - Date(FirstYear, 1, 1) \in 59..60
          /\ Date(FirstYear + 1, 1, 1) = Date(FirstYear, 3, 1) + 306
      BY <1>1, HolidayWindows
    <3>. QED
      BY <1>5, <3>1, <3>2
  <2>. QED
    BY <1>1, <2>1, <2>2
<1>7. Date(LastYear, 12, 31) = Date(LastYear, 3, 1) + 305
  BY <1>3, <1>4, <1>5
<1>. QED
  BY <1>2, <1>5, <1>6, <1>7 DEF DaysTyped

\* The last day of a quarter of those years is one of their days.
LEMMA QuarterEnds ==
  ASSUME NEW y \in FirstYear..LastYear, NEW m \in QuarterMonths
  PROVE  MonthEnd(y, m) \in Days
<1>. DEFINE j == Date(y, 1, 1)   n == Date(y, 3, 1)   z == Date(y + 1, 1, 1)
<1>1. y \in Nat \ {0} /\ FirstYear \in Nat \ {0} /\ LastYear \in Nat \ {0}
  BY CalendarAssumption
<1>2. j \in Int /\ n \in Int /\ n - j \in 59..60 /\ z = n + 306
  BY <1>1, HolidayWindows
<1>3. MonthEnd(y, m) \in j..(z - 1)
  <2>1. PICK d \in Int, e \in Int : d = 1 /\ e = 31
    OBVIOUS
  <2>2. /\ Date(y, 4, d) = n + 30 + d /\ Date(y, 7, d) = n + 121 + d
        /\ Date(y, 12, e) = n + 274 + e
    BY <1>1, <2>1, MonthStarts
  <2>3. Date(y, 10, 1) = n + 214
    <3>1. Date(y, 10, 1) = Date(y, 9, 1) + 30
      BY <1>1 DEF Date, DaysBefore
    <3>. QED
      BY <1>1, <1>2, <3>1, MonthFirsts
  <2>. HIDE DEF j, n, z
  <2>4. CASE m = 3
    BY <1>2, <2>1, <2>2, <2>4 DEF MonthEnd
  <2>5. CASE m = 6
    BY <1>2, <2>1, <2>2, <2>5 DEF MonthEnd
  <2>6. CASE m = 9
    BY <1>2, <2>3, <2>6 DEF MonthEnd
  <2>7. CASE m = 12
    BY <1>2, <2>1, <2>2, <2>7 DEF MonthEnd
  <2>. QED
    BY <2>4, <2>5, <2>6, <2>7 DEF QuarterMonths
<1>4. Date(FirstYear, 1, 1) <= j
  <2>1. CASE y = FirstYear
    BY <1>2, <2>1
  <2>2. CASE FirstYear < y
    <3>1. Date(FirstYear + 1, 1, 1) <= j
      BY <1>1, <2>2, YearsInOrder
    <3>2. /\ Date(FirstYear, 3, 1) \in Int /\ Date(FirstYear, 1, 1) \in Int
          /\ Date(FirstYear, 3, 1) - Date(FirstYear, 1, 1) \in 59..60
          /\ Date(FirstYear + 1, 1, 1) = Date(FirstYear, 3, 1) + 306
      BY <1>1, HolidayWindows
    <3>. HIDE DEF j
    <3>. QED
      BY <1>2, <3>1, <3>2
  <2>. QED
    BY <1>1, <2>1, <2>2
<1>5. z <= Date(LastYear, 12, 31) + 1
  <2>1. PICK e \in Int : e = 31
    OBVIOUS
  <2>2. /\ Date(LastYear, 12, e) = Date(LastYear, 3, 1) + 274 + e
        /\ Date(LastYear, 3, 1) \in Int
        /\ Date(LastYear + 1, 1, 1) = Date(LastYear, 3, 1) + 306
    BY <1>1, MonthStarts
  <2>3. Date(LastYear, 12, 31) = Date(LastYear, 3, 1) + 305
    BY <2>1, <2>2
  <2>4. CASE y = LastYear
    BY <2>2, <2>3, <2>4
  <2>5. CASE y < LastYear
    <3>1. z <= Date(LastYear, 1, 1)
      BY <1>1, <2>5, YearsInOrder
    <3>2. /\ Date(LastYear, 1, 1) \in Int
          /\ Date(LastYear, 3, 1) - Date(LastYear, 1, 1) \in 59..60
      BY <1>1, HolidayWindows
    <3>. HIDE DEF z
    <3>. QED
      BY <1>2, <2>2, <2>3, <3>1, <3>2
  <2>. QED
    BY <1>1, <2>4, <2>5
<1>6. Date(FirstYear, 1, 1) \in Int /\ Date(LastYear, 12, 31) \in Int
  BY DaysAreTyped DEF DaysTyped
<1>. HIDE DEF j, z, n
<1>. QED
  BY <1>2, <1>3, <1>4, <1>5, <1>6 DEF Days

\* A walk starts from a day that is asked about; between walks the last answer is
\* at most four days from them.
WalkInv ==
  /\ query \in {"none", "next", "previous", "quarter"}
  /\ query = "none" =>
       /\ origin = day
       /\ day \in (Date(FirstYear, 1, 1) - 4)..(Date(LastYear, 12, 31) + 4)
  /\ query # "none" => origin \in Days
  /\ day \in Int
  /\ NothingSkipped

\* Were the walk longer, it would have passed four days in a row and one of them open.
LEMMA WalksAreShort ==
  ASSUME WalkInv
  PROVE  ShortClosures /\ TypeOK /\ day \in Nat \ {0}
<1>1. DaysTyped
  BY DaysAreTyped
<1>2. CASE query = "none"
  BY <1>1, <1>2 DEF WalkInv, ShortClosures, TypeOK, DaysTyped
<1>3. CASE query # "none"
  <2>1. origin \in Nat \ {0} /\ origin > 365 /\ day \in Int /\ origin \in Days
    BY <1>1, <1>3 DEF WalkInv, Days, DaysTyped
  <2>2. day - origin <= 4 /\ origin - day <= 4
    <3>1. CASE query = "next"
      <4>1. PICK i \in 0..3 : IsTradingDay(origin + 1 + i)
        BY <2>1, OpenWithinFourDays
      <4>2. ~(origin + 1 + i \in (origin + 1)..(day - 1)) /\ origin < day
        BY <3>1, <4>1 DEF WalkInv, NothingSkipped
      <4>. QED
        BY <2>1, <4>2
    <3>2. CASE query = "previous"
      <4>1. PICK i \in 0..3 : IsTradingDay(origin - 4 + i)
        BY <2>1, OpenWithinFourDays
      <4>2. ~(origin - 4 + i \in (day + 1)..(origin - 1)) /\ day < origin
        BY <3>2, <4>1 DEF WalkInv, NothingSkipped
      <4>. QED
        BY <2>1, <4>2
    <3>3. CASE query = "quarter"
      <4>1. PICK i \in 0..3 : IsTradingDay(origin - 3 + i)
        BY <2>1, OpenWithinFourDays
      <4>2. ~(origin - 3 + i \in (day + 1)..origin) /\ day <= origin
        BY <3>3, <4>1 DEF WalkInv, NothingSkipped
      <4>. QED
        BY <2>1, <4>2
    <3>. QED
      BY <1>3, <3>1, <3>2, <3>3 DEF WalkInv
  <2>. QED
    BY <1>1, <2>1, <2>2 DEF WalkInv, ShortClosures, TypeOK, Days, DaysTyped
<1>. QED
  BY <1>2, <1>3

LEMMA WalkInvInit == Init => WalkInv
BY DaysAreTyped DEF Init, Days, WalkInv, NothingSkipped, DaysTyped

LEMMA WalkInvStep ==
  ASSUME WalkInv, [Next]_vars
  PROVE  WalkInv'
<1>. USE DaysAreTyped DEF DaysTyped
<1>1. CASE AskNext
  BY <1>1 DEF AskNext, WalkInv, NothingSkipped, Days
<1>2. CASE AskPrevious
  BY <1>2 DEF AskPrevious, WalkInv, NothingSkipped, Days
<1>3. CASE AskQuarter
  <2>1. PICK y \in FirstYear..LastYear, m \in QuarterMonths :
          query' = "quarter" /\ origin' = MonthEnd(y, m) /\ day' = MonthEnd(y, m)
    BY <1>3 DEF AskQuarter
  <2>2. MonthEnd(y, m) \in Days
    BY QuarterEnds
  <2>3. MonthEnd(y, m) \in Int
    BY <2>2 DEF Days
  <2>. QED
    BY <2>1, <2>2, <2>3 DEF WalkInv, NothingSkipped, Days
<1>4. CASE Walk
  <2>. USE <1>4 DEF Walk, Step, WalkInv
  <2>1. day' \in Int /\ query' = query /\ origin' = origin /\ query # "none"
    OBVIOUS
  <2>2. NothingSkipped'
    <3>1. origin \in Int /\ day \in Int
      BY DEF Days
    <3>2. CASE query = "next"
      BY <3>1, <3>2 DEF NothingSkipped
    <3>3. CASE query = "previous"
      BY <3>1, <3>3 DEF NothingSkipped
    <3>4. CASE query = "quarter"
      BY <3>1, <3>4 DEF NothingSkipped
    <3>. QED
      BY <2>1, <3>2, <3>3, <3>4
  <2>. QED
    BY <2>1, <2>2 DEF Days
<1>5. CASE Answer
  BY <1>5, WalksAreShort DEF Answer, WalkInv, NothingSkipped, TypeOK
<1>6. CASE UNCHANGED vars
  BY <1>6 DEF vars, WalkInv, NothingSkipped, Days
<1>. QED
  BY <1>1, <1>2, <1>3, <1>4, <1>5, <1>6 DEF Next

LEMMA WalksKeepIt == Spec => []WalkInv
<1>1. WalkInv /\ [Next]_vars => WalkInv'
  BY WalkInvStep
<1>. QED
  BY <1>1, WalkInvInit, PTL DEF Spec

\* In any range of years, and whatever the holidays are, no loop passes a
\* trading day by.
THEOREM WalksSkipNothing == Spec => []NothingSkipped
<1>1. WalkInv => NothingSkipped
  BY DEF WalkInv
<1>. QED
  BY <1>1, WalksKeepIt, PTL

\* In any range of years a walk ends within four days, so that it stays around the
\* years that are asked about.
THEOREM WalksEndSoon == Spec => []ShortClosures
<1>1. WalkInv => ShortClosures
  BY WalksAreShort
<1>. QED
  BY <1>1, WalksKeepIt, PTL

\* The type invariant of the calendar.
THEOREM WalksStayNear == Spec => []TypeOK
<1>1. WalkInv => TypeOK
  BY WalksAreShort
<1>. QED
  BY <1>1, WalksKeepIt, PTL

\* In every year that is asked about or walked into, the rules close the market on
\* weekdays of that year, and no two on the same day.
THEOREM HolidaysAlwaysClose == Spec => []EveryHolidayCloses
<1>1. ASSUME WalkInv PROVE EveryHolidayCloses
  <2>1. day \in Nat \ {0}
    BY <1>1, WalksAreShort
  <2>2. YearOf(day) \in Nat \ {0}
    BY <2>1, DayHasYear
  <2>. QED
    BY <2>2, HolidaysCloseInAnyYear DEF EveryHolidayCloses
<1>. QED
  BY <1>1, WalksKeepIt, PTL

\* In every such year Easter is the Sunday after the ecclesiastical full moon.
THEOREM EasterAlwaysFollows == Spec => []EasterFollowsFullMoon
<1>1. ASSUME WalkInv PROVE EasterFollowsFullMoon
  <2>1. day \in Nat \ {0}
    BY <1>1, WalksAreShort
  <2>2. YearOf(day) \in Nat
    BY <2>1, DayHasYear
  <2>. QED
    BY <2>2, EasterAfterFullMoon DEF EasterFollowsFullMoon
<1>. QED
  BY <1>1, WalksKeepIt, PTL

=============================================================================
