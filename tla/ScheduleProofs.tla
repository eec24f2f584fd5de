---------------------------- MODULE ScheduleProofs ----------------------------
(***************************************************************************)
(* Proofs about Schedule: the calendar, the walk of next_cron_after and    *)
(* what next_after returns, for every expression and clock reading.        *)
(***************************************************************************)
EXTENDS Schedule, WellFoundedInduction, TLAPS

-----------------------------------------------------------------------------
(* Least elements.                                                         *)

\* A nonempty set of naturals has a least element.
LEMMA LeastExists ==
    ASSUME NEW S \in SUBSET Nat, S # {}
    PROVE  \E x \in S : \A y \in S : x <= y
<1> DEFINE R == OpToRel(<, Nat)
<1>1. IsWellFoundedOn(R, Nat)
    BY NatLessThanWellFounded
<1> HIDE DEF R
<1>2. PICK x \in S : \A y \in S : ~ (<<y, x>> \in R)
    BY <1>1, WFMin
<1>3. \A y \in S : y < x => <<y, x>> \in R
    BY Zenon DEF R, OpToRel
<1>4. \A y \in S : ~ (y < x)
    BY <1>2, <1>3, Zenon
<1> QED BY <1>4

\* Least picks it.
LEMMA LeastIn ==
    ASSUME NEW S \in SUBSET Nat, S # {}
    PROVE  Least(S) \in S /\ \A y \in S : Least(S) <= y
BY LeastExists, Zenon DEF Least

-----------------------------------------------------------------------------
(* The calendar.                                                           *)

Years == {y \in Nat : y >= 1970}

\* Years follow each other without gap or overlap.
LEMMA YearStep ==
    ASSUME NEW y \in Years
    PROVE  /\ y + 1 \in Years
           /\ YearStart(y) \in Nat
           /\ YearStart(y + 1) = YearStart(y) + (IF LeapYear(y) THEN 366 ELSE 365)
<1>1. y \in Nat /\ y >= 1970 /\ y + 1 \in Years
    BY SMT DEF Years
<1>2. (y \div 4) - ((y - 1) \div 4) = IF y % 4 = 0 THEN 1 ELSE 0
    BY <1>1, SMT
<1>3. (y \div 100) - ((y - 1) \div 100) = IF y % 100 = 0 THEN 1 ELSE 0
    BY <1>1, SMT
<1>4. (y \div 400) - ((y - 1) \div 400) = IF y % 400 = 0 THEN 1 ELSE 0
    BY <1>1, SMT
<1>5. (y % 400 = 0 => y % 100 = 0) /\ (y % 100 = 0 => y % 4 = 0)
    BY <1>1, SMT
<1>6. LeapsBefore(y) \in Int /\ LeapsBefore(y + 1) \in Int
    BY <1>1, SMT DEF LeapsBefore
<1>7. LeapsBefore(y + 1) - LeapsBefore(y) = IF LeapYear(y) THEN 1 ELSE 0
  <2>1. LeapsBefore(y + 1) = (y \div 4) - (y \div 100) + (y \div 400)
    BY <1>1, SMT DEF LeapsBefore
  <2>2. LeapsBefore(y) = ((y - 1) \div 4) - ((y - 1) \div 100) + ((y - 1) \div 400)
    BY DEF LeapsBefore
  <2> QED BY <1>1, <1>2, <1>3, <1>4, <1>5, <2>1, <2>2, SMT DEF LeapYear
<1>8. LeapsBefore(1970) \in Int
    BY SMT DEF LeapsBefore
<1>9. YearStart(y + 1) = YearStart(y) + (IF LeapYear(y) THEN 366 ELSE 365)
    BY <1>1, <1>6, <1>7, <1>8, SMT DEF YearStart
<1>10. YearStart(y) \in Nat
    BY <1>1, SMT DEF YearStart, LeapsBefore
<1> QED BY <1>1, <1>9, <1>10

\* The year of a day lies between the day number over 366 and over 365.
LEMMA YearBounds ==
    ASSUME NEW y \in Years
    PROVE  /\ 365 * (y - 1970) <= YearStart(y)
           /\ YearStart(y) <= 366 * (y - 1970)
BY SMT DEF Years, YearStart, LeapsBefore

\* The first day of 1970 is day 0.
LEMMA FirstYear == YearStart(1970) = 0 /\ 1970 \in Years
BY SMT DEF YearStart, Years, LeapsBefore

\* An earlier year has ended when a later one starts.
LEMMA YearOrder ==
    ASSUME NEW y \in Years, NEW z \in Years, y < z
    PROVE  YearStart(y + 1) <= YearStart(z)
BY SMT DEF Years, YearStart, LeapsBefore

\* Every day lies in a year.
LEMMA YearExists ==
    ASSUME NEW day \in Nat
    PROVE  \E y \in Years : /\ y \in 1970 + (day \div 366) .. 1970 + (day \div 365)
                            /\ YearStart(y) <= day /\ day < YearStart(y + 1)
<1> DEFINE S == {y \in Years : day < YearStart(y + 1)}
           top == 1970 + (day \div 365)
<1>1. top \in Years /\ top + 1 \in Years
    BY SMT DEF Years
<1>2. day < 365 * (top + 1 - 1970)
    BY SMT
<1>3. YearStart(top + 1) \in Nat
    BY <1>1, YearStep
<1>4. 365 * (top + 1 - 1970) <= YearStart(top + 1)
    BY <1>1, YearBounds
<1>5. top \in Nat /\ 365 * (top + 1 - 1970) \in Int
    BY SMT
<1>6. top \in S
    BY <1>1, <1>2, <1>3, <1>4, <1>5, SMT
<1>7. S \in SUBSET Nat /\ S # {}
  <2>1. Years \subseteq Nat
    BY DEF Years
  <2> HIDE DEF top
  <2> QED BY <1>6, <2>1
<1>8. PICK y \in S : \A z \in S : y <= z
    <2> HIDE DEF S
    <2> QED BY <1>7, LeastExists
<1>9. y \in Years /\ day < YearStart(y + 1) /\ y <= top /\ y \in Nat /\ y >= 1970
    BY <1>6, <1>8 DEF Years
<1>10. YearStart(y) \in Nat /\ YearStart(y + 1) \in Nat /\ y + 1 \in Years
    BY <1>9, YearStep
<1>11. YearStart(y) <= day
  <2>1. CASE y = 1970
    BY <2>1, FirstYear, SMT
  <2>2. CASE y # 1970
    <3>1. y - 1 \in Years /\ (y - 1) + 1 = y
      BY <1>9, <2>2, SMT DEF Years
    <3>2. ~ (y - 1 \in S)
      BY <1>8, <1>9, SMT
    <3>3. ~ (day < YearStart(y))
      BY <3>1, <3>2
    <3> QED BY <3>3, <1>10
  <2> QED BY <2>1, <2>2
<1>12. YearStart(y + 1) <= 366 * ((y + 1) - 1970)
  <2> DEFINE z == y + 1
  <2>1. z \in Years
    BY <1>10
  <2> HIDE DEF z
  <2>2. YearStart(z) <= 366 * (z - 1970)
    BY <2>1, YearBounds
  <2> QED BY <2>2 DEF z
<1>13. 1970 + (day \div 366) <= y
    BY <1>9, <1>10, <1>12, SMT
<1> QED BY <1>9, <1>11, <1>13, SMT

\* YearOf is that year, and there is only one.
LEMMA YearOfIs ==
    ASSUME NEW day \in Nat, NEW y \in Years, YearStart(y) <= day, day < YearStart(y + 1)
    PROVE  YearOf(day) = y
<1>1. PICK z \in Years : /\ z \in 1970 + (day \div 366) .. 1970 + (day \div 365)
                         /\ YearStart(z) <= day /\ day < YearStart(z + 1)
    BY YearExists
<1>2. ASSUME NEW u \in Years, NEW v \in Years, YearStart(u) <= day, day < YearStart(u + 1),
             YearStart(v) <= day, day < YearStart(v + 1)
      PROVE  ~ (u < v)
  <2>1. YearStart(u + 1) \in Nat /\ YearStart(v) \in Nat
    BY YearStep
  <2>2. SUFFICES ASSUME u < v PROVE FALSE
    OBVIOUS
  <2>3. YearStart(u + 1) <= YearStart(v)
    BY <2>2, YearOrder
  <2> QED BY <1>2, <2>1, <2>3
<1>3. ASSUME NEW u \in Years, NEW v \in Years, YearStart(u) <= day, day < YearStart(u + 1),
             YearStart(v) <= day, day < YearStart(v + 1)
      PROVE  u = v
  <2>1. ~ (u < v) /\ ~ (v < u)
    BY <1>2, <1>3
  <2> QED BY <2>1, SMT DEF Years
<1> DEFINE w == YearOf(day)
           R == 1970 + (day \div 366) .. 1970 + (day \div 365)
<1>4. /\ w \in 1970 + (day \div 366) .. 1970 + (day \div 365)
      /\ YearStart(w) <= day /\ day < YearStart(w + 1)
  <2>1. w = CHOOSE x \in R : YearStart(x) <= day /\ day < YearStart(x + 1)
    BY DEF YearOf
  <2>2. z \in R /\ YearStart(z) <= day /\ day < YearStart(z + 1)
    BY <1>1
  <2> HIDE DEF w, R
  <2>3. w \in R /\ YearStart(w) <= day /\ day < YearStart(w + 1)
    BY <2>1, <2>2, Zenon
  <2> QED BY <2>3, SMT DEF R
<1> HIDE DEF w, R
<1>5. w \in Years
    BY <1>4, SMT DEF Years
<1>6. w = y
    BY <1>3, <1>4, <1>5
<1> QED BY <1>6 DEF w

LeapDay(y) == IF LeapYear(y) THEN 1 ELSE 0
YearLength(y) == 365 + LeapDay(y)

\* The first day of each month, counted from the first of the year.
LEMMA MonthTable ==
    ASSUME NEW y
    PROVE  /\ LeapDay(y) \in {0, 1}
           /\ MonthStart(y, 1) = 0 /\ MonthStart(y, 2) = 31
           /\ MonthStart(y, 3) = 59 + LeapDay(y) /\ MonthStart(y, 4) = 90 + LeapDay(y)
           /\ MonthStart(y, 5) = 120 + LeapDay(y) /\ MonthStart(y, 6) = 151 + LeapDay(y)
           /\ MonthStart(y, 7) = 181 + LeapDay(y) /\ MonthStart(y, 8) = 212 + LeapDay(y)
           /\ MonthStart(y, 9) = 243 + LeapDay(y) /\ MonthStart(y, 10) = 273 + LeapDay(y)
           /\ MonthStart(y, 11) = 304 + LeapDay(y) /\ MonthStart(y, 12) = 334 + LeapDay(y)
           /\ MonthStart(y, 13) = YearLength(y)
BY SMT DEF MonthStart, LeapDay, DaysBeforeMonth, YearLength

\* Months follow each other within the year.
LEMMA MonthOrder ==
    ASSUME NEW y, NEW m \in 1 .. 12, NEW n \in 1 .. 13, m < n
    PROVE  MonthStart(y, m) \in Nat /\ MonthStart(y, n) \in Nat /\ MonthStart(y, m + 1) \in Nat
           /\ MonthStart(y, m + 1) <= MonthStart(y, n)
           /\ MonthStart(y, m) < MonthStart(y, m + 1)
           /\ MonthStart(y, n) <= YearLength(y)
<1>1. m \in {1, 2, 3, 4, 5, 6, 7, 8, 9, 10, 11, 12}
    BY SMT
<1>2. n \in {1, 2, 3, 4, 5, 6, 7, 8, 9, 10, 11, 12, 13}
    BY SMT
<1> QED BY <1>1, <1>2, MonthTable, SMT DEF YearLength

\* Every day of a year lies in a month.
LEMMA MonthExists ==
    ASSUME NEW y, NEW doy \in 0 .. YearLength(y) - 1
    PROVE  \E m \in 1 .. 12 : MonthStart(y, m) <= doy /\ doy < MonthStart(y, m + 1)
<1>1. /\ 1 + 1 = 2 /\ 2 + 1 = 3 /\ 3 + 1 = 4 /\ 4 + 1 = 5 /\ 5 + 1 = 6 /\ 6 + 1 = 7
      /\ 7 + 1 = 8 /\ 8 + 1 = 9 /\ 9 + 1 = 10 /\ 10 + 1 = 11 /\ 11 + 1 = 12 /\ 12 + 1 = 13
    OBVIOUS
<1> QED BY <1>1, MonthTable, SMT DEF YearLength

\* Only one month holds a day.
LEMMA MonthUnique ==
    ASSUME NEW y, NEW doy \in Nat, NEW m \in 1 .. 12, NEW n \in 1 .. 12,
           MonthStart(y, m) <= doy, doy < MonthStart(y, m + 1),
           MonthStart(y, n) <= doy, doy < MonthStart(y, n + 1)
    PROVE  m = n
<1>1. ASSUME NEW u \in 1 .. 12, NEW v \in 1 .. 12, u < v,
             doy < MonthStart(y, u + 1), MonthStart(y, v) <= doy
      PROVE  FALSE
    BY <1>1, MonthOrder, SMT
<1>2. ~ (m < n) /\ ~ (n < m)
    BY <1>1
<1> QED BY <1>2, SMT

\* The day number of a date.
DayNumber(y, mo, d) == YearStart(y) + MonthStart(y, mo) + d - 1

MonthLength(y, mo) == MonthStart(y, mo + 1) - MonthStart(y, mo)

\* CivilDate inverts DayNumber: a day number has the date it was made from.
THEOREM CalendarInverse ==
    ASSUME NEW y \in Years, NEW mo \in 1 .. 12, NEW d \in 1 .. MonthLength(y, mo)
    PROVE  /\ DayNumber(y, mo, d) \in Nat
           /\ CivilDate(DayNumber(y, mo, d)) =
                 [year |-> y, month |-> mo, day |-> d,
                  weekday |-> (DayNumber(y, mo, d) + 4) % 7]
<1> DEFINE day == DayNumber(y, mo, d)
           doy == day - YearStart(y)
<1>1. /\ YearStart(y) \in Nat /\ YearStart(y + 1) = YearStart(y) + YearLength(y)
      /\ YearLength(y) \in Nat
    BY YearStep, SMT DEF YearLength, LeapDay
<1>2. /\ MonthStart(y, mo) \in Nat /\ MonthStart(y, mo + 1) \in Nat
      /\ MonthStart(y, mo) < MonthStart(y, mo + 1) /\ MonthStart(y, mo + 1) <= YearLength(y)
  <2>1. mo + 1 \in 1 .. 13 /\ mo < mo + 1
    OBVIOUS
  <2> QED BY <2>1, MonthOrder
<1>3. d \in 1 .. MonthStart(y, mo + 1) - MonthStart(y, mo)
    BY DEF MonthLength
<1>4. /\ day \in Nat /\ doy = MonthStart(y, mo) + d - 1 /\ doy \in Nat
      /\ MonthStart(y, mo) <= doy /\ doy < MonthStart(y, mo + 1)
      /\ YearStart(y) <= day /\ day < YearStart(y + 1)
    BY <1>1, <1>2, <1>3, SMT DEF DayNumber
<1> HIDE DEF day
<1>5. YearOf(day) = y
    BY <1>4, YearOfIs
<1> HIDE DEF doy
<1> DEFINE cm == CHOOSE m \in 1 .. 12 : MonthStart(y, m) <= doy /\ doy < MonthStart(y, m + 1)
<1>6. cm = mo
  <2>1. cm \in 1 .. 12 /\ MonthStart(y, cm) <= doy /\ doy < MonthStart(y, cm + 1)
    BY <1>4, Zenon
  <2> HIDE DEF cm
  <2> QED BY <2>1, <1>4, MonthUnique
<1>7. CivilDate(day) = [year |-> y, month |-> cm, day |-> doy - MonthStart(y, cm) + 1,
                        weekday |-> (day + 4) % 7]
    BY <1>5 DEF CivilDate, doy
<1> HIDE DEF cm
<1>8. doy - MonthStart(y, mo) + 1 = d
    BY <1>2, <1>3, <1>4, SMT
<1>9. CivilDate(day) = [year |-> y, month |-> mo, day |-> d, weekday |-> (day + 4) % 7]
    BY <1>6, <1>7, <1>8
<1> QED BY <1>4, <1>9 DEF day

\* Every day number is the number of a date, so no day lacks its fields.
THEOREM CalendarTotal ==
    ASSUME NEW day \in Nat
    PROVE  \E y \in Years, mo \in 1 .. 12 : \E d \in 1 .. MonthLength(y, mo) :
              day = DayNumber(y, mo, d)
<1>1. PICK y \in Years : YearStart(y) <= day /\ day < YearStart(y + 1)
    BY YearExists
<1>2. /\ YearStart(y) \in Nat /\ YearStart(y + 1) = YearStart(y) + YearLength(y)
      /\ YearLength(y) \in Nat
    BY YearStep, SMT DEF YearLength, LeapDay
<1> DEFINE doy == day - YearStart(y)
<1>3. doy \in 0 .. YearLength(y) - 1
    BY <1>1, <1>2, SMT
<1> HIDE DEF doy
<1>4. PICK mo \in 1 .. 12 : MonthStart(y, mo) <= doy /\ doy < MonthStart(y, mo + 1)
    BY <1>3, MonthExists
<1>5. MonthStart(y, mo) \in Nat /\ MonthStart(y, mo + 1) \in Nat
  <2>1. mo + 1 \in 1 .. 13 /\ mo < mo + 1
    OBVIOUS
  <2> QED BY <2>1, MonthOrder
<1> DEFINE d == doy - MonthStart(y, mo) + 1
<1>6. d \in 1 .. MonthLength(y, mo)
    BY <1>3, <1>4, <1>5, SMT DEF MonthLength
<1>7. day = DayNumber(y, mo, d)
    BY <1>2, <1>3, <1>5, SMT DEF DayNumber, doy
<1> QED BY <1>6, <1>7

-----------------------------------------------------------------------------
(* The walk of next_cron_after.                                            *)

Window(now0) == SearchStart(now0) .. SearchStart(now0) + SearchMinutes - 1
OnDay(c, now0, day) == {1440 * day + hm : hm \in MatchingMinutes(c)} \cap Window(now0)
Hit(c, now0, day) == DayMatches(c, day) /\ OnDay(c, now0, day) # {}
Days(now0) == SearchStart(now0) \div 1440 .. (SearchStart(now0) + SearchMinutes - 1) \div 1440

DayMinutes == 0 .. 1439

\* A minute of the day is an hour and a minute.
LEMMA MinuteOfDay ==
    ASSUME NEW c, NEW hm \in DayMinutes
    PROVE  hm \in MatchingMinutes(c) <=>
              c.minute \in {Star, hm % 60} /\ c.hour \in {Star, hm \div 60}
<1>1. hm \div 60 \in 0 .. 23 /\ hm % 60 \in 0 .. 59 /\ hm = 60 * (hm \div 60) + (hm % 60)
    BY SMT DEF DayMinutes
<1>2. \A h \in 0 .. 23, m \in 0 .. 59 : hm = 60 * h + m => h = hm \div 60 /\ m = hm % 60
    BY SMT DEF DayMinutes
<1>3. hm \in MatchingMinutes(c) <=>
          \E h \in {h \in 0 .. 23 : FieldMatches(c.hour, h)} :
             \E m \in {m \in 0 .. 59 : FieldMatches(c.minute, m)} : hm = 60 * h + m
    BY DEF MatchingMinutes
<1>4. ASSUME hm \in MatchingMinutes(c)
      PROVE  c.minute \in {Star, hm % 60} /\ c.hour \in {Star, hm \div 60}
  <2>1. PICK h \in 0 .. 23, m \in 0 .. 59 :
            FieldMatches(c.hour, h) /\ FieldMatches(c.minute, m) /\ hm = 60 * h + m
    BY <1>3, <1>4
  <2>2. h = hm \div 60 /\ m = hm % 60
    BY <1>2, <2>1
  <2> QED BY <2>1, <2>2 DEF FieldMatches
<1>5. ASSUME c.minute \in {Star, hm % 60}, c.hour \in {Star, hm \div 60}
      PROVE  hm \in MatchingMinutes(c)
  <2>1. FieldMatches(c.hour, hm \div 60) /\ FieldMatches(c.minute, hm % 60)
    BY <1>5 DEF FieldMatches
  <2> QED BY <2>1, <1>1, <1>3
<1> QED BY <1>4, <1>5

\* What the walk tests at a minute is a test of the day and one of the time.
LEMMA MatchesSplit ==
    ASSUME NEW c, NEW k \in Nat
    PROVE  MatchesAt(c, k) <=> DayMatches(c, k \div 1440) /\ k % 1440 \in MatchingMinutes(c)
<1> DEFINE hm == k % 1440
           day == k \div 1440
<1>1. hm \in DayMinutes
    BY SMT DEF DayMinutes
<1>2. MatchesAt(c, k) <=> /\ c.minute \in {Star, hm % 60} /\ c.hour \in {Star, hm \div 60}
                          /\ DayMatches(c, day)
    BY DEF MatchesAt, DayMatches, FieldMatches
<1> HIDE DEF hm, day
<1>3. hm \in MatchingMinutes(c) <=>
          c.minute \in {Star, hm % 60} /\ c.hour \in {Star, hm \div 60}
    BY <1>1, MinuteOfDay, Zenon
<1>4. MatchesAt(c, k) <=> DayMatches(c, day) /\ hm \in MatchingMinutes(c)
    BY <1>2, <1>3, Zenon
<1> QED BY <1>4, Zenon DEF hm, day

\* The window of the walk holds 366 days of minutes from the next one on.
LEMMA WindowNat ==
    ASSUME NEW now0 \in Nat
    PROVE  /\ SearchStart(now0) \in Nat /\ SearchStart(now0) > 0
           /\ Window(now0) \subseteq Nat
           /\ \A k \in Window(now0) : 60 * k > now0
           /\ SearchStart(now0) = now0 \div 60 + 1
           /\ 60 * SearchStart(now0) <= now0 + 60
BY DEF SearchStart, Window, SearchMinutes

\* The days of an interval of minutes are the interval of its days.
LEMMA DayOfMinute ==
    ASSUME NEW a \in Nat, NEW w \in Nat
    PROVE  \A k \in a .. a + w - 1 :
              k \in Nat /\ k \div 1440 \in a \div 1440 .. (a + w - 1) \div 1440
BY SMT

\* The minutes of a day that the walk may return are those at which it stops.
LEMMA OnDayIs ==
    ASSUME NEW c, NEW now0 \in Nat, NEW day \in Nat, NEW x
    PROVE  x \in OnDay(c, now0, day) <=>
              x \in Window(now0) /\ x \div 1440 = day /\ x % 1440 \in MatchingMinutes(c)
<1>1. \A hm \in MatchingMinutes(c) : hm \in 0 .. 1439
    BY DEF MatchingMinutes
<1>2. ASSUME x \in OnDay(c, now0, day)
      PROVE  x \in Window(now0) /\ x \div 1440 = day /\ x % 1440 \in MatchingMinutes(c)
  <2>1. PICK hm \in MatchingMinutes(c) : x = 1440 * day + hm
    BY <1>2 DEF OnDay
  <2>2. x \in Window(now0)
    BY <1>2 DEF OnDay
  <2>3. hm \in 0 .. 1439
    BY <1>1
  <2>4. x \div 1440 = day /\ x % 1440 = hm
    BY <2>1, <2>3
  <2> QED BY <2>2, <2>4
<1>3. ASSUME x \in Window(now0), x \div 1440 = day, x % 1440 \in MatchingMinutes(c)
      PROVE  x \in OnDay(c, now0, day)
  <2>1. x \in Nat
    BY <1>3, WindowNat
  <2>2. x = 1440 * (x \div 1440) + (x % 1440)
    BY <2>1
  <2>3. x = 1440 * day + (x % 1440)
    BY <1>3, <2>2
  <2> QED BY <1>3, <2>3 DEF OnDay
<1> QED BY <1>2, <1>3

\* The search by days is the walk by minutes: it returns the first minute of
\* the window at which every field matches, and a year from now if none does.
THEOREM WalkFindsFirst ==
    ASSUME NEW c, NEW now0 \in Nat
    PROVE  \/ \E m \in Window(now0) :
                 /\ MatchesAt(c, m)
                 /\ \A k \in Window(now0) : k < m => ~MatchesAt(c, k)
                 /\ NextCronAfter(c, now0) = 60 * m
           \/ /\ \A k \in Window(now0) : ~MatchesAt(c, k)
              /\ NextCronAfter(c, now0) = now0 + 365 * DaySecs
<1> DEFINE H == {day \in Days(now0) : Hit(c, now0, day)}
           D == CHOOSE day \in Days(now0) :
                   Hit(c, now0, day) /\ \A e \in Days(now0) : e < day => ~Hit(c, now0, e)
<1>1. NextCronAfter(c, now0) =
          IF \E day \in Days(now0) : Hit(c, now0, day)
          THEN 60 * Least(OnDay(c, now0, D)) ELSE now0 + 365 * DaySecs
    BY DEF NextCronAfter, Days, Hit, OnDay, Window
<1>2. Days(now0) \subseteq Nat
    BY WindowNat DEF Days, SearchMinutes
<1>3. \A k \in Window(now0) : k \in Nat /\ k \div 1440 \in Days(now0)
  <2>1. SearchStart(now0) \in Nat /\ SearchMinutes \in Nat
    BY WindowNat, SMT DEF SearchMinutes
  <2> QED BY <2>1, DayOfMinute, SMT DEF Days, Window
<1>4. ASSUME NEW k \in Window(now0), MatchesAt(c, k)
      PROVE  k \in OnDay(c, now0, k \div 1440) /\ Hit(c, now0, k \div 1440)
  <2>1. k \in Nat /\ k \div 1440 \in Nat
    BY <1>2, <1>3
  <2>2. DayMatches(c, k \div 1440) /\ k % 1440 \in MatchingMinutes(c)
    BY <1>4, <2>1, MatchesSplit
  <2>3. k \in OnDay(c, now0, k \div 1440)
    BY <2>1, <2>2, OnDayIs
  <2> QED BY <2>2, <2>3 DEF Hit
<1>5. CASE ~\E day \in Days(now0) : Hit(c, now0, day)
  <2>1. NextCronAfter(c, now0) = now0 + 365 * DaySecs
    BY <1>1, <1>5
  <2>2. ASSUME NEW k \in Window(now0), MatchesAt(c, k) PROVE FALSE
    BY <2>2, <1>3, <1>4, <1>5
  <2> QED BY <2>1, <2>2
<1>6. CASE \E day \in Days(now0) : Hit(c, now0, day)
  <2>1. PICK d0 \in H : \A e \in H : d0 <= e
    <3>1. H \in SUBSET Nat /\ H # {}
      BY <1>2, <1>6
    <3> HIDE DEF H
    <3> QED BY <3>1, LeastExists
  <2>2. d0 \in Days(now0) /\ Hit(c, now0, d0)
    BY <2>1
  <2>3. \A e \in Days(now0) : e < d0 => ~Hit(c, now0, e)
    BY <2>1, <1>2
  <2>4. /\ D \in Days(now0) /\ Hit(c, now0, D)
        /\ \A e \in Days(now0) : e < D => ~Hit(c, now0, e)
    BY <2>2, <2>3, Zenon
  <2> HIDE DEF D
  <2> DEFINE m == Least(OnDay(c, now0, D))
  <2>5. D \in Nat
    BY <1>2, <2>4
  <2>6. \A x \in OnDay(c, now0, D) : x \in Window(now0) /\ x \in Nat
    BY <1>3 DEF OnDay
  <2>7. m \in OnDay(c, now0, D) /\ \A y \in OnDay(c, now0, D) : m <= y
    <3>1. OnDay(c, now0, D) \in SUBSET Nat /\ OnDay(c, now0, D) # {}
      BY <2>4, <2>6 DEF Hit
    <3> QED BY <3>1, LeastIn
  <2>8. NextCronAfter(c, now0) = 60 * m
    BY <1>1, <1>6
  <2> HIDE DEF m
  <2>9. m \in Window(now0) /\ m \in Nat /\ m \div 1440 = D /\ m % 1440 \in MatchingMinutes(c)
    BY <2>5, <2>6, <2>7, OnDayIs
  <2>10. MatchesAt(c, m)
    BY <2>4, <2>9, MatchesSplit DEF Hit
  <2>11. ASSUME NEW k \in Window(now0), k < m, MatchesAt(c, k)
         PROVE  FALSE
    <3>1. k \in Nat /\ k \div 1440 \in Days(now0)
      BY <1>3
    <3>2. k \in OnDay(c, now0, k \div 1440) /\ Hit(c, now0, k \div 1440)
      BY <2>11, <1>4
    <3>3. k \div 1440 \in Nat /\ k \div 1440 <= m \div 1440
      BY <3>1, <2>9, <2>11
    <3>4. k \div 1440 <= D
      BY <3>3, <2>9
    <3>5. ~ (k \div 1440 < D)
      BY <2>4, <3>1, <3>2
    <3>6. k \div 1440 = D
      BY <3>3, <3>4, <3>5, <2>5
    <3>7. m <= k
      BY <3>2, <3>6, <2>7
    <3> QED BY <3>7, <3>1, <2>9, <2>11
  <2> QED BY <2>8, <2>9, <2>10, <2>11
<1> QED BY <1>5, <1>6

-----------------------------------------------------------------------------
(* What parse accepts, and the type of what next_after returns.            *)

IsDuration(s) == s.kind = "duration" /\ s.secs \in 1 .. MaxU64
IsCron(s) == /\ s.kind = "cron"
             /\ s.minute \in 0 .. 59 \cup {Star} /\ s.hour \in 0 .. 23 \cup {Star}
             /\ s.day_of_month \in 1 .. 31 \cup {Star} /\ s.month \in 1 .. 12 \cup {Star}
             /\ s.day_of_week \in 0 .. 6 \cup {Star}
IsOneShot(s) == s.kind = "oneshot" /\ s.fire_at \in Int

\* The multiplication of parse_duration yields a positive unsigned value.
LEMMA SaturatingMulRange ==
    ASSUME NEW n \in 1 .. MaxU64, NEW k \in {1, 60, 3600, 86400, 604800}
    PROVE  SaturatingMul(n, k) \in 1 .. MaxU64
<1>1. MaxU64 \in Nat
    BY MaxI64Assumption DEF MaxU64
<1>2. CASE k = 1
    BY <1>1, <1>2, SMT DEF SaturatingMul
<1>3. CASE k = 60
    BY <1>1, <1>3, SMT DEF SaturatingMul
<1>4. CASE k = 3600
    BY <1>1, <1>4, SMT DEF SaturatingMul
<1>5. CASE k = 86400
    BY <1>1, <1>5, SMT DEF SaturatingMul
<1>6. CASE k = 604800
    BY <1>1, <1>6, SMT DEF SaturatingMul
<1> QED BY <1>2, <1>3, <1>4, <1>5, <1>6, SMT

\* Schedule::parse yields one of the three kinds with its fields in range.
THEOREM ParseReturnsSchedule ==
    ASSUME NEW tok \in Token, Parse(tok) # Invalid
    PROVE  Parse(tok) \in ParsedSchedule
<1>1. CASE tok \in [shape : {"number_unit"}, n : Nat, unit : {"s", "m", "h", "d", "w"}]
  <2>1. Parse(tok) = ParseDuration(tok.n, tok.unit)
    BY <1>1 DEF Parse
  <2>2. tok.n \in 1 .. MaxU64
    BY <1>1, <2>1, MaxI64Assumption DEF ParseDuration, MaxU64
  <2>3. UnitSecs[tok.unit] \in {1, 60, 3600, 86400, 604800}
    BY <1>1, SMT DEF UnitSecs
  <2>4. Parse(tok) = Duration(SaturatingMul(tok.n, UnitSecs[tok.unit]))
    BY <2>1, Zenon DEF ParseDuration
  <2>5. SaturatingMul(tok.n, UnitSecs[tok.unit]) \in 1 .. MaxU64
    BY <2>2, <2>3, SaturatingMulRange
  <2> QED BY <2>4, <2>5 DEF ParsedSchedule, Duration
<1>2. CASE tok \in [shape : {"fields"}, fields : Seq(Int)]
  <2>1. Parse(tok) = ParseCron(tok.fields)
    BY <1>2 DEF Parse
  <2> DEFINE fs == tok.fields
  <2>2. /\ Parse(tok) = Cron(fs)
        /\ \A i \in 1 .. 5 : fs[i] \in FieldRange[i] \cup {Star}
    BY <2>1 DEF ParseCron
  <2>3. /\ FieldRange[1] = 0 .. 59 /\ FieldRange[2] = 0 .. 23 /\ FieldRange[3] = 1 .. 31
        /\ FieldRange[4] = 1 .. 12 /\ FieldRange[5] = 0 .. 6
    BY DEF FieldRange
  <2>4. /\ fs[1] \in 0 .. 59 \cup {Star} /\ fs[2] \in 0 .. 23 \cup {Star}
        /\ fs[3] \in 1 .. 31 \cup {Star} /\ fs[4] \in 1 .. 12 \cup {Star}
        /\ fs[5] \in 0 .. 6 \cup {Star}
    <3> HIDE DEF fs
    <3>1. 1 \in 1 .. 5 /\ 2 \in 1 .. 5 /\ 3 \in 1 .. 5 /\ 4 \in 1 .. 5 /\ 5 \in 1 .. 5
      OBVIOUS
    <3> QED BY <2>2, <2>3, <3>1
  <2> HIDE DEF fs
  <2> QED BY <2>2, <2>3, <2>4 DEF ParsedSchedule, Cron
<1>3. CASE tok \in [shape : {"instant"}, at : Int]
    BY <1>3 DEF Parse, OneShot, ParsedSchedule
<1>4. CASE tok \in [shape : {"unknown"}]
    BY <1>4 DEF Parse
<1> QED BY <1>1, <1>2, <1>3, <1>4 DEF Token

\* The three kinds of schedules.
LEMMA Kinds ==
    ASSUME NEW s \in ParsedSchedule
    PROVE  IsDuration(s) \/ IsCron(s) \/ IsOneShot(s)
<1>1. /\ FieldRange[1] = 0 .. 59 /\ FieldRange[2] = 0 .. 23 /\ FieldRange[3] = 1 .. 31
      /\ FieldRange[4] = 1 .. 12 /\ FieldRange[5] = 0 .. 6
    BY DEF FieldRange
<1> QED BY <1>1 DEF ParsedSchedule, IsDuration, IsCron, IsOneShot

\* next_after answers with an instant for every schedule and clock reading.
THEOREM NextAfterIsInstant ==
    ASSUME NEW s \in ParsedSchedule, NEW t \in Nat
    PROVE  NextAfter(s, t) \in Int
<1>1. CASE IsDuration(s)
  <2>1. NextAfter(s, t) = SaturatingAdd(t, AsI64(s.secs))
    BY <1>1 DEF NextAfter, IsDuration
  <2>2. AsI64(s.secs) \in Int
    BY <1>1, MaxI64Assumption, SMT DEF AsI64, IsDuration, MaxU64
  <2> QED BY <2>1, <2>2, MaxI64Assumption, SMT DEF SaturatingAdd
<1>2. CASE IsCron(s)
  <2>1. NextAfter(s, t) = NextCronAfter(s, t)
    BY <1>2 DEF NextAfter, IsCron
  <2>2. \A m \in Window(t) : 60 * m \in Int
    BY WindowNat
  <2>3. t + 365 * DaySecs \in Int
    BY SMT DEF DaySecs
  <2> QED BY <2>1, <2>2, <2>3, WalkFindsFirst
<1>3. CASE IsOneShot(s)
    BY <1>3 DEF NextAfter, IsOneShot
<1> QED BY <1>1, <1>2, <1>3, Kinds

\* The instant lies after the clock reading for every recurring schedule whose
\* duration fits the signed integer: "strictly after now".
THEOREM NextAfterIsLater ==
    ASSUME NEW s \in ParsedSchedule, IsRecurring(s), s.kind = "duration" => s.secs <= MaxI64,
           NEW t \in Nat, t < MaxI64
    PROVE  NextAfter(s, t) > t
<1>1. CASE IsDuration(s)
  <2>1. s.secs \in 1 .. MaxI64
    BY <1>1, MaxI64Assumption DEF IsDuration, MaxU64
  <2>2. NextAfter(s, t) = SaturatingAdd(t, s.secs)
    BY <1>1, <2>1, MaxI64Assumption DEF NextAfter, AsI64, IsDuration
  <2> QED BY <2>1, <2>2, MaxI64Assumption DEF SaturatingAdd
<1>2. CASE IsCron(s)
  <2>1. NextAfter(s, t) = NextCronAfter(s, t)
    BY <1>2 DEF NextAfter, IsCron
  <2>2. \A m \in Window(t) : 60 * m > t
    BY WindowNat
  <2>3. t + 365 * DaySecs > t
    BY SMT DEF DaySecs
  <2> QED BY <2>1, <2>2, <2>3, WalkFindsFirst
<1>3. CASE IsOneShot(s)
    BY <1>3 DEF IsOneShot, IsRecurring
<1> QED BY <1>1, <1>2, <1>3, Kinds

-----------------------------------------------------------------------------
(* When the walk of 366 days is long enough.                               *)

\* Some minute of the day matches every expression that parse accepts.
LEMMA SomeMinute ==
    ASSUME NEW c, IsCron(c)
    PROVE  \E hm \in DayMinutes : hm \in MatchingMinutes(c)
<1> DEFINE h == IF c.hour = Star THEN 0 ELSE c.hour
           m == IF c.minute = Star THEN 0 ELSE c.minute
<1>1. h \in 0 .. 23 /\ FieldMatches(c.hour, h)
    BY DEF IsCron, FieldMatches
<1>2. m \in 0 .. 59 /\ FieldMatches(c.minute, m)
    BY DEF IsCron, FieldMatches
<1> HIDE DEF h, m
<1>3. 60 * h + m \in MatchingMinutes(c)
    BY <1>1, <1>2 DEF MatchingMinutes
<1>4. 60 * h + m \in DayMinutes
    BY <1>1, <1>2, SMT DEF DayMinutes
<1> QED BY <1>3, <1>4

\* A day that matches, at a minute of it that matches, is a match.
LEMMA MatchOnDay ==
    ASSUME NEW c, NEW day \in Nat, DayMatches(c, day),
           NEW hm \in DayMinutes, hm \in MatchingMinutes(c)
    PROVE  1440 * day + hm \in Nat /\ MatchesAt(c, 1440 * day + hm)
<1> DEFINE k == 1440 * day + hm
<1>1. k \in Nat /\ k \div 1440 = day /\ k % 1440 = hm
    BY SMT DEF DayMinutes
<1> HIDE DEF k
<1>2. MatchesAt(c, k)
    BY <1>1, MatchesSplit
<1> QED BY <1>1, <1>2 DEF k

\* The weekday of a day number.
LEMMA WeekdayOf ==
    ASSUME NEW day
    PROVE  CivilDate(day).weekday = (day + 4) % 7
BY DEF CivilDate

\* A weekday, or any day, comes within the eight days that follow.
LEMMA WeekdayHit ==
    ASSUME NEW c, IsCron(c), c.day_of_month = Star, c.month = Star, NEW now0 \in Nat
    PROVE  \E k \in Window(now0) : MatchesAt(c, k)
<1> DEFINE a == SearchStart(now0)
<1>1. a \in Nat
    BY WindowNat
<1>2. PICK hm \in DayMinutes : hm \in MatchingMinutes(c)
    BY SomeMinute
<1> HIDE DEF a
<1>3. \E day \in Nat : /\ (a \div 1440) + 1 <= day /\ day <= (a \div 1440) + 7
                       /\ c.day_of_week = Star \/ (day + 4) % 7 = c.day_of_week
  <2> DEFINE q == a \div 1440
  <2>1. q \in Nat
    BY <1>1, SMT
  <2> HIDE DEF q
  <2>2. CASE c.day_of_week = Star
    <3>1. q + 1 \in Nat /\ q + 1 <= q + 7
      BY <2>1, SMT
    <3> QED BY <2>1, <2>2, <3>1, SMT DEF q
  <2>3. CASE c.day_of_week # Star
    <3> DEFINE w == c.day_of_week
               g == q + 1 + ((w + 14 - ((q + 5) % 7)) % 7)
    <3>1. w \in 0 .. 6
      BY <2>3 DEF IsCron
    <3> HIDE DEF w
    <3>2. g \in Nat /\ q + 1 <= g /\ g <= q + 7 /\ (g + 4) % 7 = w
      BY <2>1, <3>1, SMT
    <3> HIDE DEF g
    <3>3. g \in Nat /\ q + 1 <= g /\ g <= q + 7 /\ (g + 4) % 7 = c.day_of_week
      BY <3>2 DEF w
    <3> QED BY <3>3 DEF q
  <2> QED BY <2>2, <2>3
<1>4. PICK day \in Nat : /\ (a \div 1440) + 1 <= day /\ day <= (a \div 1440) + 7
                         /\ c.day_of_week = Star \/ (day + 4) % 7 = c.day_of_week
    BY <1>3
<1>5. DayMatches(c, day)
    BY <1>4, WeekdayOf DEF DayMatches, FieldMatches
<1>6. 1440 * day + hm \in Nat /\ MatchesAt(c, 1440 * day + hm)
    BY <1>2, <1>5, MatchOnDay
<1>7. 1440 * day + hm \in Window(now0)
    BY <1>1, <1>4, SMT DEF Window, SearchMinutes, DayMinutes, a
<1> QED BY <1>6, <1>7

CommonMonthLength(mo) == DaysBeforeMonth[mo + 1] - DaysBeforeMonth[mo]

\* A date of the common year exists in every year.
LEMMA DateOfEveryYear ==
    ASSUME NEW y \in Years, NEW mo \in 1 .. 12, NEW d \in 1 .. CommonMonthLength(mo)
    PROVE  /\ d \in 1 .. MonthLength(y, mo)
           /\ MonthStart(y, mo) \in Nat
           /\ MonthStart(y, mo) + d - 1 \in 0 .. YearLength(y) - 1
           /\ YearLength(y) \in {365, 366}
<1>1. /\ DaysBeforeMonth[mo] \in Nat /\ DaysBeforeMonth[mo + 1] \in Nat
      /\ DaysBeforeMonth[mo + 1] <= 365
  <2>1. mo \in {1, 2, 3, 4, 5, 6, 7, 8, 9, 10, 11, 12}
    BY SMT
  <2> QED BY <2>1, SMT DEF DaysBeforeMonth
<1>2. /\ MonthStart(y, mo) = DaysBeforeMonth[mo] + (IF mo > 2 THEN LeapDay(y) ELSE 0)
      /\ MonthStart(y, mo + 1) = DaysBeforeMonth[mo + 1] + (IF mo + 1 > 2 THEN LeapDay(y) ELSE 0)
      /\ LeapDay(y) \in {0, 1}
    BY SMT DEF MonthStart, LeapDay
<1> QED BY <1>1, <1>2, SMT DEF MonthLength, CommonMonthLength, YearLength

\* From one year to the next such a date comes after 365 or 366 days.
LEMMA DateRecurs ==
    ASSUME NEW y \in Years, NEW mo \in 1 .. 12, NEW d \in 1 .. CommonMonthLength(mo)
    PROVE  DayNumber(y + 1, mo, d) <= DayNumber(y, mo, d) + 366
<1>1. DaysBeforeMonth[mo] \in Nat /\ d \in Nat
  <2>1. mo \in {1, 2, 3, 4, 5, 6, 7, 8, 9, 10, 11, 12}
    BY SMT
  <2>2. DaysBeforeMonth[mo] \in Nat /\ DaysBeforeMonth[mo + 1] \in Nat
    BY <2>1, SMT DEF DaysBeforeMonth
  <2> QED BY <2>2, SMT DEF CommonMonthLength
<1>2. /\ MonthStart(y, mo) = DaysBeforeMonth[mo] + (IF mo > 2 THEN LeapDay(y) ELSE 0)
      /\ MonthStart(y + 1, mo) = DaysBeforeMonth[mo] + (IF mo > 2 THEN LeapDay(y + 1) ELSE 0)
      /\ LeapDay(y) \in {0, 1} /\ LeapDay(y + 1) \in {0, 1}
    BY SMT DEF MonthStart, LeapDay
<1>3. YearStart(y) \in Nat /\ YearStart(y + 1) = YearStart(y) + 365 + LeapDay(y)
    BY YearStep, SMT DEF LeapDay
<1> QED BY <1>1, <1>2, <1>3, SMT DEF DayNumber

\* Of two days at most 366 apart, the earlier in the year the walk starts in
\* and the later after that year, one is reached by the walk.
LEMMA OneIsReached ==
    ASSUME NEW a \in Nat, NEW hm \in 0 .. 1439, NEW s \in Nat, NEW e \in Nat,
           NEW u \in Nat, NEW v \in Nat,
           s <= a \div 1440, a \div 1440 < e, e <= s + 366,
           u < e, e <= v, v <= u + 366
    PROVE  \/ 1440 * u + hm \in a .. a + 527040 - 1
           \/ 1440 * v + hm \in a .. a + 527040 - 1
<1>1. 1440 * s <= a /\ a < 1440 * e
    BY SMT
<1>2. CASE a <= 1440 * u + hm
    BY <1>1, <1>2, SMT
<1>3. CASE 1440 * u + hm < a
    BY <1>1, <1>3, SMT
<1> QED BY <1>2, <1>3, SMT

\* A date of every year comes within 366 days, whenever the walk starts.
LEMMA DateHit ==
    ASSUME NEW c, IsCron(c), c.day_of_week = Star, NEW now0 \in Nat,
           NEW mo \in 1 .. 12, NEW d \in 1 .. CommonMonthLength(mo),
           FieldMatches(c.month, mo), FieldMatches(c.day_of_month, d)
    PROVE  \E k \in Window(now0) : MatchesAt(c, k)
<1> DEFINE a == SearchStart(now0)
           D(y) == DayNumber(y, mo, d)
<1>1. a \in Nat
    BY WindowNat
<1>2. PICK hm \in DayMinutes : hm \in MatchingMinutes(c)
    BY SomeMinute
<1> HIDE DEF a
<1>3. ASSUME NEW y \in Years
      PROVE  D(y) \in Nat /\ DayMatches(c, D(y))
  <2>1. d \in 1 .. MonthLength(y, mo)
    BY DateOfEveryYear
  <2>2. /\ D(y) \in Nat
        /\ CivilDate(D(y)) = [year |-> y, month |-> mo, day |-> d, weekday |-> (D(y) + 4) % 7]
    BY <2>1, CalendarInverse
  <2> QED BY <2>2 DEF DayMatches, FieldMatches
<1>4. a \div 1440 \in Nat
    BY <1>1, SMT
<1>5. PICK y \in Years : YearStart(y) <= a \div 1440 /\ a \div 1440 < YearStart(y + 1)
    BY <1>4, YearExists
<1>6. /\ y + 1 \in Years /\ YearStart(y) \in Nat /\ YearLength(y) \in {365, 366}
      /\ YearStart(y + 1) = YearStart(y) + YearLength(y)
    BY <1>5, YearStep, SMT DEF YearLength, LeapDay
<1>7. YearStart(y) <= D(y) /\ D(y) < YearStart(y + 1)
  <2>1. MonthStart(y, mo) + d - 1 \in 0 .. YearLength(y) - 1 /\ MonthStart(y, mo) \in Nat
        /\ d \in 1 .. MonthLength(y, mo)
    BY DateOfEveryYear
  <2>2. D(y) = YearStart(y) + (MonthStart(y, mo) + d - 1)
    BY <1>6, <2>1, SMT DEF DayNumber
  <2> QED BY <1>6, <2>1, <2>2, SMT
<1>8. YearStart(y + 1) <= D(y + 1)
  <2> DEFINE z == y + 1
  <2>1. z \in Years
    BY <1>6
  <2> HIDE DEF z
  <2>2. MonthStart(z, mo) + d - 1 \in 0 .. YearLength(z) - 1 /\ MonthStart(z, mo) \in Nat
        /\ YearStart(z) \in Nat /\ YearLength(z) \in {365, 366}
    BY <2>1, DateOfEveryYear, YearStep
  <2>3. DayNumber(z, mo, d) = YearStart(z) + (MonthStart(z, mo) + d - 1)
    BY <2>2, SMT DEF DayNumber
  <2>4. YearStart(z) <= DayNumber(z, mo, d)
    BY <2>2, <2>3, SMT
  <2> QED BY <2>4 DEF z
<1>9. D(y + 1) <= D(y) + 366
    BY DateRecurs
<1>10. D(y) \in Nat /\ D(y + 1) \in Nat /\ DayMatches(c, D(y)) /\ DayMatches(c, D(y + 1))
    BY <1>3, <1>6
<1> HIDE DEF D
<1>11. \A x \in {D(y), D(y + 1)} : 1440 * x + hm \in Nat /\ MatchesAt(c, 1440 * x + hm)
    BY <1>2, <1>10, MatchOnDay
<1>12. 1440 * D(y) + hm \in Window(now0) \/ 1440 * D(y + 1) + hm \in Window(now0)
  <2>1. Window(now0) = a .. a + 527040 - 1 /\ hm \in 0 .. 1439
    BY SMT DEF Window, SearchMinutes, DayMinutes, a
  <2>2. /\ YearStart(y + 1) \in Nat /\ YearStart(y + 1) <= YearStart(y) + 366
    BY <1>6, SMT
  <2>3. \/ 1440 * D(y) + hm \in a .. a + 527040 - 1
        \/ 1440 * D(y + 1) + hm \in a .. a + 527040 - 1
    <3> DEFINE u == D(y)
               v == D(y + 1)
               s == YearStart(y)
               e == YearStart(y + 1)
    <3>1. s \in Nat /\ e \in Nat /\ u \in Nat /\ v \in Nat
      BY <1>6, <1>10, <2>2
    <3>2. s <= a \div 1440 /\ a \div 1440 < e /\ e <= s + 366
      BY <1>5, <2>2
    <3>3. u < e /\ e <= v /\ v <= u + 366
      BY <1>7, <1>8, <1>9 DEF D
    <3> HIDE DEF u, v, s, e
    <3>4. 1440 * u + hm \in a .. a + 527040 - 1 \/ 1440 * v + hm \in a .. a + 527040 - 1
      BY <1>1, <2>1, <3>1, <3>2, <3>3, OneIsReached, SMT
    <3> QED BY <3>4, SMT DEF u, v
  <2> QED BY <2>1, <2>3, SMT
<1> QED BY <1>11, <1>12
=============================================================================
