------------------------------- MODULE Schedule -------------------------------
(***************************************************************************)
(* Schedule expressions of the cron scheduler                              *)
(* (crates/relix-runtime/src/nodes/coordinator/cron/schedule.rs): what     *)
(* Schedule::parse accepts and the instant Schedule::next_after computes.  *)
(*                                                                         *)
(* Time is unix seconds in a signed machine integer.  An expression is     *)
(* not a character string but the token the parser has recognised by its   *)
(* shape: a number with a unit, a list of cron fields, or an instant.      *)
(***************************************************************************)
EXTENDS Integers, Sequences

CONSTANT
    MaxI64      \* largest value of the signed integer (2^63 - 1 in the code)

ASSUME MaxI64Assumption == MaxI64 \in Nat \ {0}

MaxU64 == 2 * MaxI64 + 1

SaturatingMul(n, k) == IF n > MaxU64 \div k THEN MaxU64 ELSE n * k

\* The cast `secs as i64`, which reinterprets the bits of the unsigned value.
AsI64(u) == IF u <= MaxI64 THEN u ELSE u - (MaxU64 + 1)

\* i64::saturating_add on a non-negative clock value.
SaturatingAdd(a, b) == IF b > MaxI64 - a THEN MaxI64 ELSE a + b

-----------------------------------------------------------------------------
(* Parsing.  A field of a cron expression is Star or a number.             *)

Star == -1

\* What cron.create is given, by its shape.
Token ==
    [shape : {"number_unit"}, n : Nat, unit : {"s", "m", "h", "d", "w"}]
    \cup [shape : {"fields"}, fields : Seq(Int)]
    \cup [shape : {"instant"}, at : Int]
    \cup [shape : {"unknown"}]

Invalid == [kind |-> "invalid"]
Duration(secs) == [kind |-> "duration", secs |-> secs]
OneShot(t) == [kind |-> "oneshot", fire_at |-> t]
Cron(fs) == [kind |-> "cron", minute |-> fs[1], hour |-> fs[2],
             day_of_month |-> fs[3], month |-> fs[4], day_of_week |-> fs[5]]

UnitSecs == [s |-> 1, m |-> 60, h |-> 3600, d |-> 86400, w |-> 604800]

ParseDuration(n, unit) ==
    IF n = 0 \/ n > MaxU64 THEN Invalid
    ELSE Duration(SaturatingMul(n, UnitSecs[unit]))

FieldRange == << 0 .. 59, 0 .. 23, 1 .. 31, 1 .. 12, 0 .. 6 >>

ParseCron(fs) ==
    IF Len(fs) = 5 /\ \A i \in 1 .. 5 : fs[i] \in FieldRange[i] \cup {Star}
    THEN Cron(fs)
    ELSE Invalid

\* Schedule::parse decides on the format by the token's shape.
Parse(tok) ==
    CASE tok.shape = "number_unit" -> ParseDuration(tok.n, tok.unit)
      [] tok.shape = "fields" -> ParseCron(tok.fields)
      [] tok.shape = "instant" -> OneShot(tok.at)
      [] OTHER -> Invalid

\* Every value parse can return, Invalid aside.
ParsedSchedule ==
    [kind : {"duration"}, secs : 1 .. MaxU64]
    \cup [kind : {"cron"}, minute : FieldRange[1] \cup {Star}, hour : FieldRange[2] \cup {Star},
          day_of_month : FieldRange[3] \cup {Star}, month : FieldRange[4] \cup {Star},
          day_of_week : FieldRange[5] \cup {Star}]
    \cup [kind : {"oneshot"}, fire_at : Int]

IsRecurring(s) == s.kind \in {"duration", "cron"}

-----------------------------------------------------------------------------
(* The proleptic Gregorian calendar of the `time` crate, from 1970 on.     *)

DaySecs == 86400

LeapYear(y) == y % 4 = 0 /\ (y % 100 # 0 \/ y % 400 = 0)

LeapsBefore(y) == ((y - 1) \div 4) - ((y - 1) \div 100) + ((y - 1) \div 400)

YearStart(y) == 365 * (y - 1970) + LeapsBefore(y) - LeapsBefore(1970)

YearOf(day) ==
    CHOOSE y \in 1970 + (day \div 366) .. 1970 + (day \div 365) :
        YearStart(y) <= day /\ day < YearStart(y + 1)

DaysBeforeMonth == << 0, 31, 59, 90, 120, 151, 181, 212, 243, 273, 304, 334, 365 >>

MonthStart(y, mo) == DaysBeforeMonth[mo] + (IF mo > 2 /\ LeapYear(y) THEN 1 ELSE 0)

\* The calendar date of a day number counted from 1970-01-01, a Thursday.
CivilDate(day) ==
    LET y == YearOf(day)
        doy == day - YearStart(y)
        mo == CHOOSE m \in 1 .. 12 : MonthStart(y, m) <= doy /\ doy < MonthStart(y, m + 1)
    IN [year |-> y, month |-> mo, day |-> doy - MonthStart(y, mo) + 1,
        weekday |-> (day + 4) % 7]

-----------------------------------------------------------------------------
(* Schedule::next_after.                                                   *)

FieldMatches(field, v) == field = Star \/ field = v

\* Mutant: weekdays numbered from one.
DayMatchesSundayOne(c, day) ==
    LET date == CivilDate(day)
    IN /\ FieldMatches(c.day_of_month, date.day)
       /\ FieldMatches(c.month, date.month)
       /\ FieldMatches(c.day_of_week, date.weekday + 1)

DayMatches(c, day) ==
    LET date == CivilDate(day)
    IN /\ FieldMatches(c.day_of_month, date.day)
       /\ FieldMatches(c.month, date.month)
       /\ FieldMatches(c.day_of_week, date.weekday)

MatchingMinutes(c) ==
    {60 * h + m : h \in {h \in 0 .. 23 : FieldMatches(c.hour, h)},
                  m \in {m \in 0 .. 59 : FieldMatches(c.minute, m)}}

\* Mutant: a walk of a common year.
SearchMinutesCommonYear == 365 * 24 * 60

\* max_minutes
SearchMinutes == 366 * 24 * 60

\* Mutant: the walk starts in the minute that contains now.
SearchStartInThisMinute(now) == now \div 60

\* The first whole minute strictly after now, in minutes.
SearchStart(now) == (now \div 60) + 1

\* The least element of S, when it has one.
Least(S) == CHOOSE x \in S : \A y \in S : x <= y

(* The minute-by-minute walk over the next 366 days.  The first matching   *)
(* minute is found on the first day that holds one; a walk that finds none *)
(* falls back to a year from now.                                          *)
NextCronAfter(c, now) ==
    LET start == SearchStart(now)
        window == start .. start + SearchMinutes - 1
        days == start \div 1440 .. (start + SearchMinutes - 1) \div 1440
        minutes == MatchingMinutes(c)
        OnDay(day) == {1440 * day + hm : hm \in minutes} \cap window
        Hit(day) == DayMatches(c, day) /\ OnDay(day) # {}
    IN IF \E day \in days : Hit(day)
       THEN 60 * Least(OnDay(CHOOSE day \in days :
                                 Hit(day) /\ \A e \in days : e < day => ~Hit(e)))
       ELSE now + 365 * DaySecs

NextAfter(s, now) ==
    CASE s.kind = "duration" -> SaturatingAdd(now, AsI64(s.secs))
      [] s.kind = "cron" -> NextCronAfter(s, now)
      [] s.kind = "oneshot" -> s.fire_at

-----------------------------------------------------------------------------
\* Reference reading of an expression at one minute, field by field.
MatchesAt(c, minute) ==
    LET date == CivilDate(minute \div 1440)
        hm == minute % 1440
    IN /\ c.minute \in {Star, hm % 60}
       /\ c.hour \in {Star, hm \div 60}
       /\ c.day_of_month \in {Star, date.day}
       /\ c.month \in {Star, date.month}
       /\ c.day_of_week \in {Star, date.weekday}

\* An expression that names a date of the common year, or no more than a
\* weekday: the day comes every year, whatever the year.
NamesYearlyDay(c) ==
    \/ c.day_of_month = Star /\ c.month = Star
    \/ /\ c.day_of_week = Star
       /\ \E mo \in 1 .. 12 : \E d \in 1 .. DaysBeforeMonth[mo + 1] - DaysBeforeMonth[mo] :
             FieldMatches(c.month, mo) /\ FieldMatches(c.day_of_month, d)
=============================================================================
