------------------------------ MODULE MCSchedule ------------------------------
(* Instances of ScheduledJob for TLC. *)
EXTENDS ScheduledJob

\* Calendar dates that anchor the calendar operators.
ASSUME KnownDates ==
    /\ CivilDate(0) = [year |-> 1970, month |-> 1, day |-> 1, weekday |-> 4]
    /\ CivilDate(789) = [year |-> 1972, month |-> 2, day |-> 29, weekday |-> 2]
    /\ CivilDate(11016) = [year |-> 2000, month |-> 2, day |-> 29, weekday |-> 2]
    /\ CivilDate(20605) = [year |-> 2026, month |-> 6, day |-> 1, weekday |-> 1]

Fields(mi, h, dom, mo, dow) == [shape |-> "fields", fields |-> << mi, h, dom, mo, dow >>]
Number(n, u) == [shape |-> "number_unit", n |-> n, unit |-> u]
Instant(t) == [shape |-> "instant", at |-> t]

\* 1972-02-28 23:58:30, the eve of a leap day, and around it.
LeapEve == 788 * 86400 + 23 * 3600 + 58 * 60 + 30

\* 1971-03-01 00:00:30, a leap year before the next 1 March.
YearBefore == 424 * 86400 + 30

MCTokens ==
    { Number(30, "m"), Number(1, "w"), Number(0, "s"), Number(MaxI64, "s"),
      Number(MaxU64, "w"),
      Fields(Star, Star, Star, Star, Star), Fields(0, Star, Star, Star, Star),
      Fields(59, 23, Star, Star, Star), Fields(0, 9, Star, Star, 1),
      Fields(0, 0, 1, Star, 3), Fields(0, 0, Star, 3, Star), Fields(0, 0, 60, Star, Star),
      Fields(0, 0, 29, 2, Star), Fields(0, 0, 1, 3, Star),
      Instant(LeapEve + 90), Instant(LeapEve - 90) }

MCStarts == {YearBefore, LeapEve, LeapEve + 30, LeapEve + 90, LeapEve + 86400}

MCDelays == {0, 1, 29, 61}

LeapTokens == { Fields(0, 0, Star, 3, Star), Fields(30, 6, 29, 2, Star) }
=============================================================================
