-------------------------- MODULE ScheduledJobProofs --------------------------
(***************************************************************************)
(* Proofs about ScheduledJob: the job driven by its schedule, for every    *)
(* set of expressions, clock readings and delays.                          *)
(***************************************************************************)
EXTENDS ScheduledJob, ScheduleProofs

-----------------------------------------------------------------------------
(* The job: next_run_at is always what next_after made of the schedule and *)
(* the last clock reading.                                                 *)

Tracks ==
    /\ sched \in ParsedSchedule
    /\ now \in 0 .. ClockEnd
    /\ next = NextAfter(sched, now)

\* The invariant holds however late the scheduler finds the job.
LEMMA TracksInv == Spec => []Tracks
<1>1. Init => Tracks
    BY ScheduledJobAssumption, ParseReturnsSchedule DEF Init, Tracks
<1>2. Tracks /\ [Fire]_vars => Tracks'
  <2> SUFFICES ASSUME Tracks, [Fire]_vars PROVE Tracks'
    OBVIOUS
  <2>1. CASE Fire
    <3>1. PICK t \in FireInstants : t <= ClockEnd /\ now' = t /\ next' = NextAfter(sched, t)
      BY <2>1 DEF Fire
    <3>2. PICK d \in Delays : t = (IF next > now THEN next ELSE now) + d
      BY DEF FireInstants
    <3>3. d \in Nat
      BY ScheduledJobAssumption
    <3>4. next \in Int
      BY NextAfterIsInstant DEF Tracks
    <3>5. ClockEnd \in Int
      BY MaxI64Assumption, SMT DEF ClockEnd, DaySecs
    <3>6. t \in 0 .. ClockEnd
      BY <3>1, <3>2, <3>3, <3>4, <3>5 DEF Tracks
    <3>7. sched' = sched
      BY <2>1 DEF Fire
    <3> QED BY <3>1, <3>6, <3>7 DEF Tracks
  <2>2. CASE UNCHANGED vars
    BY <2>2 DEF Tracks, vars
  <2> QED BY <2>1, <2>2
<1> QED BY <1>1, <1>2, PTL DEF Spec

\* In a state of the job the clock is far from the end of its range.
LEMMA TracksClock ==
    ASSUME Tracks
    PROVE  now \in Nat /\ now < MaxI64
BY MaxI64Assumption, SMT DEF Tracks, ClockEnd, DaySecs

\* Of a cron job next_run_at is where the walk ends.
LEMMA TracksWalk ==
    ASSUME Tracks, sched.kind = "cron"
    PROVE  \/ \E m \in Window(now) :
                 /\ MatchesAt(sched, m)
                 /\ \A k \in Window(now) : k < m => ~MatchesAt(sched, k)
                 /\ next = 60 * m
           \/ /\ \A k \in Window(now) : ~MatchesAt(sched, k)
              /\ next = now + 365 * DaySecs
<1>1. now \in Nat
    BY TracksClock
<1>2. next = NextCronAfter(sched, now)
    BY DEF Tracks, NextAfter
<1> QED BY <1>1, <1>2, WalkFindsFirst

\* A recurring job is due strictly after the instant it fired at, and a
\* one-shot is due at once exactly when it is late.
THEOREM DueAtOnceIffLate == Spec => []DueAtOnce
<1>1. Tracks => DueAtOnce
  <2> SUFFICES ASSUME Tracks, sched.kind = "duration" => sched.secs <= MaxI64
               PROVE  next <= now <=> sched.kind = "oneshot" /\ sched.fire_at <= now
    BY DEF DueAtOnce
  <2>1. now \in Nat /\ now < MaxI64
    BY TracksClock
  <2>2. sched \in ParsedSchedule /\ next = NextAfter(sched, now)
    BY DEF Tracks
  <2>3. CASE IsRecurring(sched)
    <3>1. next > now
      BY <2>1, <2>2, <2>3, NextAfterIsLater
    <3>2. next \in Int
      BY <2>1, <2>2, NextAfterIsInstant
    <3> QED BY <2>1, <2>3, <3>1, <3>2 DEF IsRecurring
  <2>4. CASE ~IsRecurring(sched)
    <3>1. IsOneShot(sched)
      BY <2>2, <2>4, Kinds DEF IsRecurring, IsDuration, IsCron
    <3> QED BY <2>2, <3>1 DEF IsOneShot, NextAfter
  <2> QED BY <2>3, <2>4
<1> QED BY <1>1, TracksInv, PTL

\* No minute that the expression names passes between now and next_run_at.
THEOREM NoMinuteIsSkipped == Spec => []NoMinuteSkipped
<1>1. Tracks => NoMinuteSkipped
  <2> SUFFICES ASSUME Tracks, sched.kind = "cron",
                      NEW k \in (now \div 60) + 1 .. ((next + 59) \div 60) - 1
               PROVE  ~MatchesAt(sched, k)
    BY DEF NoMinuteSkipped
  <2>1. now \in Nat
    BY TracksClock
  <2>2. SearchStart(now) = now \div 60 + 1 /\ SearchStart(now) \in Nat
    BY <2>1, WindowNat
  <2>3. ASSUME NEW m \in Window(now), next = 60 * m,
               \A j \in Window(now) : j < m => ~MatchesAt(sched, j)
        PROVE  ~MatchesAt(sched, k)
    <3>1. m \in Nat
      BY <2>1, WindowNat
    <3>2. k < m
      BY <2>1, <2>3, <3>1, SMT
    <3>3. k \in Window(now)
      BY <2>1, <2>2, <3>1, <3>2, SMT DEF Window, SearchMinutes
    <3> QED BY <2>3, <3>2, <3>3
  <2>4. ASSUME next = now + 365 * DaySecs
        PROVE  k \in Window(now)
    BY <2>1, <2>2, <2>4, SMT DEF Window, SearchMinutes, DaySecs
  <2> QED BY <2>3, <2>4, TracksWalk
<1> QED BY <1>1, TracksInv, PTL

\* An expression that names a weekday or a date of every year never falls back
\* to a year from now: next_run_at is an instant that it names.
THEOREM YearlyExpressionsMatch == Spec => []YearlyExpressionMatches
<1>1. Tracks => YearlyExpressionMatches
  <2> SUFFICES ASSUME Tracks, sched.kind = "cron", NamesYearlyDay(sched)
               PROVE  next % 60 = 0 /\ MatchesAt(sched, next \div 60)
    BY DEF YearlyExpressionMatches, NextMatchesExpression
  <2>1. now \in Nat /\ IsCron(sched)
    BY TracksClock, Kinds DEF Tracks, IsDuration, IsOneShot
  <2>2. \E k \in Window(now) : MatchesAt(sched, k)
    <3>1. CASE sched.day_of_month = Star /\ sched.month = Star
      BY <2>1, <3>1, WeekdayHit
    <3>2. CASE ~ (sched.day_of_month = Star /\ sched.month = Star)
      <4>1. /\ sched.day_of_week = Star
            /\ \E mo \in 1 .. 12 : \E d \in 1 .. CommonMonthLength(mo) :
                  FieldMatches(sched.month, mo) /\ FieldMatches(sched.day_of_month, d)
        BY <3>2 DEF NamesYearlyDay, CommonMonthLength
      <4> QED BY <2>1, <4>1, DateHit
    <3> QED BY <3>1, <3>2
  <2>3. PICK m \in Window(now) : MatchesAt(sched, m) /\ next = 60 * m
    BY <2>2, TracksWalk
  <2>4. m \in Nat
    BY <2>1, WindowNat
  <2>5. next % 60 = 0 /\ next \div 60 = m
    BY <2>3, <2>4, SMT
  <2> QED BY <2>3, <2>5
<1> QED BY <1>1, TracksInv, PTL
=============================================================================
