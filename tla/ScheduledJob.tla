----------------------------- MODULE ScheduledJob -----------------------------
(***************************************************************************)
(* One enabled job driven by its schedule alone: created at some instant,  *)
(* then fired by a scheduler that is late by one of Delays seconds, each   *)
(* fire recomputing next_run_at from the clock.                            *)
(***************************************************************************)
EXTENDS Schedule

CONSTANTS
    Tokens,         \* schedule expressions given to cron.create
    Starts,         \* clock readings at creation
    Delays,         \* how late a tick may find the job, in seconds
    MaxFires        \* bound on the number of fires

\* The last clock reading considered: a year from it still fits the integer.
ClockEnd == MaxI64 - 366 * DaySecs

ASSUME ScheduledJobAssumption ==
    /\ Tokens \subseteq Token
    /\ Starts \subseteq 0 .. ClockEnd
    /\ Delays \subseteq Nat
    /\ MaxFires \in Nat

VARIABLES
    sched,          \* the parsed schedule of the job
    now,            \* clock reading of the last create or fire
    next,           \* next_run_at
    fired           \* number of fires so far

vars == << sched, now, next, fired >>

\* The instants at which the scheduler may find the job due.
FireInstants == {(IF next > now THEN next ELSE now) + d : d \in Delays}

Init ==
    /\ sched \in {Parse(tok) : tok \in Tokens} \ {Invalid}
    /\ now \in Starts
    /\ next = NextAfter(sched, now)
    /\ fired = 0

Fire ==
    /\ fired < MaxFires
    /\ fired = 0 \/ IsRecurring(sched)
    /\ \E t \in FireInstants :
          /\ t <= ClockEnd
          /\ now' = t
          /\ next' = NextAfter(sched, t)
    /\ fired' = fired + 1
    /\ UNCHANGED sched

Spec == Init /\ [][Fire]_vars

-----------------------------------------------------------------------------
(* A recurring job is never due at or before the instant it has just fired *)
(* at, so one due instant is one fire even when ticks come late            *)
(* (next_after: "strictly after now"), while a one-shot created after its  *)
(* instant is due at once.  Durations up to the signed range.              *)
DueAtOnce ==
    (sched.kind = "duration" => sched.secs <= MaxI64) =>
        (next <= now <=> sched.kind = "oneshot" /\ sched.fire_at <= now)

(* No fire is lost: between the clock reading and next_run_at lies no      *)
(* minute that the cron expression names (next_cron_after's walk).         *)
NoMinuteSkipped ==
    sched.kind = "cron" =>
        \A k \in (now \div 60) + 1 .. ((next + 59) \div 60) - 1 : ~MatchesAt(sched, k)

(* What the comments of next_cron_after claim: every expression of the     *)
(* grammar matches within a year, so next_run_at is always an instant the  *)
(* expression names and the now + 1y fallback is never taken.              *)
NextMatchesExpression ==
    sched.kind = "cron" => next % 60 = 0 /\ MatchesAt(sched, next \div 60)

(* Where that claim is right: the walk of 366 days is long enough for each *)
(* expression that names a weekday or a date of every year, also when the  *)
(* walk starts in the minute after the date and a leap day lies between.   *)
YearlyExpressionMatches ==
    sched.kind = "cron" /\ NamesYearlyDay(sched) => NextMatchesExpression
=============================================================================
