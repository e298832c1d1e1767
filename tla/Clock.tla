------------------------------- MODULE Clock -------------------------------
(***************************************************************************)
(* The clock of the head (class Esp32Clock, core/src/clock.cpp), as the    *)
(* head task uses it: the host sets the time, its offset from UTC and the  *)
(* time of day at which watering starts; a pass of the loop finds watering *)
(* due and moves on to the next point in time.                             *)
(*                                                                         *)
(* Time is UTC in minutes since the epoch, the unit the host can set; a    *)
(* day has DayLength of them and a week WeekLength days.  A pass of the    *)
(* loop that looks at the clock comes every 600 ms, except in a pairing,   *)
(* which these models leave out: time does not go on while watering is     *)
(* due.  The program is built with a PhaseLength of one minute             *)
(* (DEV_PHASE_LEN, core/include/constants.hpp:66); a day is the one it is  *)
(* meant to have later.                                                    *)
(***************************************************************************)
EXTENDS Integers, Sequences

CONSTANTS
  DayLength,     \* minutes of a day
  WeekLength,    \* days of the watering cycle
  PhaseLength,   \* phase_length, the step of the search for the next point
  OffsetRange,   \* OFFSET_RANGES
  MinValid,      \* MIN_VALID_EPOCH
  BootStart,     \* the start time set by HeadEntrypointTask::run
  MaxStart,      \* the start times a host can write: any two bytes, in minutes
  MaxTime,       \* how far time is explored
  MaxSets,       \* how many settings of the host are explored
  MaxRestarts    \* how many restarts are explored

ASSUME LengthsAssumption ==
  {DayLength, WeekLength, PhaseLength} \subseteq Nat \ {0}
ASSUME OffsetAssumption == OffsetRange \subseteq Int /\ 0 \in OffsetRange
ASSUME TimesAssumption ==
  /\ MinValid \in Nat /\ MaxTime \in Nat
  /\ MaxSets \in Nat /\ MaxRestarts \in Nat
ASSUME BootAssumption == BootStart \in Nat /\ MaxStart \in Nat

VARIABLES
  now,                   \* the system clock
  UTC_OFFSET_MIN,
  synced,
  phase_start_schedule,  \* hour and minute at which watering starts
  next_watering_point,
  at,                    \* inside set_time, or "idle"
  since,                 \* when the clock or the start time was last set
  rounds,                \* what has come due since: its point and phase
  written,               \* the start time the host has written last
  sets, restarts         \* settings and restarts so far

settings == <<UTC_OFFSET_MIN, synced, phase_start_schedule>>
history == <<since, rounds, written>>
counters == <<sets, restarts>>
vars == <<now, settings, next_watering_point, at, history, counters>>

NoTime == -1

Local(t, offset) == t + offset
TimeOfDay(t, offset) == Local(t, offset) % DayLength
Day(t, offset) == Local(t, offset) \div DayLength
Weekday(t, offset) == (Day(t, offset) + 4) % WeekLength

\* Mutant: the start time itself counts as still to come.
NextPoint_mutant(time, offset, start) ==
  LET local == Local(time, offset)
      candidate == Day(time, offset) * DayLength + start
      steps == IF local <= candidate THEN 0
               ELSE (local - candidate) \div PhaseLength + 1
  IN  candidate + steps * PhaseLength - offset
\* The point that recalculate_next_watering_point finds: from the start time
\* of the local day on in steps of PhaseLength, the first one that is later.
\* An hour of 24 or more puts the start time on a later day.
NextPoint(time, offset, start) ==
  LET local == Local(time, offset)
      candidate == Day(time, offset) * DayLength + start
      steps == IF local < candidate THEN 0
               ELSE (local - candidate) \div PhaseLength + 1
  IN  candidate + steps * PhaseLength - offset

\* Mutant: the next point is taken before the new values.
recalculate_next_watering_point_mutant ==
  next_watering_point' = NextPoint(now, UTC_OFFSET_MIN, phase_start_schedule)
recalculate_next_watering_point ==
  next_watering_point' = NextPoint(now', UTC_OFFSET_MIN', phase_start_schedule')

\* The constructor, and run() of HeadEntrypointTask; RTC memory may be lost.
Init ==
  /\ now = 0
  /\ UTC_OFFSET_MIN = 0
  /\ synced = FALSE
  /\ phase_start_schedule = BootStart
  /\ next_watering_point = NextPoint(0, 0, BootStart)
  /\ at = "idle"
  /\ since = 0 /\ rounds = <<>>
  /\ written = NoTime
  /\ sets = 0 /\ restarts = 0

restart ==
  /\ restarts < MaxRestarts
  /\ restarts' = restarts + 1
  /\ now' \in {0, now}
  /\ UTC_OFFSET_MIN' = 0
  /\ synced' = FALSE
  /\ phase_start_schedule' = BootStart
  /\ recalculate_next_watering_point
  /\ at' = "idle"
  /\ since' = now' /\ rounds' = <<>>
  /\ UNCHANGED <<written, sets>>

-----------------------------------------------------------------------------
is_watering_due == synced /\ now >= next_watering_point

tick ==
  /\ now < MaxTime
  /\ at = "idle" /\ ~is_watering_due
  /\ now' = now + 1
  /\ UNCHANGED <<settings, next_watering_point, at, history, counters>>

\* set_time: the clock and the offset first, unless they are INVALID_TIME;
set_time(time, offset) ==
  LET valid == offset \in OffsetRange /\ time >= MinValid IN
  /\ at = "idle"
  /\ \/ /\ valid
        /\ sets < MaxSets
        /\ now' = time
        /\ UTC_OFFSET_MIN' = offset
        /\ at' = "recalculate"
        /\ sets' = sets + 1
     \/ ~valid /\ UNCHANGED <<now, UTC_OFFSET_MIN, at, sets>>
  /\ UNCHANGED <<synced, phase_start_schedule, next_watering_point, history,
                 restarts>>

\* then the next point.
finish_set_time ==
  /\ at = "recalculate"
  /\ UNCHANGED <<now, UTC_OFFSET_MIN, phase_start_schedule>>
  /\ recalculate_next_watering_point
  /\ synced' = TRUE
  /\ at' = "idle"
  /\ since' = now /\ rounds' = <<>>
  /\ UNCHANGED <<written, counters>>

\* The hour and the minute are taken as they are, with no look at their range.
set_next_phase_start_time(start) ==
  /\ at = "idle"
  /\ sets < MaxSets
  /\ sets' = sets + 1
  /\ phase_start_schedule' = start
  /\ written' = start
  /\ UNCHANGED <<now, UTC_OFFSET_MIN, synced, at, restarts>>
  /\ recalculate_next_watering_point
  /\ since' = now /\ rounds' = <<>>

\* Mutant: the weekday of UTC.
get_phase_of_cycle_mutant == Weekday(now, 0)
get_phase_of_cycle == Weekday(now, UTC_OFFSET_MIN)

\* Head::process_watering_schedule, when watering is due: a round of this
\* phase, if the head is free for one, and the next point in any case.
process_watering_schedule ==
  /\ at = "idle"
  /\ is_watering_due
  /\ rounds' = Append(rounds, [point |-> next_watering_point,
                               phase |-> get_phase_of_cycle])
  /\ UNCHANGED <<now, settings>>
  /\ recalculate_next_watering_point
  /\ UNCHANGED <<at, since, written, counters>>

Next ==
  \/ tick
  \/ \E time \in 0 .. MaxTime :
       \E offset \in OffsetRange \cup {DayLength} : set_time(time, offset)
  \/ finish_set_time
  \/ \E start \in 0 .. MaxStart : set_next_phase_start_time(start)
  \/ process_watering_schedule
  \/ restart

Spec == Init /\ [][Next]_vars
-----------------------------------------------------------------------------
\* What READ_CONFIGURATION shows as the start time (get_hourmin_next_phase).
reported == TimeOfDay(next_watering_point, UTC_OFFSET_MIN)

\* The schedule that the search for the next point amounts to.  A start time
\* within the day: it, and every phase after it until midnight, and the first
\* one past midnight too, on every day but the first.  An hour of 24 or more:
\* the time of day that is left of it, once in as many days as it has.
Scheduled(t) ==
  LET time == TimeOfDay(t, UTC_OFFSET_MIN)
      days == Day(t, UTC_OFFSET_MIN) - Day(since, UTC_OFFSET_MIN) IN
  \/ /\ phase_start_schedule < DayLength
     /\ (time - phase_start_schedule) % PhaseLength = 0
     /\ time >= phase_start_schedule \/ (days > 0 /\ time < PhaseLength)
  \/ /\ phase_start_schedule >= DayLength
     /\ time = phase_start_schedule % DayLength
     /\ days > 0 /\ days % (phase_start_schedule \div DayLength) = 0

\* The points that have come due since the host set anything are those of the
\* schedule that have passed since then, in this order and none twice, whatever
\* offset and start time it has set; a point that a jump of the clock has passed
\* over is not made up for, and nothing is due before the clock has been set
\* (set_time, recalculate_next_watering_point, is_watering_due).
RoundsFollowSchedule ==
  LET points == [k \in DOMAIN rounds |-> rounds[k].point]
      passed == {t \in since + 1 .. now : synced /\ Scheduled(t)}
      done == {points[k] : k \in DOMAIN points} IN
  at = "idle" =>
    /\ passed \ {now} \subseteq done /\ done \subseteq passed
    /\ \A j, k \in DOMAIN points : j < k => points[j] < points[k]

\* A round is that of the local weekday of its start time, wherever midnight
\* is for UTC (get_phase_of_cycle).
RoundsKnowTheirDay ==
  at = "idle" => \A k \in DOMAIN rounds :
    rounds[k].phase = Weekday(rounds[k].point, UTC_OFFSET_MIN)

\* What docs/ble_reads.md:231 says of the start time that READ_CONFIGURATION
\* shows, "exactly as written with `WRITE_CONF_TIME_PHASE`", at least until the
\* head restarts (get_hourmin_next_phase; set_time between its two steps aside).
ReportedAsWritten ==
  at = "idle" /\ written # NoTime /\ restarts = 0 => reported = written
=============================================================================
