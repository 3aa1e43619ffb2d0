---------------------------- MODULE ActiveWindow ----------------------------
(***************************************************************************)
(* When the next heartbeat of a user is due: compute_next_heartbeat and    *)
(* _hour_in_active_window of app/services/scheduler.py, with the part of   *)
(* zoneinfo they rely on (the conversion between UTC and a wall clock that *)
(* jumps at a daylight-saving transition).                                 *)
(*                                                                         *)
(* Instants and wall-clock times are integers counted in minutes; seconds  *)
(* are below the resolution of every decision the code takes.              *)
(***************************************************************************)
EXTENDS Integers

CONSTANTS
    MinutesPerHour,   \* 60 in the code; smaller instances keep TLC fast
    HoursPerDay       \* 24 in the code

ASSUME ClockAssumption == /\ MinutesPerHour \in Nat \ {0}
                          /\ HoursPerDay \in Nat \ {0}

MinutesPerDay == HoursPerDay * MinutesPerHour

Hours == 0 .. HoursPerDay - 1

-----------------------------------------------------------------------------
(* A time zone: the UTC offset `before' the instant `at' and the one       *)
(* `after' it.  A zone without daylight saving has before = after.         *)

Zone == [before: Int, after: Int, at: Int]

FixedZone(offset) == [before |-> offset, after |-> offset, at |-> 0]

Later(a, b)   == IF a < b THEN b ELSE a
Earlier(a, b) == IF a < b THEN a ELSE b

\* datetime.astimezone(tz) of an aware UTC instant.  `fold' is 1 in the
\* repetition of the hour that the clocks go back over (PEP 495).
ToLocal(z, utc) ==
    IF utc < z.at
    THEN [wall |-> utc + z.before, fold |-> 0]
    ELSE [wall |-> utc + z.after,
          fold |-> IF utc + z.after < z.at + z.before THEN 1 ELSE 0]

\* Mutant: the offset of the zone is taken to be constant.
ToUtc_NoTransition(z, local) == local.wall - z.before

\* local.astimezone(timezone.utc): a wall time that does not exist (the clocks
\* went forward over it) is resolved by its fold, as one that occurs twice is.
ToUtc(z, local) ==
    LET jump == IF local.fold = 0 THEN Later(z.before, z.after)
                                  ELSE Earlier(z.before, z.after)
    IN  local.wall - (IF local.wall < z.at + jump THEN z.before ELSE z.after)

HourOf(wall) == (wall % MinutesPerDay) \div MinutesPerHour

\* local.replace(hour=h, minute=0, second=0): same day, same fold.
AtHour(local, h) ==
    [local EXCEPT !.wall = @ - (@ % MinutesPerDay) + h * MinutesPerHour]

\* local + timedelta(days=1): wall-clock arithmetic, whose result has fold 0.
NextDay(local) == [wall |-> local.wall + MinutesPerDay, fold |-> 0]

-----------------------------------------------------------------------------

\* The active hours are [start, end), wrapping midnight when start > end.
HourInActiveWindow(hour, start, end) ==
    IF start <= end THEN start <= hour /\ hour < end
                    ELSE hour >= start \/ hour < end

\* Mutant: a candidate past today's window is pushed to today's window start.
NextWindowStart_Today(local, start, end) == AtHour(local, start)

\* Mutant: the push always goes to the next day.
NextWindowStart_Tomorrow(local, start, end) == NextDay(AtHour(local, start))

\* The window start that a candidate outside the active hours is pushed to.
NextWindowStart(local, start, end) ==
    IF start <= end /\ HourOf(local.wall) >= end
    THEN NextDay(AtHour(local, start))
    ELSE AtHour(local, start)

\* compute_next_heartbeat(user, after): `after' plus the interval, pushed
\* forward to the next window start when it falls outside the active hours.
ComputeNextHeartbeat(z, after, interval, start, end) ==
    LET candidate == after + interval * MinutesPerHour
        local     == ToLocal(z, candidate)
    IN  IF HourInActiveWindow(HourOf(local.wall), start, end)
        THEN candidate
        ELSE ToUtc(z, NextWindowStart(local, start, end))

=============================================================================
