------------------------------ MODULE Upcoming ------------------------------
(***************************************************************************)
(* The chain of heartbeat times that the schedule of a user produces: each *)
(* one is compute_next_heartbeat of the one before.  The dashboard         *)
(* (app/api/web.py) shows the first three of it; the dispatcher walks      *)
(* along it, one step per heartbeat sent.                                  *)
(***************************************************************************)
EXTENDS ActiveWindow, Sequences

CONSTANTS
    Zones,        \* the time zones considered, each with one transition
    Intervals,    \* values of heartbeat_interval_hours
    Instants,     \* instants that next_heartbeat_at may start from
    Length        \* number of upcoming times computed (3 on the dashboard)

ASSUME ChainAssumption == /\ Zones \subseteq Zone
                          /\ Intervals \subseteq Nat \ {0}
                          /\ Instants \subseteq Int
                          /\ Length \in Nat \ {0}

VARIABLES
    schedule,     \* the columns of the user that the computation reads
    upcoming      \* upcoming_times

vars == <<schedule, upcoming>>

Schedule == [zone: Zones, interval: Intervals, start: Hours, end: Hours]

TypeOK == /\ schedule \in Schedule
          /\ upcoming \in Seq(Int)
          /\ Len(upcoming) \in 1 .. Length

Last(s) == s[Len(s)]

HeartbeatAfter(after) ==
    ComputeNextHeartbeat(schedule.zone, after, schedule.interval,
                         schedule.start, schedule.end)

Init == /\ schedule \in Schedule
        /\ \E t \in Instants : upcoming = <<t>>

\* Mutant: the loop takes one turn too many.
Extend_OneMore == /\ Len(upcoming) <= Length
                  /\ upcoming' = Append(upcoming, HeartbeatAfter(Last(upcoming)))
                  /\ UNCHANGED schedule

\* One turn of the loop that chains compute_next_heartbeat.
Extend == /\ Len(upcoming) < Length
          /\ upcoming' = Append(upcoming, HeartbeatAfter(Last(upcoming)))
          /\ UNCHANGED schedule

Next == Extend

Spec == Init /\ [][Next]_vars

-----------------------------------------------------------------------------

InWindow(t) ==
    HourInActiveWindow(HourOf(ToLocal(schedule.zone, t).wall),
                       schedule.start, schedule.end)

Computed == 2 .. Len(upcoming)

\* The earliest instant at which the heartbeat after the i-th one may go out.
Earliest(i) == upcoming[i] + schedule.interval * MinutesPerHour

\* The wall-clock hour that the clocks skip when they go forward.
SkippedHours(z) ==
    IF z.before < z.after
    THEN {HourOf(w) : w \in (z.at + z.before) .. (z.at + z.after - 1)}
    ELSE {}

\* There is an active hour on every day: the window is not empty, and it is
\* not made only of hours that the clocks skip on the day they go forward.
WindowOpensDaily ==
    \E h \in Hours \ SkippedHours(schedule.zone) :
        HourInActiveWindow(h, schedule.start, schedule.end)

\* Every computed heartbeat falls inside the user's active hours, on either
\* side of a daylight-saving change (compute_next_heartbeat, which pushes a
\* candidate into the window and converts the wall time back to UTC).
LandsInWindow ==
    WindowOpensDaily => \A i \in Computed : InWindow(upcoming[i])

\* Two heartbeats are never closer than the interval: pushing a candidate into
\* the window never moves it back, even when the clocks do.
NeverEarly ==
    \A i \in Computed : upcoming[i] >= Earliest(i - 1)

\* The push skips no active minute: between the end of the interval and the
\* heartbeat that was scheduled, the user was outside the active hours.
NoActiveMinuteSkipped ==
    WindowOpensDaily =>
        \A i \in Computed :
            \A t \in Earliest(i - 1) .. (upcoming[i] - 1) : ~ InWindow(t)

=============================================================================
