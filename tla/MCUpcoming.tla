----------------------------- MODULE MCUpcoming -----------------------------
(* Instances of Upcoming for TLC: a day of six hours of two minutes.       *)
EXTENDS Upcoming

\* No daylight saving, east and west of Greenwich; clocks forward and back by
\* an hour in the middle of the day, and across midnight.
MCZones == { FixedZone(0), FixedZone(-4), FixedZone(3),
             [before |-> -4, after |-> -2, at |-> 16],
             [before |-> -2, after |-> -4, at |-> 16],
             [before |->  2, after |->  4, at |-> 20],
             [before |->  2, after |->  0, at |-> 22] }

MCIntervals == {1, 2, 4, 7}

MCInstants == 0 .. 23

=============================================================================
