\* The chain of upcoming heartbeats across daylight-saving changes.
SPECIFICATION Spec
CONSTANTS
    MinutesPerHour = 2
    HoursPerDay = 6
    Zones <- MCZones
    Intervals <- MCIntervals
    Instants <- MCInstants
    Length = 4
INVARIANTS
    TypeOK
    LandsInWindow
    NeverEarly
    NoActiveMinuteSkipped
\* The chain ends after Length times.
CHECK_DEADLOCK FALSE
