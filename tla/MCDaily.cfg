\* Heartbeats further apart than two response windows, pauses and resumptions.
SPECIFICATION Spec
CONSTANTS
    u1 = u1
    u2 = u2
    a1 = a1
    a2 = a2
    r1 = r1
    Nobody = Nobody
    Users = {u1}
    Recipients = {a1}
    RecipientsOf <- Recipients1
    Requests = {r1}
    HoursPerDay = 6
    Horizon = 6
    Retention = 3
    DefaultConfig <- Spaced
    Bodies <- PauseResume
    TimestampsAware = TRUE
    MaxTime = 12
    MaxBeats = 2
    MaxTests = 0
    MaxCrashes = 0
INVARIANTS
    VerdictInTime
    EscalatedInTime
    NeverOverdue
