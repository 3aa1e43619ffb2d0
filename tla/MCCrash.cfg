\* A crash anywhere in a pass over two users, one of whom has two recipients
\* and the other none.
SPECIFICATION FairSpec
CONSTANTS
    u1 = u1
    u2 = u2
    a1 = a1
    a2 = a2
    r1 = r1
    Nobody = Nobody
    Users = {u1, u2}
    Recipients = {a1, a2}
    RecipientsOf <- Recipients2
    Requests = {}
    HoursPerDay = 6
    Horizon = 6
    Retention = 3
    DefaultConfig <- Hourly
    Bodies <- NoBodies
    TimestampsAware = TRUE
    MaxTime = 6
    MaxBeats = 2
    MaxTests = 0
    MaxCrashes = 2
INVARIANTS
    EscalationBeforeMiss
    LinkIsLive
    AuditMatchesMail
PROPERTIES
    PassTerminates
