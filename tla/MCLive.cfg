\* The build as shipped: SQLite returns datetimes without a time zone.  Every pass and
\* request ends; rows may be cleaned up under a pass.
SPECIFICATION FairSpec
CONSTANTS
    u1 = u1
    u2 = u2
    a1 = a1
    a2 = a2
    r1 = r1
    Nobody = Nobody
    Users = {u1}
    Recipients = {a1}
    RecipientsOf <- Recipients1
    Requests = {r1}
    HoursPerDay = 6
    Horizon = 6
    Retention = 1
    DefaultConfig <- Hourly
    Bodies <- NoBodies
    TimestampsAware = FALSE
    MaxTime = 4
    MaxBeats = 1
    MaxTests = 1
    MaxCrashes = 0
PROPERTIES
    PassTerminates
