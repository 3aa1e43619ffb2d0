SPECIFICATION Spec
CONSTANTS
    a1 = a1
    a2 = a2
    s1 = s1
    s2 = s2
    r1 = r1
    t1 = t1
    t2 = t2
    c1 = c1
    c2 = c2
    Nobody = Nobody
    Visitor = a1
    Accounts = {a1, a2}
    Secrets = {s1, s2}
    Recipients = {r1}
    Tabs = {t1, t2}
    Calls = {c1, c2}
    Early = {t2}
    HolderOf <- Holders
    MaxActs = 3
INVARIANTS
    TypeOK
    OwnRecipients
    RemovedRowsAreGone
    DropdownIsOneList
    CountedWereStored
PROPERTIES
    ComesToRest
CHECK_DEADLOCK FALSE
