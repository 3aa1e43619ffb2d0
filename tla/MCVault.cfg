\* One request at a time, next to a trigger and its crashes.
SPECIFICATION Spec
CONSTANTS
    x1 = x1
    x2 = x2
    a1 = a1
    a2 = a2
    q1 = q1
    q2 = q2
    checker = checker
    Nobody = Nobody
    Secrets = {x1, x2}
    Recipients = {a1, a2}
    Jobs = {checker}
    Requests = {q1}
    MaxSeals = 2
    MaxTokens = 1
    MaxDeliveries = 2
INVARIANTS
    TypeOK
    OnlyAssignedIsSent
    LogHasItsToken
    LinksAreKept
    StoredSecretsOpen
PROPERTIES
    LettersAreCurrent
SYMMETRY Alike
