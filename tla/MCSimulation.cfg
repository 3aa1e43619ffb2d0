SPECIFICATION Spec
CONSTANTS
    q1 = q1
    q2 = q2
    Nobody = Nobody
    Requests = {q1, q2}
    Threshold = 2
    PageSize = 1
    MaxBeats = 3
    MaxFirings = 1
INVARIANTS
    TypeOK
    OnlyRealSilenceCounts
PROPERTIES
    RehearsalIsInvisible
    ReplyIsExact
SYMMETRY Alike
