SPECIFICATION StagingSpec
CONSTANTS
    q1 = q1
    q2 = q2
    t1 = t1
    NoSession = NoSession
    Handlers <- TwoRequests
    Sessions <- OneSession
    BodyPieces = 2
    MaxPieces = 5
INVARIANTS
    StagedAtExpectedOffset
CHECK_DEADLOCK FALSE
