INIT MCInit
NEXT MCNext
CONSTANTS
    p1 = p1
    p2 = p2
    p3 = p3
    t1 = t1
    t2 = t2
    d1 = d1
    d2 = d2
    r1 = r1
    r2 = r2
    q1 = q1
    q2 = q2
    None = None
    Procs <- Three
    Tags <- TwoTags
    Digests <- Two
    Immutable <- OneTag
    Protected <- OtherTag
    NoSession = NoSession
    Handlers <- TwoRequests
    Sessions <- OneTag
    BodyPieces = 2
    MaxPieces = 5
    Nowhere = Nowhere
    MaxRenames = 3
    MaxOverlapping = 2
    Orgs <- Two
    Slugs <- Three
    Names <- Two
    Repos <- TwoRepos
    Requests <- TwoRequests
    MaxPattern = 4
    MaxName = 4
    Patterns <- ShortPatterns
    TagNames <- ShortNames
SYMMETRY Symm
INVARIANTS
    AppendsKeepTheirBytes
    NamesResolve
    NoStrangers
    MatchesByDefinition
PROPERTIES
    FoundImmutableTagsStay
CHECK_DEADLOCK FALSE
