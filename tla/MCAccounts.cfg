INIT MCInit
NEXT MCNext
CONSTANTS
    q1 = q1
    q2 = q2
    i1 = i1
    i2 = i2
    i3 = i3
    c1 = c1
    c2 = c2
    k1 = k1
    k2 = k2
    v1 = v1
    w1 = w1
    People <- TwoPeople
    Rows <- ThreeRows
    Calls <- TwoCalls
    MemberRoles <- OwnersAndMembers
    MaxMembers = 2
    Absent = Absent
    Clients <- TwoCalls
    MaxFailures = 3
    LockTicks = 2
    Lifetimes = {1, 5, 6}
    Caps = {1, 2}
    LastQuarter = 14
    MaxSecrets = 3
    Never = Never
    Keys <- TwoKeys
    FileKey = FileKey
    NoKey = NoKey
    Verifiers <- OneVerifier
    Signers <- OneSigner
    TTL = 2
    Window = 2
    MinRefresh = 1
    SignKeys = {"ka", "kb"}
    Identities = {"ia", "ib"}
    Images = {"index", "amd64"}
    Index = "index"
    Workers <- TwoCalls
    MaxChanges = 3
INVARIANTS
    ServicesAgree
    OwnerRemains
    GuessingStops
    TokensKeepTheirLifetime
    RotationKeepsTokens
    RetiredKeysAreDropped
    VerifiedMeansVouched
    BlocksAreCurrent
CHECK_DEADLOCK FALSE
SYMMETRY CallSymmetry
