INIT MCInit
NEXT MCNext
CONSTANTS
    r1 = r1
    r2 = r2
    d1 = d1
    d2 = d2
    g1 = g1
    t1 = t1
    t2 = t2
    b1 = b1
    b2 = b2
    o1 = o1
    e1 = e1
    e2 = e2
    a1 = a1
    a2 = a2
    Slots <- SomeSlots
    Mirrored = r1
    Tags <- SomeTags
    Rank <- SomeRanks
    Built <- SomeDates
    v1 = v1
    v2 = v2
    n1 = n1
    n2 = n2
    Latest = Latest
    Images <- TwoImages
    Immutable <- Locked
    Protected = {n1}
    Nothing = Nothing
    Overwrite = FALSE
    RepoTags <- TwoTags
    RepoImages <- OneImage
    RetentionRuns <- TwoRuns
    RetentionSettings <- OldOnes
    Shielded = {}
    NoPolicy = NoPolicy
    NoImage = NoImage
    EnforceRuns <- TwoRuns
    Graces <- TwoGraces
    MaxDays = 2
    REMINDER_DAYS = 1
    Limit = 1
    Held = 0
    MaxImages = 3
    Manifests <- ThreeManifests
    PicTags <- FirstTwo
    Layers <- OneLayer
    Sizes <- TwoLimits
    MovedRepos <- BatchRepos
    LayerBlobs <- TwoBlobs
    Origins <- OneOrigin
    Target = Target
    MaxQuota = 1
CONSTRAINTS
    ClientsBound
    EnforceBound
INVARIANTS
    MovesLoseNothing
    LatestFollowsNewest
    PlanFits
    PreviewIsTheRun
PROPERTIES
    NewestTagsSurvive
    PrunedAfterGrace
CHECK_DEADLOCK FALSE
SYMMETRY SomeSymmetry
