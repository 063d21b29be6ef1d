SPECIFICATION MCSpec
CONSTANTS
    p1 = p1
    p2 = p2
    r1 = r1
    r2 = r2
    b1 = b1
    b2 = b2
    m1 = m1
    NoRepo = NoRepo
    NoItem = NoItem
    Procs <- TwoProcs
    Repos <- TwoRepos
    Blobs <- TwoBlobs
    Manifests <- OneManifest
    Layers <- BothLayers
    Cleaners <- AllCleaners
    s1 = s1
    s2 = s2
    n1 = n1
    n2 = n2
    NoSession = NoSession
    Requests <- TwoProcs
    Sessions <- TwoSessions
    Keys <- TwoKeys
    Sizes <- EmptyOrNot
    AmbiguousErrors = TRUE
SYMMETRY Symm
INVARIANTS
    ManifestsComplete
    RowsHaveContent
    StagedInOrder
    RecordedChunksStored
    ReaderFindsChunks
PROPERTY LayersStayUnderManifests
