SPECIFICATION Spec
CONSTANTS
    p1 = p1
    p2 = p2
    r1 = r1
    r2 = r2
    b1 = b1
    b2 = b2
    m1 = m1
    NoRepo = NoRepo
    NoItem = NoItem
    Procs <- TwoProcs
    Repos <- OneRepo
    Blobs <- OneBlob
    Manifests <- OneManifest
    Layers <- OneLayer
    Cleaners <- OnlyGc
ACTION_CONSTRAINT QuickHandlers
INVARIANT AllManifestsComplete
