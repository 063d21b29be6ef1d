SPECIFICATION FairSpec
CONSTANTS
    w1 = w1
    w2 = w2
    d1 = d1
    Web = Web
    None = None
    Workers <- TwoWorkers
    Images <- OneImage
    MaxAttempts = 2
    InlinePerTick = 1
    MaxPushes = 2
    MaxMishaps = 2
INVARIANTS
    OneScannerPerTask
    
PROPERTIES
    
    QueuedTasksMove
