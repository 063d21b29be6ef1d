SPECIFICATION FairSpec
CONSTANTS
    w1 = w1
    w2 = w2
    d1 = d1
    Web = Web
    None = None
    Workers <- OneWorker
    Images <- OneImage
    MaxAttempts = 2
    InlinePerTick = 1
    MaxPushes = 2
    MaxMishaps = 0
PROPERTIES
    NeverStalled
