SPECIFICATION MCSpec
CONSTANTS
    r1 = r1
    r2 = r2
    m1 = m1
    j1 = j1
    h1 = h1
    e1 = e1
    e2 = e2
    u1 = u1
    Replicas <- TwoReplicas
    Manual <- OneByHand
    Jobs <- OneJob
    None = None
    Orphan = Orphan
    MaxFaults = 3
    Hooks <- OneHook
    Occurrences <- TwoOccurrences
    Managers <- OnePerson
    Admins <- OnePerson
    Subscriptions <- OneSubscription
    MaxHooks = 1
    MaxLog = 1
    MaxTries = 2
INVARIANT
    OneScheduledRun
PROPERTIES
    DueJobsRun
    WaitingEventsAreDrained
    FailuresAreTold
