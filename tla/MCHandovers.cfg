SPECIFICATION MCSpec
CONSTANTS
    e1 = e1
    r1 = r1
    h1 = h1
    h2 = h2
    NoEvent = NoEvent
    Events <- OneEvent
    Routes <- OneRoute
    Drains <- TwoDrains
    Faults <- CrashesAndWrites
    MaxAttempts = 2
    Tries = 2
    p1 = p1
    p2 = p2
    s1 = s1
    n1 = n1
    n2 = n2
    NoSession = NoSession
    Requests <- TwoRequests
    Sessions <- OneSession
    Keys <- TwoKeys
    Sizes <- EmptyOrNot
    AmbiguousErrors = FALSE
INVARIANT
    OneHandlerPerEvent
PROPERTIES
    ImplementsDelivery
    DeliveredIsFinal
    RecordedEventsEnd
    ImplementsLog
    OrphansAreSwept
