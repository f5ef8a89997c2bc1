SPECIFICATION Spec
CONSTANTS
    v1 = v1
    Visitors = {v1}
    DayLength = 2
    SessionTimeout = 2
    BatchSize = 2
    RegisterMayFail = FALSE
    MaxEvents = 3
    MaxTime = 2
    MaxDelay = 1
    MaxMishaps = 1
INVARIANTS
    AcceptedNotLost
    FilesSound
    SessionHasNoGap
    DeletionIsFinal
PROPERTY
    EventuallyScanned
CHECK_DEADLOCK FALSE
