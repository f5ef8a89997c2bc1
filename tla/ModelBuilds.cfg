CONSTANTS
    c1 = c1
    c2 = c2
    Callers = {c1, c2}
    MaxOps = 3
    MaxWrites = 2
    MaxMishaps = 1
SPECIFICATION Spec
INVARIANTS
    OutputSound
    NoBuildLeftRunning
PROPERTIES
    VersionsImmutable
    EventuallyDone
CHECK_DEADLOCK FALSE
