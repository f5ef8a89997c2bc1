SPECIFICATION Spec
CONSTANTS
    r1 = r1 r2 = r2 c1 = c1 c2 = c2 s1 = s1 s2 = s2 j1 = j1 j2 = j2
    Row <- TwoRows
    Content <- SharedContent
    RunSpec = {s1, s2}
    Job = {j1, j2}
    MaxRequests = 3
    MaxFaults = 1
INVARIANTS
    MergedKept
    CacheOnlySaved
    NoRunAbandoned
PROPERTIES
    ShowsWhatItComputed
CHECK_DEADLOCK FALSE
SYMMETRY Symmetric
