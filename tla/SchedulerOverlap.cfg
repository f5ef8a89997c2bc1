\* An ad-hoc run and a scheduled run of one preset at the same time.
SPECIFICATION Spec
CONSTANTS
    j1 = j1
    j2 = j2
    s1 = s1
    s2 = s2
    adhoc = adhoc
    Jobs = {j1, j2}
    AdHoc = adhoc
    Slots = {s1, s2}
    EndpointCount = 1
    MaxRecords = 2
    MaxAdHoc = 1
    MaxEdits = 0
    MaxMishaps = 0
INVARIANTS
    SettledCursorCovered
CHECK_DEADLOCK FALSE
