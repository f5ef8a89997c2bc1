\* Scheduled runs only: failed steps, restarts, schedule changes, deletion.
SPECIFICATION Spec
CONSTANTS
    j1 = j1
    j2 = j2
    s1 = s1
    s2 = s2
    adhoc = adhoc
    Jobs = {j1, j2}
    AdHoc = adhoc
    Slots = {s1, s2}
    EndpointCount = 1
    MaxRecords = 2
    MaxAdHoc = 0
    MaxEdits = 1
    MaxMishaps = 1
PROPERTIES
    CursorSound
    EventuallySynced
CHECK_DEADLOCK FALSE
