\* An ad-hoc run beside the scheduled ones; a job deleted and created anew.
SPECIFICATION Spec
CONSTANTS
    j1 = j1
    j2 = j2
    s1 = s1
    s2 = s2
    adhoc = adhoc
    Jobs = {j1, j2}
    AdHoc = adhoc
    Slots = {s1, s2}
    EndpointCount = 1
    MaxRecords = 1
    MaxAdHoc = 1
    MaxEdits = 2
    MaxMishaps = 1
INVARIANTS
    JobRunsOnce
    DeletedStaysDeleted
CHECK_DEADLOCK FALSE
