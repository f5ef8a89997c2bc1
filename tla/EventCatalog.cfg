SPECIFICATION Spec
CONSTANTS
    Events = 3
    DayOf <- MCDayOf
    BatchSize = 2
    MaxFiles = 3
    MaxFaults = 1
    MaxCommands = 2
INVARIANTS
    EventsOnDisk
    SettledScanExact
CHECK_DEADLOCK FALSE
