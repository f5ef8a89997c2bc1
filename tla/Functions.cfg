SPECIFICATION Spec
CONSTANTS
    None = None
    Count = Count
    A = A
    B = B
    T = T
    P = P
INVARIANTS
    SeriesSound
    ReportsSound
    QueriesSound
    TextSound
    EventsAnswered
    ImportSound
CHECK_DEADLOCK FALSE
