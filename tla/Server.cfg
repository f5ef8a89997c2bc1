SPECIFICATION ServerSpec
CONSTANTS
    Key = {k1, k2}
    Token = 2
    Burst = 2
    IdleEvict = 4
    Threshold = 1
    MaxTime = 5
    Run = {r1}
    Parent = {7}
    CallId = {i1}
    Summaries = {1, 2}
    MinSummaries = 2
    MaxIterations = 2
    MaxTokens = 1
    TurnTokens = {1, 2}
    MaxCalls = 2
    Asker = {a1}
    Hook = {h1, h2}
    Finding = {x1, x2}
    Column = c1
    ColumnOf <- MCColumnOf
    Sig = {s1}
    Keep = 1
    Debounce = 1
    MaxClock = 1
    MaxRuns = 2
    MaxChanges = 1
    MaxFaults = 1
    Source = {src1, src2}
    Uploads = {up1}
    Table = {t1}
    Client = {cl1, cl2}
    MaxFiles = 3
    MaxQueries = 2
    Entry = {1, 2}
    Handler = {hd1}
    FeedCapacity = 1
    BatchCap = 1
    MaxTicks = 2
    MaxBreaks = 1
SYMMETRY Alike
INVARIANTS
    AgentRunsSound
    InsightRunsSound
    AnswersOneTable
    NothingSkipped
    AttemptsBounded
CHECK_DEADLOCK FALSE
