SPECIFICATION Spec
CONSTANTS
    w1 = w1
    w2 = w2
    Scripts <- AllScripts
    Workers = {w1, w2}
    InducedCap = 2
    ImportedCap = 2
    MaxOps = 2
    MaxStops = 1
INVARIANT LogTellsTruth
INVARIANT VocabularySound
INVARIANT SnapshotCurrent
PROPERTY UndoIsExact
SYMMETRY Symmetry
CHECK_DEADLOCK FALSE
