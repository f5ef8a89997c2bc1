\* Every operation, two callers, the index, one deletion race.
SPECIFICATION Spec
CONSTANTS
    w1 = w1
    w2 = w2
    k1 = k1
    k2 = k2
    Writers = {w1, w2}
    Keys = {k1, k2}
    Kinds = {"merge", "materialize", "strip", "rewrite", "append", "overwrite"}
    Batches <- One
    MayDelete = TRUE
    MaxOps = 2
    MaxExtras = 1
INVARIANT
    CatalogSound
PROPERTIES
    VersionSound
    ImplementsAtomicTable
SYMMETRY Symmetry
CHECK_DEADLOCK FALSE
