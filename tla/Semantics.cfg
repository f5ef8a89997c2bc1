SPECIFICATION Spec
CONSTANTS
  None = None
  Tables = {"t", "u"}
  Producers <- MCProducers
  Batches <- MCBatches
  Detected <- MCDetected
  Edits <- MCEdits
  MaxTime = 1
  MaxCommands = 3
INVARIANTS ResolvesStrongest RelationshipsAsDeclared
PROPERTY DeclarationsSound
CHECK_DEADLOCK FALSE
