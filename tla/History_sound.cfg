SPECIFICATION Spec
CONSTANTS
  Window = 8
  Envelope = 1
  Pruning = TRUE
  Long = 3
  Short = 2
  SummaryCosts = {1, 4}
  Batches = {0, 2}
  MaxSteps = 2
  MaxTurns = 2
INVARIANTS
  SurfaceCovers
  RequestSound
CHECK_DEADLOCK FALSE
