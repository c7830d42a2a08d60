SPECIFICATION Spec
CONSTANTS
  Answers <- FaultAnswers
  Cap = 2
  MaxSteps = 1
  MaxTurns = 2
  MaxContexts = 1
  Faults = {"start", "context", "run", "tools", "close"}
INVARIANT CallsInOrder
