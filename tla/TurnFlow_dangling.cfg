SPECIFICATION Spec
CONSTANTS
  Answers <- SmallAnswers
  Cap = 2
  MaxSteps = 1
  MaxTurns = 2
  MaxContexts = 0
  Faults = {"tools"}
INVARIANT NoDanglingCall
