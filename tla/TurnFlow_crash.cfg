SPECIFICATION FairSpec
CONSTANTS
  Answers <- SmallAnswers
  Cap = 2
  MaxSteps = 2
  MaxTurns = 2
  MaxContexts = 0
  Faults = {"start", "run", "tools"}
INVARIANT BalancedWhenIdle
PROPERTY TurnEnds
