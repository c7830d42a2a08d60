SPECIFICATION FairSpec
CONSTANTS
  q1 = q1
  q2 = q2
  x = x
  y = y
  Gated = {g}
  Asking = {u}
  QuestionSets <- MCQuestionSets
  Given <- MCGiven
  Nothing = Nothing
  Panic = Panic
  MaxRetries = 1
  MaxWaits = 2
  MaxSteps = 2
  MaxTurns = 2
  MaxSwitches = 1
INVARIANTS
  AsksAnswered
  RetriesCounted
PROPERTY StopCutsWaits
CHECK_DEADLOCK FALSE
