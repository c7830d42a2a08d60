SPECIFICATION FairSpec
CONSTANTS
  Prompters = {p1, p2}
  Stoppers = {s1}
  Drainer = d
  MaxTurns = 2
  MaxSteps = 2
INVARIANTS
  OneTurnAtATime
PROPERTIES
  ZeroMeansClosed
  HeardOnceStarted
  BusyEnds
CHECK_DEADLOCK FALSE
