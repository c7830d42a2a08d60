SPECIFICATION RecordsSpec
CONSTANTS
  Subscribers = {s1, s2}
  FromSeqs = {0, 1, 3}
  Omitted = Omitted
  MaxEvents = 3
  Units = {u1, u2}
  Vers = {1, 2}
  Drivers = {d1}
  MaxLines = 3
  MaxBuilds = 3
  Objectives = {o1, o2}
  MaxChanges = 4
  Sessions = {1, 2, 3, 4}
  Root = 1
  NoLink = 0
  Accepted = {a1, a2}
  Rejected = {r1}
  Torn = torn
  QuietPolls = 2
  PutsBack = FALSE
  MaxEdits = 5
  Payloads = {e1, e2}
  Handles = {h1, h2}
  Seeds <- MCSeeds
  MaxRows = 3
  RunIds = {g1}
  Workers = {w1, w2}
  StepCount = 2
  Claims = TRUE
  MaxRecords = 8
  e1 = e1
  e2 = e2
INVARIANTS
  EverythingArrives
  ValueIsFold
  RevisionNamesOneState
  FindsDelegated
  SettledIsLoaded
  TellsOneRun
PROPERTY
  SeamSpec
CHECK_DEADLOCK FALSE
