SPECIFICATION HarnessSpec
CONSTANTS
  Sessions = {"src", "child"}
  Processes = {p1}
  Callers = {c1, c2}
  ProcessOf <- OneProcess
  Jobs <- ForkJobs
  MaxRecords = 5
  MaxOpens = 3
  Crashes = TRUE
  Openers = {h1}
  Builds = {b1}
  StoreOf <- OneStore
  Versions = {1, 2}
  Absent = Absent
  Partial = Partial
  MaxWrites = 4
  MaxLosses = 2
  MaxBurst = 1
  QuietStart = FALSE
  MaxSends = 4
  MaxFrames = 3
  MaxUpdates = 2
  TimesOut = TRUE
  Reloads = FALSE
  Writers = {w1, w2}
  None = None
  Garbled = Garbled
  Payloads = {a, b}
  MaxLines = 3
  Plugins = {a1, a2, a3}
  Unknown = Unknown
  Children = {k1, k2}
  Keep = 1
  MaxPrinted = 2
  Sizes <- MCSizes
  Height <- MCHeight
  Matches <- MCMatches
  Resumed <- MCResumed
  Block = 2
  MaxSaid = 5
  MaxNotes = 1
  MaxKeys = 1
INVARIANTS
  JournalsAgree
  NeverSilentlyLost
  ReportsOwnCommand
  PromptHeardOut
  StoredAndDated
  DependenciesUp
  LeavesNoHolder
PROPERTIES
  KeepsItsPlace
  FindShows
CHECK_DEADLOCK FALSE
