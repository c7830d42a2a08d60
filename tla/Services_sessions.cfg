SPECIFICATION Spec
CONSTANTS
  Stores = {s1, s2}
  MaxJobs = 2
  MaxDeaths = 2
  Names = {a, b}
  Rules <- MCRules
  Never = Never
  Threads = {t1}
  MaxTime = 4
  MaxRestarts = 1
  MaxRefusals = 1
  Callers = {k}
  x = x
  y = y
  Menus <- MCMenus
  MaxAttempts = 1
  MaxLaunches = 2
  Backlog = 1
  MaxStable = 1
  MaxCalls = 4
  MaxNotices = 1
  MaxExpiries = 1
  Owners = {o1, o2}
  MaxVersions = 3
  Inputs = {m1, m2}
  m1 = m1
  Seed <- MCSeed
  MaxSplices = 3
  Runners = {r1, r2}
  Keep = 3
  MaxRuns = 2
  MaxOut = 2
  MaxNoise = 1
INVARIANT InterruptedIsDead
CHECK_DEADLOCK FALSE
