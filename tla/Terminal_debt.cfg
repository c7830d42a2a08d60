SPECIFICATION TerminalSpec
CONSTANTS
  MaxBurst = 1
  QuietStart = FALSE
  MaxSends = 4
INVARIANT
  LeftRunning
CHECK_DEADLOCK FALSE
