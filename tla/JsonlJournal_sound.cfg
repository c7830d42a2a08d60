SPECIFICATION Spec
CONSTANTS
  Writers = {w1, w2}
  Payloads = {a, b}
  None = None
  Garbled = Garbled
  MaxLines = 3
INVARIANTS
  AlwaysReplays
PROPERTIES
  LogSpec
