SPECIFICATION Spec
CONSTANTS
  None = None
  Writes = {w1}
  Criticals = {}
  Flushes = {}
  Closes = {c1}
  w1 = w1
  c1 = c1
  Strategies = {"drop_newest"}
  BufferSize = 1
  RetryEnabled = TRUE
  MaxRetries = 1
  FaultyWrite = TRUE
  FaultySync = FALSE
  StandardStream = FALSE
INVARIANTS
  WriteNeverPanics
