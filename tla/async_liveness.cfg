SPECIFICATION FairSpec
CONSTANTS
  None = None
  Writes = {w1, w2}
  Criticals = {}
  Flushes = {f1, f2}
  Closes = {c1}
  w1 = w1
  w2 = w2
  f1 = f1
  f2 = f2
  c1 = c1
  Strategies = {"block", "drop_oldest", "handoff"}
  BufferSize = 1
  RetryEnabled = FALSE
  MaxRetries = 1
  FaultyWrite = FALSE
  FaultySync = FALSE
  StandardStream = FALSE
PROPERTIES
  AcceptedIsResolved
  CallsReturn
