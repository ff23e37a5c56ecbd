SPECIFICATION Spec
CONSTANTS
  None = None
  Writes = {w1, w2}
  Criticals = {k1}
  Flushes = {}
  Closes = {c1}
  w1 = w1
  w2 = w2
  k1 = k1
  c1 = c1
  Strategies = {"drop_newest", "block", "drop_oldest", "handoff"}
  BufferSize = 1
  RetryEnabled = TRUE
  MaxRetries = 1
  FaultyWrite = TRUE
  FaultySync = TRUE
  StandardStream = FALSE
SYMMETRY CallSymmetry
INVARIANTS
  ReturnsAreHonest
  MetricsBalance
