SPECIFICATION Spec
CONSTANTS
  None = None
  Writes = {w1, w2, w3}
  Criticals = {}
  Flushes = {f1}
  Closes = {c1}
  w1 = w1
  w2 = w2
  w3 = w3
  f1 = f1
  c1 = c1
  Strategies = {"drop_newest", "block", "drop_oldest", "handoff"}
  BufferSize = 1
  RetryEnabled = FALSE
  MaxRetries = 1
  FaultyWrite = TRUE
  FaultySync = FALSE
  StandardStream = FALSE
SYMMETRY CallSymmetry
INVARIANTS
  TypeOK
  FateInv
  RealTimeOrder
  BarrierPromise
PROPERTIES
  RefinesLogDelivery
