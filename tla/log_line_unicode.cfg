SPECIFICATION Spec
CONSTANTS
  Keys <- KeysMC
  Values <- ValuesMC
  Batches <- BatchesMC
  Contexts <- ContextsMC
  Messages <- UnicodeMC
  LogLevels = {1, 4}
  MaxLoggers = 2
INVARIANT LineIsJSON
