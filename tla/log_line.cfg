SPECIFICATION Spec
CONSTANTS
  Keys <- KeysMC
  Values <- ValuesMC
  Batches <- BatchesMC
  Contexts <- ContextsMC
  Messages <- MessagesMC
  LogLevels = {1, 4}
  MaxLoggers = 4
INVARIANTS
  LastValueWins
  LineIsJSON
  FormatsAgree
  BufferFits
