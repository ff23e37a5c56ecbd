SPECIFICATION FairSpec
CONSTANTS
  Calls = {"i", "f"}
  Levels = {2, 5}
  Level <- LevelsMC
  Logger <- LoggersMC
  HookLevels <- HooksMC
  Funcs = {"f1", "f2"}
  InitialFuncs <- FuncsMC
  Extractors = {"x"}
  Storages = {1, 2, 3, 4, 5}
  Buffers = {1, 2, 3, 4, 5}
  Sampling = TRUE
  StackTrace = TRUE
  EnableAsync = TRUE
  MaxEdits = 1
  MaxFaults = 1
INVARIANTS
  TypeOK
  OneOwner
  LinesAreOwn
  HookWindow
  OneFate
  ExitFlushes
PROPERTIES
  CallsEnd
