SPECIFICATION FairSpec
CONSTANTS
  Moves <- MovesMC
  CounterOf <- CounterMC
  Scrapes = {1, 2}
  MaxEdits = 1
INVARIANTS
  TypeOK
  LastReportIsCurrent
PROPERTIES
  CountersGrow
  OpsEnd
CHECK_DEADLOCK FALSE
