SPECIFICATION FairSpec
CONSTANTS
  BatchSize = 2
  MaxEvents = 5
INVARIANTS
  TypeOK
  OnePlaceEach
  OrderKept
PROPERTIES
  EveryEventIsPosted
  ShutdownReturns
CHECK_DEADLOCK FALSE
