SPECIFICATION FairSpec
CONSTANTS
  Fds = {f1}
  Capacity = 2
  Cost = 2
  Second = 3
  Providers = 1
  Limit = 2
  MaxRequests = 2
  Window = 4
INVARIANTS
  TypeOK
  AnsweredOnce
  RateBound
PROPERTIES
  RetryAfterKept
  AnsweredWhileActive
CHECK_DEADLOCK FALSE
