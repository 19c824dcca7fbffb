SPECIFICATION FairSpec
CONSTANTS
  f1 = f1
  f2 = f2
  alice = alice
  bob = bob
  m1 = m1
  m2 = m2
  Ids = {m1, m2}
  Fds = {f1, f2}
  Users = {alice}
  MAX_RETRIES = 2
  Closed = Closed
  NoEntry = NoEntry
INVARIANTS
  TypeOK
  OneFate
  NoStaleRetry
PROPERTIES
  DeliverySpec
  DeliverySettles
  Backoff
