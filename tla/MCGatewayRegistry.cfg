SPECIFICATION Spec
CONSTANTS
  Gateways = {g1, g2}
  Region = {g1}
  Interval = 1
  Timeout = 2
  MaxDelay = 1
  MaxFaults = 1
  Nobody = Nobody
  NoData = NoData
INVARIANTS
  TypeOK
  EvictedOnlyIfLate
  MembersHaveData
  ChosenIsFresh
