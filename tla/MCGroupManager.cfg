SPECIFICATION Spec
CONSTANTS
  Gateways = {g1, g2}
  Users = {alice, bob}
  MaxGroups = 2
  MaxRequests = 4
  MaxFaults = 1
  NoUser = NoUser
SYMMETRY Symmetry
INVARIANTS
  TypeOK
  AgreeUnlessSpoiled
  ToldTheGroup
PROPERTIES
  CreatorKept
CHECK_DEADLOCK FALSE
