SPECIFICATION Spec
CONSTANTS
  g1 = g1
  g2 = g2
  alice = alice
  bob = bob
  f1 = f1
  f2 = f2
  m1 = m1
  m2 = m2
  Gateways = {g1, g2}
  Users = {alice, bob}
  Fds = {f1}
  Msgs = {m1}
  MaxCopies = 1
  MaxFaults = 0
  NoUser = NoUser
  Closed = Closed
  NoMsg = NoMsg
  NoGateway = NoGateway
PROPERTIES
  PopReachesSession
