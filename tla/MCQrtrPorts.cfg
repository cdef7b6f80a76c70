SPECIFICATION Spec
CONSTANTS
  s1 = s1
  s2 = s2
  s3 = s3
  Sockets <- MCThree
  Deliverers = {d1}
  MinEph = 2
  MaxEph = 2
  Admins = {s1}
  NoSocket = NoSocket
  MaxSends = 2
  MaxBinds = 3
INVARIANTS TableAgrees RefsCount OwnersApart
CHECK_DEADLOCK FALSE
