SPECIFICATION LiveSpec
CONSTANTS
  s1 = s1
  s2 = s2
  r1 = r1
  Senders = {s1, s2}
  Receivers = {r1}
  Depth = 2
INVARIANTS NoLostWakeup
PROPERTIES RecvProgress SendProgress
