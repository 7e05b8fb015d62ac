CONSTANTS
  Clients = {c1, c2}
  Servers = {s1, s2}
  NoFilter = NoFilter
  BroadcastCap = 2
  SendCap = 1
  MaxFeed = 3
SPECIFICATION Spec
SYMMETRY ClientSymmetry
INVARIANTS TypeOK PanicFree NoZombie NoGap
CHECK_DEADLOCK FALSE
