CONSTANTS
  Clients = {c1}
  Servers = {s1, s2}
  NoFilter = NoFilter
  BroadcastCap = 2
  SendCap = 2
  MaxFeed = 4
SPECIFICATION FairSpec
PROPERTIES StreamSpec Released DroppedIsClosed Delivered HubNeverBlocks
CHECK_DEADLOCK FALSE
