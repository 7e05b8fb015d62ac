CONSTANTS
  Agents = {a1}
  VolumeColumns <- FreshVolume
  MaxPosts = 1
SPECIFICATION FairSpec
PROPERTIES Registers
CHECK_DEADLOCK FALSE
