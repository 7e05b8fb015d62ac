CONSTANTS
  Agents = {a1}
  VolumeColumns <- UpgradedVolume
  MaxPosts = 2
SPECIFICATION FairSpec
PROPERTIES Registers MovesOn
CHECK_DEADLOCK FALSE
