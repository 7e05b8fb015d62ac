CONSTANTS
  Agents = {a1}
  VolumeColumns <- UpgradedVolume
  MaxPosts = 3
SPECIFICATION Spec
INVARIANTS TypeOK Identity AtMostOnce AckedIsStored StreamedIsStored OvertakenWasForsaken NewestServed
CHECK_DEADLOCK FALSE
