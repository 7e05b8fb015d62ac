CONSTANTS
  MaxListed = 2
  Words = 4
  Window = 1
  MaxTicks = 4
  MaxTroubles = 1
SPECIFICATION Spec
INVARIANTS TypeOK Current RatesAreReal ReadsAreReal
CHECK_DEADLOCK FALSE
