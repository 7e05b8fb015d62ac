CONSTANTS
  FirstMonth <- December2023
  LastMonth <- April2024
  Days <- TurnDays
SPECIFICATION Spec
INVARIANTS TypeOK StartMonthAccepted RefusalNeedsLateStart
CHECK_DEADLOCK FALSE
