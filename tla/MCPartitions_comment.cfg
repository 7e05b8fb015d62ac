CONSTANTS
  FirstMonth <- December2023
  LastMonth <- April2024
  Days <- TurnDays
SPECIFICATION Spec
INVARIANTS CurrentAndNextTwo
CHECK_DEADLOCK FALSE
