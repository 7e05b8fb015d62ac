CONSTANTS
  MaxChecks = 2
  Period = 5
  GetTimeout = 1
  DialTimeout = 1
  PostTimeout = 1
SPECIFICATION FairSpec
INVARIANTS TypeOK RoundEnds RoundsBounded HeldBounded
PROPERTIES ReportsIfUp QuitObeyed
