CONSTANTS
  Retain = 4
  Period = 3
  MaxAge = 8
SPECIFICATION FairSpec
INVARIANTS TypeOK AgeBound
PROPERTIES NothingYoungLost OldRowsGoIfUp
