CONSTANTS
  Gauges = {used, total}
  used = used
  total = total
  Limit = 2
  StreamCap = 1
  Polls = {p1, p2}
  p1 = p1
  p2 = p2
  MaxTime = 2
SPECIFICATION FairSpec
INVARIANTS TypeOK OneSocket NoHistory
PROPERTIES Resumes Populates
CHECK_DEADLOCK FALSE
