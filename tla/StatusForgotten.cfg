SPECIFICATION Spec
CONSTANTS
  aws = aws
  p1 = p1
  absent = absent
  Absent = absent
  Vendors <- OneVendor
  Polls <- OnePoll
  Counts <- TwoCounts
  MaxRuns = 3
  StaleAge = 1
  MaxTime = 4
  Retention = TRUE
  QueryFaults = TRUE
INVARIANTS
  NeverMeansNoRun
CHECK_DEADLOCK FALSE
