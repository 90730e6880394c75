CONSTANTS
  a = a  b = b  c = c  v1 = v1  v2 = v2  p1 = p1  p2 = p2
  Vendors = {"aws", "azure"}
  Services = {"rds", "ec2", "vms"}
  Products = {a, b, c}
  Contents = {v1, v2}
  ServiceVendor <- TwoServiceVendor
  ServiceOf <- TwoServiceOf
  Procs = {p1, p2}
  Commands = {"cmd"}
  VendorOf <- TwoVendorOf
  CommandOf <- SameCommand
  AWSTasks = {"rds", "ec2"}
  EC2Regions = {"ec2"}
  Discoverable = {}
  BatchLen <- MCBatchLen
  ChunkSize = 1
  Concurrency = 2
  MaxRuns = 2
  LongRuns = FALSE
  Budget <- FaultBudget
  InitUpstream <- TwoUpstream
  InitStored <- TwoStored
  Absent = Absent
  NoProc = NoProc
SPECIFICATION Spec
INVARIANTS FetchedIsServed SeenSetKept ExitsRecordOutcome
PROPERTIES RowsLeaveOnlyWhenUnlisted
\* The invocations are bounded and the processes end.
CHECK_DEADLOCK FALSE
