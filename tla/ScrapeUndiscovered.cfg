CONSTANTS
  a = a  b = b  c = c  v1 = v1  v2 = v2  p1 = p1  p2 = p2
  Vendors = {"azure"}
  Services = {"svc1", "svc2"}
  Products = {a, b}
  Contents = {v1, v2}
  ServiceVendor <- OneServiceVendor
  ServiceOf <- OneServiceOf
  Procs = {p1}
  Commands = {p1}
  VendorOf <- OneVendorOf
  CommandOf <- EachItsCommand
  AWSTasks = {}
  EC2Regions = {}
  Discoverable = {"svc2"}
  BatchLen <- MCBatchLen
  ChunkSize = 1
  Concurrency = 2
  MaxRuns = 1
  LongRuns = FALSE
  Budget <- UndiscoveredBudget
  InitUpstream <- OneUpstream
  InitStored <- OneStored
  Absent = Absent
  NoProc = NoProc
SPECIFICATION Spec
PROPERTY RowsLeaveOnlyWhenUnlisted
\* The invocations are bounded and the processes end.
CHECK_DEADLOCK FALSE
