CONSTANTS
  a = a  b = b  c = c  v1 = v1  v2 = v2  p1 = p1  p2 = p2
  Vendors = {"azure"}
  Services = {"svc1", "svc2"}
  Products = {a, b}
  Contents = {v1, v2}
  ServiceVendor <- OneServiceVendor
  ServiceOf <- OneServiceOf
  Procs = {p1}
  Commands = {p1}
  VendorOf <- OneVendorOf
  CommandOf <- EachItsCommand
  AWSTasks = {}
  EC2Regions = {}
  Discoverable = {}
  BatchLen <- MCBatchLen
  ChunkSize = 1
  Concurrency = 2
  MaxRuns = 2
  LongRuns = FALSE
  Budget <- HalfDropBudget
  InitUpstream <- OneUpstream
  InitStored <- OneStored
  Absent = Absent
  NoProc = NoProc
SPECIFICATION Spec
INVARIANT HalfDropSkipsCleanup
\* The invocations are bounded and the processes end.
CHECK_DEADLOCK FALSE
