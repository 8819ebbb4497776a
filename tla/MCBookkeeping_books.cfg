CONSTANTS
  r1 = r1
  r2 = r2
  r3 = r3
  read = read
  write = write
  Free = Free
  Garbage = Garbage
  Requests = {r1, r2, r3}
  Queues = {read, write}
  QueueOf <- QueueOfMC
  Length <- LengthMC
  LineSize <- LineSizeMC
  LockOf <- LockOfMC
  MaxBuffer = 6
  PerformanceValues = 2
  Period_ns = 1
  MinRequests = 1
  MaxTime = 4
  MaxPeriods = 4
SPECIFICATION Spec
INVARIANTS TypeOK ProcessedExact AveragesPlausible TotalsAgree TraceComplete
PROPERTIES Attribution
