CONSTANTS
  r1 = r1
  r2 = r2
  r3 = r3
  f1 = f1
  f2 = f2
  f1read = f1read
  f1write = f1write
  f2read = f2read
  e1 = e1
  e2 = e2
  e3 = e3
  Thread = Thread
  Free = Free
  NoQueue = NoQueue
  Queues = {f1read, f1write, f2read}
  Files = {f1, f2}
  FileOf <- FileOfMC
  LineOf <- LineOfMC
  Extents = {e1, e2, e3}
  Requests = {r1, r2, r3}
  QueueOf <- OneFile
  ExtentOf <- DistinctThree
  NLines = 2
  ZeroLength = {}
  MaxAggreg = 2
  StartAlgs = {"TO"}
  Selectable = {"SJF", "NOOP"}
  Cancelable = {r1}
  EarlyClients = FALSE
  ListCallback = FALSE
SPECIFICATION Spec
INVARIANTS TypeOK AdequateLockHeld NoGhostRequest CountersAgree HandedOnce LockInv Delivery
PROPERTIES SchedulerStable ImplementsService
