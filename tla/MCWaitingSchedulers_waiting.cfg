CONSTANTS
  low = low
  far = far
  farther = farther
  other = other
  out = out
  huge = huge
  f = f
  g = g
  NoRequest = NoRequest
  NoQueue = NoQueue
  Requests = {low, far, farther, other, out, huge}
  Files = {f, g}
  NLines = 2
  LineOf <- LineOfMC
  FileOf <- FileOfMC
  TypeOf <- TypeOfMC
  Offset <- OffsetMC
  Length <- LengthMC
  Reqnb <- ReqnbMC
  Timestamp <- TimestampMC
  Workloads <- WorkloadsMC
  Algorithms = {"aIOLi", "MLF"}
  Quantum = 1
  MaxQuantum = 2
  WaitingTime = 1
  MaxLockTries = 1
  Width = 3
SPECIFICATION Spec
INVARIANTS TypeOK FifoBetweenFiles
PROPERTIES NotWhileWaiting Progress
CHECK_DEADLOCK FALSE
