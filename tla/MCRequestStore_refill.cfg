CONSTANTS
  r1 = r1
  r2 = r2
  r3 = r3
  r4 = r4
  r5 = r5
  r6 = r6
  read = read
  write = write
  Timeline = Timeline
  Requests = {r1, r2, r3, r4}
  Queues = {read, write}
  QueueOf <- QueueOfMC
  Offset <- RefillOffset
  Length <- RefillLength
  MaxAggregSize = 3
  Stamp <- StampMC
  QueueOrder <- QueueOrderMC
  StartAlgs = {"SJF", "TOAGG"}
  Selectable = {}
  Cancelable = {r2}
  Overlapping = FALSE
SPECIFICATION Spec
INVARIANTS CancelFinds
