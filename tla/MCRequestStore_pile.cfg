CONSTANTS
  r1 = r1
  r2 = r2
  r3 = r3
  r4 = r4
  r5 = r5
  r6 = r6
  read = read
  write = write
  Timeline = Timeline
  Requests = {r1, r2, r3, r4, r5, r6}
  Queues = {read, write}
  QueueOf <- QueueOfMC
  Offset <- PileOffset
  Length <- PileLength
  MaxAggregSize = 3
  Stamp <- StampMC
  QueueOrder <- QueueOrderMC
  StartAlgs = {"TOAGG", "SW", "SJF", "NOOP"}
  Selectable = {"TO", "SJF", "NOOP"}
  Cancelable = {r1, r2, r4}
  Overlapping = TRUE
SPECIFICATION Spec
INVARIANTS TypeOK Conservation SizesAgree
PROPERTIES ImplementsGroups
