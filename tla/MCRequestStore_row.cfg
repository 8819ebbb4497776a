CONSTANTS
  r1 = r1
  r2 = r2
  r3 = r3
  r4 = r4
  r5 = r5
  r6 = r6
  read = read
  write = write
  Timeline = Timeline
  Requests = {r1, r2, r3, r4, r6}
  Queues = {read, write}
  QueueOf <- QueueOfMC
  Offset <- RowOffset
  Length <- RowLength
  MaxAggregSize = 3
  Stamp <- StampMC
  QueueOrder <- QueueOrderMC
  StartAlgs = {"TOAGG", "SJF"}
  Selectable = {"TO", "SJF", "NOOP"}
  Cancelable = {r1, r2, r3, r4, r6}
  Overlapping = FALSE
SPECIFICATION Spec
INVARIANTS InOffsetOrder HullExact NoHoles MaximalAggregation
PROPERTIES TimeOrderAfterMigration
