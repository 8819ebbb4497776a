CONSTANTS
  r1 = r1
  r2 = r2
  r3 = r3
  r4 = r4
  r5 = r5
  Requests = {r1, r2, r3, r4, r5}
  NoRequest = NoRequest
  ServerOf <- ServerOfMC
  Cancelable = {r2}
  MaxQueueId = 2
  Window = 2
SPECIFICATION FairSpec
INVARIANTS TypeOK ServedInTurn CountAgrees
PROPERTIES TakenInWindow AllServed
