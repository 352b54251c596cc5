SPECIFICATION FairSpec
CONSTANTS
  p1 = p1  p2 = p2
  r1 = r1  r2 = r2  r3 = r3  r4 = r4
  w1 = w1  w2 = w2  c1 = c1
  NoKey = NoKey
  Products <- MCProducts
  Active <- MCActive
  CatalogStock <- MCCatalogStock
  Requests <- MoreRequests
  Kind <- MoreKind
  Item <- MoreItem
  Qty <- MoreQty
  MaxQty = 2
  Sweepers = {w1, w2}
  Releasers = {c1}
  Faults = {"enqueue_error", "mongo_error"}
INVARIANT TypeOK
INVARIANT NoGhostStock
INVARIANT ExpiredIsRefunded
PROPERTY HoldsAreSettled
CHECK_DEADLOCK FALSE
