SPECIFICATION Spec
CONSTANTS
  p1 = p1  p2 = p2
  r1 = r1  r2 = r2  r3 = r3  r4 = r4
  w1 = w1  w2 = w2  c1 = c1
  NoKey = NoKey
  Products <- MCProducts
  Active <- MCActive
  CatalogStock <- MCCatalogStock
  Requests <- MCRequests
  Kind <- MCKind
  Item <- MCItem
  Qty <- MCQty
  MaxQty = 2
  Sweepers = {w1}
  Releasers = {c1}
  Faults = {"redis_restart", "ambiguous_write"}
INVARIANT ConfirmedNeverRefunded
PROPERTY SettledIsFinal
CHECK_DEADLOCK FALSE
