SPECIFICATION Spec
CONSTANTS
  o1 = o1  o2 = o2
  w1 = w1  w2 = w2
  NoLock = NoLock
  Orders = {o1}
  Workers = {w1, w2}
  JobAttempts = 2
  MaxStalled = 1
  Troubles = {"decline", "mongo_error", "ambiguous_write", "queue_error", "worker_crash"}
SYMMETRY Symmetry
INVARIANT ChargesAreRecorded
INVARIANT ChargesAreBounded
INVARIANT RestIsExplained
PROPERTY ImplementsLife
CHECK_DEADLOCK FALSE
