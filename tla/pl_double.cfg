SPECIFICATION Spec
CONSTANTS
  o1 = o1  o2 = o2
  w1 = w1  w2 = w2
  NoLock = NoLock
  Orders = {o1}
  Workers = {w1, w2}
  JobAttempts = 3
  MaxStalled = 1
  Troubles = {"mongo_error"}
SYMMETRY Symmetry
INVARIANT ChargedAtMostOnce
CHECK_DEADLOCK FALSE
