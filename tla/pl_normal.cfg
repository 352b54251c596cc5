SPECIFICATION FairSpec
CONSTANTS
  o1 = o1  o2 = o2
  w1 = w1  w2 = w2
  NoLock = NoLock
  Orders = {o1}
  Workers = {w1, w2}
  JobAttempts = 3
  MaxStalled = 1
  Troubles = {"decline", "queue_error"}
INVARIANT TypeOK
INVARIANT ChargedAtMostOnce
INVARIANT FailedWasNotCharged
INVARIANT FailedIsCompensated
PROPERTY OrdersAreSettled
CHECK_DEADLOCK FALSE
