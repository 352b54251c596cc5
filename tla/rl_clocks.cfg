SPECIFICATION Spec
CONSTANTS
  p1 = p1  p2 = p2
  s1 = s1  s2 = s2
  Pods = {p1, p2}
  Slots = {s1, s2}
  Capacity = 4
  Cost = 3
  Refill = 2
  FullTime = 2
  Ttl = 4
  MaxSkew = 1
  MaxDelay = 1
  MaxTime = 5
  MaxAdmitted = 9
  None = None
SYMMETRY Symmetry
INVARIANT IInv
INVARIANT WithinRate
PROPERTY RetryAfterNearlySuffices
CHECK_DEADLOCK FALSE
