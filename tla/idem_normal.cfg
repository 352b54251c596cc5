SPECIFICATION FairSpec
CONSTANTS
  c1 = c1  c2 = c2  c3 = c3  c4 = c4
  Callers = {c1, c2, c3, c4}
  Troubles = {"claim_error", "claim_resent", "del_error", "crash"}
  Absent = Absent
  Pending = Pending
  Nobody = Nobody
  NoAnswer = NoAnswer
  Error = Error
INVARIANT IInv
PROPERTY ImplementsOnce
PROPERTY StaleLocksHeal
CHECK_DEADLOCK FALSE
