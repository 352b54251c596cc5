SPECIFICATION Spec
CONSTANTS
  c1 = c1  c2 = c2  c3 = c3  c4 = c4
  Callers = {c1, c2, c3, c4}
  Troubles = {"claim_error", "claim_resent", "del_error", "crash", "fails_late", "crash_late", "store_error", "slow", "del_resent", "late_retry"}
  Absent = Absent
  Pending = Pending
  Nobody = Nobody
  NoAnswer = NoAnswer
  Error = Error
SYMMETRY Symmetry
INVARIANT TypeOK
INVARIANT ReplaysAreReal
CHECK_DEADLOCK FALSE
