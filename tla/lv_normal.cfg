SPECIFICATION Spec
CONSTANTS
  p1 = p1  p2 = p2
  Publishers = {p1, p2}
  MaxChanges = 2
  MaxOutbox = 1
  MaxWire = 2
  Asked = Asked
  None = None
SYMMETRY Symmetry
INVARIANT IInv
INVARIANT ShowsTheCounter
INVARIANT ShowsTheStatus
CHECK_DEADLOCK FALSE
