SPECIFICATION Spec
CONSTANTS
  f1 = f1  f2 = f2  
  tab1 = tab1  tab2 = tab2
  t1 = t1  t2 = t2  t3 = t3  t4 = t4  u1 = u1  u2 = u2  u3 = u3  u4 = u4
  x1 = x1  x2 = x2
  Fetches = {f1, f2}
  Tabs = {tab1, tab2}
  TabOf <- MCTabOf
  Tokens = {t1, t2, t3, t4, u1, u2, u3, u4}
  Families = {x1, x2}
  FamOf <- MCFamOf
  None = None
INVARIANT IInv
INVARIANT CheckedIsReplacedInTurn
INVARIANT NoFalseAlarm
PROPERTY OverStaysOver
CHECK_DEADLOCK FALSE
  
