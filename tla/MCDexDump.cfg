CONSTANTS
  t1 = t1
  t2 = t2
  Threads = {t1, t2}
  MaxIndex = 2
  Cookies <- MCCookies
  MaxElements = 2
SPECIFICATION Spec
INVARIANTS
  LimitHolds
  RewriteNeedsLostIncrement
CHECK_DEADLOCK FALSE
