CONSTANTS
  t1 = t1
  t2 = t2
  m = m
  Threads = {t1, t2}
  Hookers = {t1}
  NoThread = NoThread
  Types <- OneType
  AppMethods = {m}
  AppDepth = 1
  StackLimit = 3
SPECIFICATION Spec
INVARIANTS
  OriginsRunOriginals
  LoggedWhenTraced
