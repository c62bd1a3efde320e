CONSTANTS
  t1 = t1
  m = m
  Threads = {t1}
  Hookers = {t1}
  NoThread = NoThread
  Types <- TwoTypes
  AppMethods = {m}
  AppDepth = 3
  StackLimit = 6
SPECIFICATION FairSpec
INVARIANTS
  HelperCallsDoNotNest
  NoJniCallWithPendingException
  NoCrash
PROPERTIES
  TracerYields
