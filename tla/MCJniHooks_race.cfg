CONSTANTS
  t1 = t1
  t2 = t2
  Threads = {t1, t2}
  Hookers = {t1, t2}
  NoThread = NoThread
  Types <- TwoTypes
SPECIFICATION FairHooksSpec
INVARIANTS
  OriginBeforePatch
  TracingIsInstalled
PROPERTIES
  HookReturns
