CONSTANTS
  main = main
  t1 = t1
  Threads = {main, t1}
  Main = main
  NoThread = NoThread
  Packages <- OnePackage
  Likeread = "likeread"
  NameLength <- OneLength
  BufferSize = 2
  MaxNativeHooks = 1
  Callers = {t1}
  MaxCalls = 2
SPECIFICATION DuSpec
INVARIANTS
  DuCrashIsExplained
CHECK_DEADLOCK FALSE
