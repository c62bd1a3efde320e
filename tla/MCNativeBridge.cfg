CONSTANTS
  main = main
  t1 = t1
  Threads = {main, t1}
  Main = main
  NoThread = NoThread
  Packages <- MCPackages
  Likeread = "likeread"
  NameLength <- MCNameLength
  BufferSize = 4
  MaxNativeHooks = 3
SPECIFICATION FairSpec
INVARIANTS
  TypeOK
  CrashNeedsFailedOpen
  BufferStaysTerminated
  LastPackageIsRead
  FlutterOnlyInLikeread
  SeenDuIsHooked
PROPERTIES
  MonitorIsReleased
CHECK_DEADLOCK FALSE
