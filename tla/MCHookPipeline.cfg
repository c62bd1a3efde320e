CONSTANTS
  main = main
  t1 = t1
  Threads = {main, t1}
  Main = main
  NoThread = NoThread
  Packages <- MCPackages
  Own = "likeread"
  Likeread = "likeread"
  Launchable <- MCLaunchable
  NoPackage = NoPackage
  MaxAttaches = 2
  MaxNativeHooks = 2
  NameLength <- MCLength
  BufferSize = 4
  Devices <- MCDevices
  Mapped <- MCMapped
  Replaced = {"haha123"}
SPECIFICATION FairPipelineSpec
INVARIANT HookedMeansWatching
PROPERTIES
  KeepsPromise
  LateFlutterIsHooked
CHECK_DEADLOCK FALSE
