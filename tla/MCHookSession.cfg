CONSTANTS
  own = own
  webview = webview
  Packages = {own, webview}
  Own = own
  Launchable = {own}
  NoPackage = NoPackage
  MaxAttaches = 3
SPECIFICATION FairSpec
INVARIANTS
  HookedMeansInstalled
  HooksAreSingle
  NativeHookRunsOnce
PROPERTIES
  HookingIsFinal
  DeployedAttachHooks
