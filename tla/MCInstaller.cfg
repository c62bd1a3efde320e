CONSTANTS
  Packages <- BothPackages
  Plugins <- OnePlugin
  MaxLaunches = 2
SPECIFICATION Spec
INVARIANTS
  MissingDirectoryStopsAll
  FinishedMeansDeployed
  CopiesOpen
CHECK_DEADLOCK FALSE
