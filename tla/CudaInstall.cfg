SPECIFICATION FairSpec
CONSTANTS
  Processes = {p1, p2, p3}
  Commands = {p3}
INVARIANT PluginMeansLibs
PROPERTIES OkMeansInstalled EveryProcessReturns
CHECK_DEADLOCK FALSE
