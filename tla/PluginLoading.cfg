SPECIFICATION LoadSpec
CONSTANT Processes = {p1, p2, p3, p4}
CONSTANT InstallCall = p1
CONSTANT ListCall = p2
CONSTANT NoFile = NoFile
INVARIANTS OneInstaller NeverPartial CacheComplete NewFindsPlugin
PROPERTIES OkMeansInstalled TimeoutMeansBusy
CHECK_DEADLOCK FALSE
