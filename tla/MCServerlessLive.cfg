CONSTANTS
  Reqs = {r1, r2}
  None = None
  NPods = 2
  NWorkers = 1
  PodCap = 1
  WorkerCap = 1
  Names = {n1}
  ValidNames = {}
  Leavers = {r1}
  SvlCap = 1
SPECIFICATION FairSpec
PROPERTIES RequestReachesWorker ShutdownCompletes WorkRunsDown
