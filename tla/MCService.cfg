CONSTANTS
  Reqs = {r1, r2, r3}
  None = None
  NPods = 1
  NWorkers = 2
  PodCap = 1
  WorkerCap = 1
  Names = {n1}
  ValidNames = {n1}
  Leavers = {}
  SvlCap = 1
SYMMETRY ReqSymmetry
SPECIFICATION Spec
INVARIANTS OwnWorkerOnly HaltedPodIsQuiet
PROPERTY KeepsPromise
