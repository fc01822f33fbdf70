CONSTANTS
  Reqs = {r1, r2}
  None = None
  NPods = 1
  NWorkers = 1
  PodCap = 1
  WorkerCap = 1
  Names = {n1}
  ValidNames = {n1}
  Leavers = {}
  SvlCap = 1
SPECIFICATION Spec
INVARIANT UploadOkMeansStored
