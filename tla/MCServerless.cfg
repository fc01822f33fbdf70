CONSTANTS
  Reqs = {r1, r2, r3}
  None = None
  NPods = 2
  NWorkers = 1
  PodCap = 1
  WorkerCap = 1
  Names = {n1}
  ValidNames = {n1}
  Leavers = {}
  SvlCap = 2
SYMMETRY ReqSymmetry
SPECIFICATION Spec
INVARIANTS TypeOK PodWithinCapacity RefusedOnlyWhenFull OwnWorkerOnly NoEmptySlot NoOrphanedRequest HaltedPodIsQuiet NoCircularWait TellsWhatHappened ExitOwesNothing
