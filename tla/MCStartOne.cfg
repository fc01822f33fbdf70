SPECIFICATION OneSpec
CONSTANTS
  Reqs = {boot, main_, g1, g2}
  Boot = boot
  Main = main_
  Index = index
  Names = {index}
  ValidNames = {index}
  Leavers = {g1}
  NPods = 1
  NWorkers = 1
  SvlCap = 1
  PodCap = 1
  WorkerCap = 1
  None = None
INVARIANT MainsWorkerIsThere
PROPERTY StartsOrEnds
