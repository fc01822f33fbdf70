SPECIFICATION Spec
CONSTANTS
  Reqs = {c1, c2}
  Self = c1
  Fetches = {f1}
  QueueCap = 2
  None = None
INVARIANT ClosingReleasesMemory
