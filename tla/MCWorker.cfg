SPECIFICATION FairSpec
CONSTANTS
  Reqs = {c1, c2, c3, c4}
  Self = c1
  Fetches = {f1}
  QueueCap = 2
  None = None
INVARIANTS TypeOK OneSlotPerReplier ClosedOwesNothing
PROPERTIES GrowsWhenFullOnly IsPodsWorker HaltIsObeyed HaltComesNearer
