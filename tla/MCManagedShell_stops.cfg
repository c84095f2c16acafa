SPECIFICATION FairSpec
CONSTANTS
  p1 = p1
  p2 = p2
  p3 = p3
  NoProc = NoProc
  Procs = {p1, p2, p3}
  Commands = {"start", "kill", "prune"}
  Faults = {}
  Overlap = {}
  LongDelay = TRUE
PROPERTY WorkerSparesSessions
PROPERTY RefinesIdlePolicy
PROPERTY ContainerEventuallyStops
CHECK_DEADLOCK FALSE
