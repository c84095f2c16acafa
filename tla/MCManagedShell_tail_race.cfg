SPECIFICATION FairSpec
CONSTANTS
  p1 = p1
  p2 = p2
  NoProc = NoProc
  Procs = {p1, p2}
  Commands = {"start"}
  Faults = {}
  Overlap = {"worker"}
  LongDelay = TRUE
PROPERTY ContainerEventuallyStops
CHECK_DEADLOCK FALSE
