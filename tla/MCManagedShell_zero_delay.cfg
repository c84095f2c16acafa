SPECIFICATION FairSpec
CONSTANTS
  p1 = p1
  NoProc = NoProc
  Procs = {p1}
  Commands = {"start"}
  Faults = {}
  Overlap = {"worker"}
  LongDelay = FALSE
PROPERTY ContainerEventuallyStops
CHECK_DEADLOCK FALSE
