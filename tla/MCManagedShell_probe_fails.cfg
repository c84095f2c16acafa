SPECIFICATION FairSpec
CONSTANTS
  p1 = p1
  NoProc = NoProc
  Procs = {p1}
  Commands = {"start"}
  Faults = {"detect"}
  Overlap = {}
  LongDelay = TRUE
PROPERTY ContainerEventuallyStops
CHECK_DEADLOCK FALSE
