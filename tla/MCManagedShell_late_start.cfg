SPECIFICATION Spec
CONSTANTS
  p1 = p1
  p2 = p2
  NoProc = NoProc
  Procs = {p1, p2}
  Commands = {"start"}
  Faults = {}
  Overlap = {"worker"}
  LongDelay = TRUE
SYMMETRY Symmetry
PROPERTY WorkerSparesSessions
CHECK_DEADLOCK FALSE
