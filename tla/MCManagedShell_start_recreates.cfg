SPECIFICATION Spec
CONSTANTS
  p1 = p1
  p2 = p2
  NoProc = NoProc
  Procs = {p1, p2}
  Commands = {"start"}
  Faults = {}
  Overlap = {}
  LongDelay = TRUE
SYMMETRY Symmetry
PROPERTY NoRebuildUnderSession
CHECK_DEADLOCK FALSE
