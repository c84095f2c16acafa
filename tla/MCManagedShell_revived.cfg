SPECIFICATION Spec
CONSTANTS
  p1 = p1
  p2 = p2
  p3 = p3
  NoProc = NoProc
  Procs = {p1, p2, p3}
  Commands = {"start"}
  Faults = {}
  Overlap = {"commands"}
  LongDelay = TRUE
SYMMETRY Symmetry
INVARIANT CancelledStays
CHECK_DEADLOCK FALSE
