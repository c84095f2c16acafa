SPECIFICATION Spec
CONSTANTS
  p1 = p1
  p2 = p2
  NoProc = NoProc
  Procs = {p1, p2}
  Commands = {"start"}
  Faults = {}
  Overlap = {"commands", "worker"}
  LongDelay = TRUE
SYMMETRY Symmetry
INVARIANT BothChecksHold
CHECK_DEADLOCK FALSE
