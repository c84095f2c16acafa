SPECIFICATION Spec
CONSTANTS
  p1 = p1
  p2 = p2
  p3 = p3
  NoProc = NoProc
  Procs = {p1, p2, p3}
  Commands = {"start", "rebuild", "kill", "prune"}
  Faults = {"setup", "detect", "engine", "crash"}
  Overlap = {"worker"}
  LongDelay = TRUE
SYMMETRY Symmetry
INVARIANT BothChecksHold
INVARIANT CancelledStays
CHECK_DEADLOCK FALSE
