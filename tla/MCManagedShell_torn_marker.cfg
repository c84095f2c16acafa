SPECIFICATION Spec
CONSTANTS
  p1 = p1
  p2 = p2
  NoProc = NoProc
  Procs = {p1, p2}
  Commands = {"start"}
  Faults = {}
  Overlap = {"commands"}
  LongDelay = TRUE
SYMMETRY Symmetry
INVARIANT OpenShellHasMarker
CHECK_DEADLOCK FALSE
