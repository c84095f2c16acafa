SPECIFICATION Spec
CONSTANTS
  p1 = p1
  p2 = p2
  p3 = p3
  q1 = q1
  q2 = q2
  None = None
  Procs = {p1, p2, p3}
  Ports = {q1}
  Overlap = TRUE
  OldCli = FALSE
  Faults = {}
SYMMETRY Symmetry
VIEW View
CHECK_DEADLOCK FALSE
INVARIANT KnownHostIsFresh
