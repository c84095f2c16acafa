SPECIFICATION Spec
CONSTANTS
  p1 = p1
  p2 = p2
  p3 = p3
  q1 = q1
  q2 = q2
  None = None
  Procs = {p1, p2}
  Ports = {q1, q2}
  Overlap = TRUE
  OldCli = TRUE
  Faults = {}
SYMMETRY Symmetry
VIEW View
CHECK_DEADLOCK FALSE
INVARIANT PublishesStoredPort
INVARIANT WantedLockfileStays
