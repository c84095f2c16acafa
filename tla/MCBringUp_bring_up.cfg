SPECIFICATION Spec
CONSTANTS
  p1 = p1
  p2 = p2
  p3 = p3
  q1 = q1
  q2 = q2
  None = None
  Procs = {p1, p2, p3}
  Ports = {q1, q2}
  Overlap = FALSE
  OldCli = TRUE
  Faults = {"setup", "cli", "engine", "crash"}
SYMMETRY Symmetry
VIEW View
CHECK_DEADLOCK FALSE
INVARIANT TypeOK
INVARIANT KnownHostIsFresh
INVARIANT PublishesStoredPort
INVARIANT EndpointAnswers
INVARIANT WantedLockfileStays
INVARIANT NoStrayLockfile
PROPERTY KnownKeyStays
