SPECIFICATION Spec
CONSTANTS
  p1 = p1
  p2 = p2
  Procs = {p1, p2}
  Last = 3
  MidRun = FALSE
  Faults = TRUE
SYMMETRY Symmetry
VIEW View
INVARIANT TypeOK
INVARIANT ConflictLinksNothing
INVARIANT LinkedIsComplete
INVARIANT UnlinkedIsComplete
PROPERTY FilesSurvive
