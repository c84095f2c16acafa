SPECIFICATION Spec
CONSTANTS
  p1 = p1
  p2 = p2
  Procs = {p1, p2}
  Last = 2
  MidRun = TRUE
  Faults = FALSE
SYMMETRY Symmetry
VIEW View
PROPERTY FilesSurvive
