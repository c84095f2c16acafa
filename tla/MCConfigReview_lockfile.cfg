SPECIFICATION Spec
CONSTANTS
  p1 = p1
  p2 = p2
  c1 = c1
  c2 = c2
  c3 = c3
  None = None
  Procs = {p1}
  Configs = {c1, c2}
  MaxEdits = 1
  Worlds = {{"lockfile"}}
SYMMETRY Symmetry
VIEW View
PROPERTY DiffShowsEdit
