SPECIFICATION Spec
CONSTANTS
  p1 = p1
  p2 = p2
  c1 = c1
  c2 = c2
  c3 = c3
  None = None
  Procs = {p1, p2}
  Configs = {c1, c2, c3}
  MaxEdits = 3
  Worlds = {{"lockfile"}, {"failures"}, {"overlap", "failures", "lockfile"}}
SYMMETRY Symmetry
VIEW View
INVARIANT TypeOK
INVARIANT SnapshotAccepted
PROPERTY RecreateAccepted
PROPERTY CalmReuseIsCurrent
PROPERTY CalmDiffShowsEdit
