SPECIFICATION Spec
CONSTANTS
  p1 = p1
  p2 = p2
  v1 = v1
  v2 = v2
  NoFile = NoFile
  Procs = {p1, p2}
  Versions = {v1, v2}
  AgentPaths = 2
  MaxEdits = 3
  MaxIds = 3
  Worlds = {{"edits"}, {"overlap", "faults"}}
SYMMETRY Symmetry
VIEW View
INVARIANT TypeOK
INVARIANT CacheVouches
PROPERTY SeededIsCurrent
