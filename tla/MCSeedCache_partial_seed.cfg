SPECIFICATION Spec
CONSTANTS
  p1 = p1
  p2 = p2
  v1 = v1
  v2 = v2
  NoFile = NoFile
  Procs = {p1}
  Versions = {v1, v2}
  AgentPaths = 2
  MaxEdits = 2
  MaxIds = 1
  Worlds = {{"edits", "faults"}}
SYMMETRY Symmetry
VIEW View
PROPERTY SkipIsCurrent
