\* Two terminals prune workspaces, a selected one or all; w1 has two containers.
SPECIFICATION Spec
CONSTANTS
  p1 = p1  p2 = p2  w1 = w1  w2 = w2  c1 = c1  c2 = c2  c3 = c3
  Procs <- MCProcs
  Workspaces <- MCWorkspaces
  Ids <- MCIds
  Owner <- MCOwner
  Worlds <- CalmWorlds
VIEW View
SYMMETRY Symmetry
INVARIANTS TypeOK PrunedIsClean ContainersAreTracked
