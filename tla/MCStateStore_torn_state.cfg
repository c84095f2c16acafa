SPECIFICATION Spec
CONSTANTS
  p1 = p1
  p2 = p2
  i1 = i1
  i2 = i2
  i3 = i3
  i4 = i4
  k1 = k1
  k2 = k2
  Unset = Unset
  NoInode = NoInode
  Procs = {p1, p2}
  Keys = {k1, k2}
  Inodes = {i1, i2, i3, i4}
  Overlap = {"modifies", "saves"}
SYMMETRY Symmetry
VIEW View
INVARIANT StateParses
CHECK_DEADLOCK FALSE
