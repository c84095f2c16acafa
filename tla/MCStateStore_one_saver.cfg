SPECIFICATION Spec
CONSTANTS
  p1 = p1
  p2 = p2
  p3 = p3
  i1 = i1
  i2 = i2
  i3 = i3
  k1 = k1
  k2 = k2
  Unset = Unset
  NoInode = NoInode
  Procs = {p1, p2, p3}
  Keys = {k1, k2}
  Inodes = {i1, i2, i3}
  Overlap = {"modifies"}
SYMMETRY Symmetry
VIEW View
INVARIANT TypeOK
INVARIANT StateParses
INVARIANT NoSaveFails
PROPERTY RefinesRegister
