SPECIFICATION Spec
CONSTANTS
  Proc = {p1, p2}
  Inode = {i1, i2}
  NoOne = NoOne
  NoInode = NoInode
  Strangers = FALSE
SYMMETRY Names
INVARIANTS
  OneDaemon
