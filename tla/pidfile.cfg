SPECIFICATION Spec
CONSTANTS
  Proc = {p1, p2, p3}
  Inode = {i1, i2, i3}
  NoOne = NoOne
  NoInode = NoInode
  Strangers = TRUE
SYMMETRY Names
INVARIANTS
  TypeOK
  PidOfHolder
  OneDaemonUnlessRaced
  ClientFindsDaemon
