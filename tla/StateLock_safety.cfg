SPECIFICATION Spec
CONSTANTS
  Procs = {p1, p2, p3}
  Inodes = {i1, i2, i3, i4}
  NoInode = NoInode
  Nobody = Nobody
SYMMETRY Symmetric
INVARIANTS
  TypeOK
  MutualExclusion
  HolderIsCurrent
  PurgeLeavesNothing
PROPERTIES
  OnlyHolderChangesState
  ImplementsMutex
