SPECIFICATION FairSpec
CONSTANTS
  Procs = {p1, p2}
  Inodes = {i1, i2, i3}
  NoInode = NoInode
  Nobody = Nobody
PROPERTIES
  AfterPromptReturns
  WaitersFinish
