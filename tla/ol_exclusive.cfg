SPECIFICATION LockSpec
CONSTANTS
  p1 = p1
  p2 = p2
  p3 = p3
  p4 = p4
  Procs <- MCProcs
  Locking <- MCLocking
  NoProc = NoProc
  Inodes = {f1, f2, f3}
  NoInode = NoInode
PROPERTY RefusedForCause
PROPERTY PromiseKept
