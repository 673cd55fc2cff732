SPECIFICATION LockSpec
CONSTANTS
  Procs = {p1, p2, p3}
  Inodes = {i1, i2, i3}
  Nil = Nil
INVARIANT
  OneRun
CHECK_DEADLOCK FALSE
