SPECIFICATION FairSpec
CONSTANTS
  Run = run
  Main = main
  Workers = {w1}
  Users = {run, main, w1}
  Gun = gun
  Paths = {gun}
  NoPath = NoPath
  None = None
  SpawnCanFail = TRUE
  AutoRecover = TRUE
INVARIANTS
  RunLoopInv
PROPERTIES
  PortContract
  ServesThisRun
  OverlayFollowsWorker
  RunWindsDown
CHECK_DEADLOCK FALSE
