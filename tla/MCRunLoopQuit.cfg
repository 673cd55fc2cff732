SPECIFICATION QuitSpec
CONSTANTS
  Run = run
  Main = main
  Workers = {w1}
  Users = {run, main, w1}
  Gun = gun
  Paths = {gun}
  NoPath = NoPath
  None = None
  SpawnCanFail = FALSE
  AutoRecover = TRUE
PROPERTIES
  QuitIsHeeded
CHECK_DEADLOCK FALSE
