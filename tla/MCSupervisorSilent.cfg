SPECIFICATION FairSpec
CONSTANTS
  Sup = sup
  Users = {sup, g1}
  Paths = {g1}
  NoPath = NoPath
  SpawnCanFail = FALSE
  AutoRecover = TRUE
  CanPowerCycle = FALSE
  SilentCamera = TRUE
PROPERTIES
  EventuallyTracked
CHECK_DEADLOCK FALSE
