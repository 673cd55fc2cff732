SPECIFICATION Spec
CONSTANTS
  Sup = sup
  Users = {sup, g1, g2}
  Paths = {g1, g2}
  NoPath = NoPath
  SpawnCanFail = TRUE
  AutoRecover = TRUE
  CanPowerCycle = TRUE
  SilentCamera = TRUE
SYMMETRY GunSymmetry
INVARIANTS
  ClosingExact
  NoReopenDuringClose
  NoStrayTracker
  ReturnedMeansFree
  SupInv
PROPERTIES
  PortContract
  NoGunForgotten
CHECK_DEADLOCK FALSE
