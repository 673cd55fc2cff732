SPECIFICATION Spec
CONSTANTS
    MaxBuffers = 3
    MaxPictures = 4
    PictureSizes <- MCSizes
    Warm = 2
    Window = 3
    None = None
    Pool = 3
    MaxShots = 7
INVARIANTS
    CaptureInv
PROPERTIES
    FramesArePromised
    NewestIsHandedOut
CHECK_DEADLOCK FALSE
