SPECIFICATION Spec
CONSTANTS
    Commands = {"track", "compare", "save", "recoil", "info", "setup", "monitor", "joystick", "status"}
    MaxSessions = 2
    MaxUnsent = 2
    Blasters = {g1, g2}
    Pages = 2
    MaxCommands = 2
    NoGun = NoGun
    Targets = 2
    Aims <- MCAims
    FrameGaps <- MCGaps
    Spell = 3
    GiveUp = 5
    MinGood = 2
    Samples = 3
    DwellRadius = 1
    SteadyTolerance = 4
    RearmDistance = 4
    Unseen = Unseen
    Bytes <- MCBytes
    Offsets <- MCOffsets
    MaxSent = 5
    MaxRead = 3
    MaxBacklog = 5
    WindowSizes <- MCWindows
    Unsized <- MCUnsized
    MaxScenes = 2
    MaxNews = 2
    MaxHeld = 2
    None = None
    Nil = Nil
    Procs = {p1, p2}
    Inodes = {i1, i2}
    Trackers = {t1, t2}
    GunNames <- MCNames
    Slots = 2
    NoImage = NoImage
    MaxSerial = 1
    MaxSwitches = 1
    Aimers = {t1, t2}
    MouseButtons = {left, right}
    MaxImages = 2
    Lengths = {3, 5}
    Glimpses = {0, 2}
    Faults = {"unsure", "missed", "partial", "misread"}
INVARIANT ResizeIsSurvived
CHECK_DEADLOCK FALSE
