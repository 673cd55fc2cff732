SPECIFICATION FairSpec
CONSTANTS
    Points <- MCPoints
    Centre = 1
    NearRel <- MCNear
    CloseRel <- MCNear
    Supports <- MCSupports
    Buttons <- MCButtons
    Modes = {TRUE, FALSE}
    Heartbeat = FALSE
    MaxTimeouts = 2
    MaxReports = 1
    None = None
INVARIANTS
    TrackInv
    GunIsTold
    PointerIsGivenBack
PROPERTIES
    LeapIsConfirmed
    AgreementIsHeeded
    FirstAimIsRaw
    DeadLineEnds
CHECK_DEADLOCK FALSE
