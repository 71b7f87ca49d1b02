\* The status endpoint against the dispatcher session.
CONSTANTS
    CamFormats <- MCFormats
    RawBayers <- MCBayers
    DecodeResults <- MCDecode
    PlateAttached = TRUE
    Consumers = {}
    Width = 2
    Height = 1
    MaxFrames = 1
    MaxCtl = 2
SPECIFICATION Spec
CHECK_DEADLOCK FALSE
INVARIANTS
    StatusReflectsSession
