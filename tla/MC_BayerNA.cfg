\* A raw frame whose driver gives no Bayer pattern.
CONSTANTS
    CamFormats <- MCFormats
    RawBayers <- MCBayersWithNA
    DecodeResults <- MCDecode
    PlateAttached = TRUE
    Consumers = {}
    Width = 2
    Height = 1
    MaxFrames = 2
    MaxCtl = 1
SPECIFICATION Spec
CHECK_DEADLOCK FALSE
INVARIANTS
    DispatchAlive
