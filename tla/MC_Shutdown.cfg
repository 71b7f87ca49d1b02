\* Shutdown: every consumer runs; the sentinel must end each of them and
\* be the last message its queue ever receives.
CONSTANTS
    CamFormats <- MCFormats
    RawBayers <- MCBayers
    DecodeResults <- MCDecode
    PlateAttached = TRUE
    Consumers = {"live", "stack", "debug", "plate"}
    Width = 2
    Height = 1
    MaxFrames = 1
    MaxCtl = 2
SPECIFICATION Spec
CHECK_DEADLOCK FALSE
INVARIANTS
    StopIsLast
PROPERTIES
    ShutdownReachesConsumers
