\* The plate-solving consumer never receives the shutdown sentinel.
CONSTANTS
    CamFormats <- MCFormats
    RawBayers <- MCBayers
    DecodeResults <- MCDecode
    PlateAttached = TRUE
    Consumers = {"live", "stack", "debug", "plate"}
    Width = 2
    Height = 1
    MaxFrames = 1
    MaxCtl = 1
SPECIFICATION Spec
CHECK_DEADLOCK FALSE
PROPERTIES
    ShutdownReachesPlateSolver
