\* cv::imdecode may return an empty matrix for a corrupt mjpeg frame.
CONSTANTS
    CamFormats <- MCFormats
    RawBayers <- MCBayers
    DecodeResults <- MCDecodeAll
    PlateAttached = TRUE
    Consumers = {}
    Width = 2
    Height = 1
    MaxFrames = 2
    MaxCtl = 2
SPECIFICATION Spec
CHECK_DEADLOCK FALSE
INVARIANTS
    ConsumersGetPixels
