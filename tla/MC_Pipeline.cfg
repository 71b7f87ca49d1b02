\* Order and fan-out of the dispatch stage.  No consumer takes from its
\* queue, so every output queue holds everything ever pushed to it.
CONSTANTS
    CamFormats <- MCFormats
    RawBayers <- MCBayers
    DecodeResults <- MCDecodeAll
    PlateAttached = TRUE
    Consumers = {}
    Width = 2
    Height = 1
    MaxFrames = 2
    MaxCtl = 3
SPECIFICATION Spec
CHECK_DEADLOCK FALSE
INVARIANTS
    TypeOK
    FanOutFollowsOrder
    OutputsInOrder
    FramesKeepMatrix
