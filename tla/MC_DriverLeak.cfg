\* A plugin that rejects its configuration string is left loaded.
CONSTANTS
    Names <- MCNames
    MaxCalls = 2
    MaxId = 0
SPECIFICATION Spec
CHECK_DEADLOCK FALSE
INVARIANT
    FailedLoadReleased
