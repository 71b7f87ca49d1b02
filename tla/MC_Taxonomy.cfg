\* Every probe id and probe string through every encoding of camera.cpp.
SPECIFICATION Spec
INVARIANTS
    EnumsRoundTrip
    StringsRoundTrip
    TablesRoundTrip
    OptionNamesParallel
CONSTANT
    CamError = CamError
