SPECIFICATION Spec
CONSTANTS
    InvertSide = 0
    IgnoreTrack = FALSE
    IgnoreSide = FALSE
    IgnoreSectors = {}
    Formats = {"ibm"}
    MaxRecords = 4
    MaxWhole = 3
    MaxSectors = 2
    MxSectors = 2
    LaidOut = {0, 1, 2, 64}
    Homes <- MCHomes
    Here <- MCHere
    Strays <- MCStrays
    WholeStrays <- MCWholeStrays
INVARIANT NoDataShown
CHECK_DEADLOCK FALSE
