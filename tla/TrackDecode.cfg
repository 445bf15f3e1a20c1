SPECIFICATION Spec
CONSTANTS
    InvertSide = 1
    IgnoreTrack = FALSE
    IgnoreSide = FALSE
    IgnoreSectors = {99}
    Formats = {"aeslanier", "agat", "amiga", "apple2", "brother", "c64", "f85", "fb100", "ibm",
               "macintosh", "micropolis", "mx", "northstar", "tids990", "victor9k", "zilogmcz"}
    MaxRecords = 4
    MaxWhole = 3
    MaxSectors = 2
    MxSectors = 2
    LaidOut = {0, 1, 2, 64}
    Homes <- MCHomes
    Here <- MCHere
    Strays <- MCStrays
    WholeStrays <- MCWholeStrays
INVARIANTS NothingMadeUp EachFound RoundTrip
PROPERTIES DecodeEnds
CHECK_DEADLOCK FALSE
