SPECIFICATION FairDriveSpec
CONSTANTS
    MaxTrack = 2
    SeekLimit = 3
    HomeLimit = 3
INVARIANTS HeadTrue RightDrive TransferAtWanted
PROPERTIES CommandsEnd
CHECK_DEADLOCK FALSE
