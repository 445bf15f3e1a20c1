SPECIFICATION FairSpec
CONSTANTS
    BufferCount = 3
    MaxPackets = 5
    MaxPlayed = 6
    HardSectored = TRUE
INVARIANTS RingIntact TrackFaithful HostDrained
PROPERTIES GateOncePerSession RefinesTrackWrite SessionEnds
CHECK_DEADLOCK FALSE
