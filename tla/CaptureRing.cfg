SPECIFICATION FairSpec
CONSTANTS
    BufferCount = 3
    HostCapacity = 7
    MaxFragments = 9
    StartupLag = 2
    TerminateMayInterrupt = TRUE
INVARIANTS RingIntact StreamWhole
PROPERTIES RefinesStream SessionEnds
CHECK_DEADLOCK FALSE
