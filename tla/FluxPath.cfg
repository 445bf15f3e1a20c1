SPECIFICATION Spec
CONSTANTS
    Tracks <- MCTracks
    Cells <- MCCells
    Records <- MCRecords
    RecordCells <- MCRecordCells
    LongRecords <- MCLongRecords
    Drifts <- MCDrifts
    Sync <- MCSync
    Patterns <- MCPatterns
    Streams <- MCStreams
    MaxIndexes = 1
    Fine = 1000
    MinClock = 1
    Span = 4
    Num = 3
    Den = 2
    Direct = 4
    Step = 3
    Steps = 2
    None = None
INVARIANTS PlayedOnTime SampledExactly BitsReadBack SearchEnds ConvertedExactly
CHECK_DEADLOCK FALSE
