SPECIFICATION Spec
CONSTANTS
    Disks <- MCDisks
    Data = {a, b}
    Initial = {a}
    MaxPending = 2
    None = None
    Zeros = Zeros
    NoData = NoData
    Garbled = Garbled
    Lost = Lost
INVARIANTS ImageTrue BlocksInOrder
PROPERTY StoreSpec
