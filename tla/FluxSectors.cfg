SPECIFICATION Spec
CONSTANTS
    a = a
    b = b
    Layout <- MCLayout
    Data = {a, b}
    Disks <- MCDisks
    Puts <- MCPuts
    Retries = 1
    Weak <- MCWeak
    None = None
    Garbled = Garbled
    Lost = Lost
INVARIANT CachesAgree
PROPERTIES FlushReturns StoreSpec
