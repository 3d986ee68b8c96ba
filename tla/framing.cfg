\* Record marking round trip, with the peer closing at any point.
CONSTANTS
    W = 2
    Lens = {1, 3, 4, 7}
    MaxRecords = 2
SPECIFICATION Spec
INVARIANT TypeOK
PROPERTY RecordsDelivered
