CONSTANTS
    Proc = "READDIR"
    Dir <- MCDir
    MaxMutations = 0
    NewEntries <- MCNewEntries
    Calls <- ReaddirCalls
    MaxReceived <- MCMaxReceived
    UsizeModulus <- MCUsizeModulus
SPECIFICATION Spec
INVARIANT ListingExactlyOnce
