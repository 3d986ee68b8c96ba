\* READDIRPLUS paging with page sizes of one, two, three and all entries,
\* and calls that hold no entry, while other clients create or remove an entry.
CONSTANTS
    Proc = "READDIRPLUS"
    Dir <- MCDir
    MaxMutations = 1
    NewEntries <- MCNewEntries
    Calls <- PagingCalls
    MaxReceived <- MCMaxReceived
    UsizeModulus <- MCUsizeModulus
SPECIFICATION Spec
INVARIANT TypeOK
INVARIANT ListingExactlyOnce
INVARIANT ReplyWithinBudget
PROPERTY ListingCompletes
