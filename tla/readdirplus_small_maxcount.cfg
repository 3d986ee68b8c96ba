CONSTANTS
    Proc = "READDIRPLUS"
    Dir <- MCDir
    MaxMutations = 0
    NewEntries <- MCNewEntries
    Calls <- SmallMaxcountCalls
    MaxReceived <- MCMaxReceived
    UsizeModulus <- MCUsizeModulus
SPECIFICATION Spec
INVARIANT ReplyWithinBudget
