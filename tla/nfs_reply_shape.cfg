\* One request of each procedure that fh_to_id can fail.
CONSTANTS
    n1 = n1  n2 = n2  n3 = n3
    StaleFh = StaleFh  NoGuard = NoGuard  Void = Void
    NoEntry = NoEntry  Absent = Absent  None = None
    Ids <- MCIds
    Names <- MCNames
    InitType <- MCInitType
    InitDir <- MCInitDir
    Procs <- AllProcs
    Fhs <- MCFhs
    Guards <- MCGuards
    Masks <- MCMasks
    MaxReqs = 1
SPECIFICATION Spec
INVARIANT ReplyWellFormed
