\* One guarded SETATTR.
CONSTANTS
    n1 = n1  n2 = n2  n3 = n3
    StaleFh = StaleFh  NoGuard = NoGuard  Void = Void
    NoEntry = NoEntry  Absent = Absent  None = None
    Ids <- MCIds
    Names <- MCNames
    InitType <- MCInitType
    InitDir <- MCInitDir
    Procs <- SetattrOnly
    Fhs <- MCFhs
    Guards <- MCGuards
    Masks <- MCMasks
    MaxReqs = 1
SPECIFICATION Spec
INVARIANT SetattrGuardHonoured
