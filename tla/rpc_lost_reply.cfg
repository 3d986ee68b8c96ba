\* One client address, CALLs only: checks DropOnlyWhenAnswered.
CONSTANTS
    c1 = c1
    c2 = c2
    x1 = x1
    NotSeen = NotSeen
    Clients <- MCOneClient
    Xids <- MCXids
    MsgKinds = {"CALL"}
    Window = 2
    MaxTime = 1
    MaxSends = 2
    MaxDisconnects = 1
SPECIFICATION Spec
PROPERTY DropOnlyWhenAnswered
