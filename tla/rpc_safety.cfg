\* Safety and liveness of retransmission suppression with the code's tracker.
CONSTANTS
    c1 = c1
    c2 = c2
    x1 = x1
    NotSeen = NotSeen
    Clients <- MCClients
    Xids <- MCXids
    MsgKinds = {"CALL", "BADVERS", "REPLY"}
    Window = 2
    MaxTime = 2
    MaxSends = 3
    MaxDisconnects = 1
SPECIFICATION Spec
INVARIANT TypeOK
INVARIANT DropOnlyAfterCompletion
PROPERTY CallEventuallyExecuted
