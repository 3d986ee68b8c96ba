\* A restart of 1 ms after the clock was set back by 1 ms.
CONSTANTS
    Ids = {1, 2}
    o1 = o1
    o2 = o2
    Objs <- MCObjs
    MaxTime = 4
    MaxRestarts = 2
    RestartMs = 1
    MaxSkew = 1
    None = None
SPECIFICATION Spec
INVARIANT ResolvedHandleNamesSameObject
