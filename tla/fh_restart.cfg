\* Handles, some of them from MNT, across restarts; the clock may be set
\* back by 1 ms, less than a restart takes.
CONSTANTS
    Ids = {1, 2, 3}
    r = r
    o1 = o1
    o2 = o2
    Objs <- MCObjs
    MaxTime = 2
    MaxRestarts = 1
    RestartMs = 2
    MaxSkew = 1
    None = None
    ExportName <- MCExportName
    DirPaths <- MCDirPaths
    Whitespace <- MCWhitespace
    Tree <- MCTree
    RootDir = 1
    RootObj = r
    MountSignal = TRUE
SPECIFICATION MountSpec
INVARIANT MountTypeOK
INVARIANT ResolvedHandleNamesSameObject
INVARIANT CurrentHandlesResolve
INVARIANT MountedHandleNamesExportPath
