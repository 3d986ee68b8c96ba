--------------------------- MODULE MCNfsHandlers ---------------------------
(* A root directory 1 holding a regular file 2 (n1) and a symlink 3 (n2),  *)
(* with one free fileid (4) and one free name (n3) for creates.            *)
EXTENDS NfsHandlers, TLC

CONSTANTS n1, n2, n3

MCIds == {1, 2, 3, 4}
MCNames == {n1, n2, n3}
MCInitType == (1 :> "DIR") @@ (2 :> "REG") @@ (3 :> "LNK") @@ (4 :> Absent)
NoNames == [n \in MCNames |-> NoEntry]
MCInitDir == [x \in MCIds |->
                IF x = 1 THEN [NoNames EXCEPT ![n1] = 2, ![n2] = 3] ELSE NoNames]
MCFhs == {1, 2, 3, 4, StaleFh}
MCGuards == {NoGuard, 0, 1}
\* READ | MODIFY | EXECUTE, and every bit but READ with an undefined bit 64.
MCMasks == {37, 126}
WriteProcs == {"SETATTR", "WRITE", "REMOVE", "MKDIR", "MKNOD", "LINK"}
ReadProcs == {"GETATTR", "LOOKUP", "ACCESS", "READ", "READLINK", "COMMIT",
              "FSINFO", "FSSTAT", "NULL"}
\* Calls handle_nfs answers itself: a version other than 3, and a
\* procedure number with no handler.
RejectedProcs == {"BADVERS", "UNAVAIL"}
AllProcs == WriteProcs \cup ReadProcs \cup RejectedProcs
SetattrOnly == {"SETATTR"}
=============================================================================
