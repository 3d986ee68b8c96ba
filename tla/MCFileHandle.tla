---------------------------- MODULE MCFileHandle ----------------------------
(* Two ids and two objects, so that a restart may swap which id names     *)
(* which object; two restarts, so that handles of two earlier processes    *)
(* are held at once.  The clock runs to 4 ms and may be set back by 1:  *)
(* a restart of 1 ms can then land on an earlier process's millisecond,  *)
(* one of 2 ms cannot.                                                    *)
EXTENDS FileHandle
CONSTANTS o1, o2
MCObjs == {o1, o2}
=============================================================================
