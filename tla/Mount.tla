------------------------------- MODULE Mount -------------------------------
(***************************************************************************)
(* The MOUNT v3 program (src/src/protocol/nfs/mount) over the file handles *)
(* of FileHandle.  MNT strips the configured export name from the client's *)
(* dirpath, trims the rest, walks it from root_dir() with lookup (the      *)
(* default path_to_id of vfs.rs) and answers id_to_fh of the object found; *)
(* UMNT and UMNTALL only signal.  The client keeps the handle MNT gave it   *)
(* and presents it later, possibly to a restarted server, as in            *)
(* FileHandle.                                                             *)
(*                                                                         *)
(* Paths are sequences of characters over a small alphabet: the property   *)
(* is about how the dirpath is cut into components, so the conversion is   *)
(* modelled by what it does.  The namespace is a tree of objects; its ids  *)
(* are those of the running process (binding).                             *)
(***************************************************************************)
EXTENDS FileHandle, Sequences
LOCAL INSTANCE SequencesExt

CONSTANTS
    ExportName,   \* context.export_name, a sequence of characters
    DirPaths,     \* the dirpaths clients send
    Whitespace,   \* the characters str::trim removes
    Tree,         \* Tree[o]: the entries of object o, name -> child object
    RootDir,      \* root_dir(): the fileid of the export's root
    RootObj,      \* the object that is the export's root
    MountSignal   \* whether the embedder passed a mount-signal channel

VARIABLES
    signal,   \* the last value sent on the mount-signal channel, or None
    mres      \* the last MNT reply: status and handle, with the dirpath asked

mvars == <<signal, mres>>
allvars == <<vars, mvars>>

-----------------------------------------------------------------------------
(* Paths.                                                                  *)

\* The longest suffix of s that does not start with a character of C
\* (trim_start_matches / trim_start).
TrimStart(s, C) ==
    LET k == SelectInSeq(s, LAMBDA c : c \notin C) IN
    IF k = 0 THEN << >> ELSE SubSeq(s, k, Len(s))

\* The longest prefix of s that does not end with a character of C.
TrimEnd(s, C) ==
    LET k == SelectLastInSeq(s, LAMBDA c : c \notin C) IN
    SubSeq(s, 1, k)

\* s cut at every "/" (path.split(|&r| r == b'/')), empty pieces included.
RECURSIVE SplitSlash(_)
SplitSlash(s) ==
    IF s = << >> THEN << << >> >>
    ELSE LET rest == SplitSlash(Tail(s)) IN
         IF Head(s) = "/" THEN << << >> >> \o rest
         ELSE [rest EXCEPT ![1] = <<Head(s)>> \o @]

\* The id that names object o under the id assignment b.
IdOf(b, o) == CHOOSE id \in Ids : b[id] = o

\* lookup(dir, name) under the id assignment b: the child's id, or None
\* (NFS3ERR_NOENT; NOTDIR for a file, which fails the walk the same way).
Lookup(b, dir, name) ==
    IF dir = None \/ name \notin DOMAIN Tree[b[dir]] THEN None
    ELSE IdOf(b, Tree[b[dir]][name])

\* (Mutant) the walk with every piece looked up, the empty ones included.
RECURSIVE WalkAllPieces(_, _, _)
WalkAllPieces(b, fid, comps) ==
    IF comps = << >> THEN fid
    ELSE WalkAllPieces(b, Lookup(b, fid, Head(comps)), Tail(comps))

\* The walk of path_to_id: one lookup per non-empty component; after the
\* first failing lookup (`?`) the result stays None.
RECURSIVE Walk(_, _, _)
Walk(b, fid, comps) ==
    IF comps = << >> THEN fid
    ELSE Walk(b, IF Head(comps) = << >> THEN fid ELSE Lookup(b, fid, Head(comps)),
              Tail(comps))

\* (Mutant) as PathToId, with every piece looked up.
PathToIdAllPieces(b, path) == WalkAllPieces(b, RootDir, SplitSlash(path))

\* path_to_id: split on "/" and walk from root_dir().
PathToId(b, path) == Walk(b, RootDir, SplitSlash(path))

\* The path mountproc3_mnt passes to path_to_id: the dirpath without the
\* export name, trimmed of "/" at both ends and of whitespace, after "/".
MntPath(p) ==
    LET rest == SubSeq(p, Len(ExportName) + 1, Len(p))
        trimmed == TrimEnd(TrimStart(TrimEnd(TrimStart(rest, {"/"}), {"/"}),
                                     Whitespace), Whitespace)
    IN <<"/">> \o trimmed

\* What mountproc3_mnt resolves dirpath p to: None when the export name is
\* not a prefix or path_to_id fails, else path_to_id's id.
MntResolve(p) ==
    IF ~IsPrefix(ExportName, p) THEN None
    ELSE PathToId(binding, MntPath(p))

-----------------------------------------------------------------------------
(* Handlers (handle_mount routes by procedure).                            *)

Reply(stat, h, p) == mres' = [stat |-> stat, fh |-> h, path |-> p]

\* MNT: a dirpath outside the export, or one path_to_id cannot resolve, is
\* answered MNT3ERR_NOENT; otherwise the handle of what it names, after the
\* signal (true) was sent.
Mnt(p) ==
    LET id == MntResolve(p) IN
    \/ /\ id = None
       /\ Reply("NOENT", None, p)
       /\ UNCHANGED <<vars, signal>>
    \/ /\ id # None
       /\ IdToFh(id)
       /\ signal' = IF MountSignal THEN TRUE ELSE signal
       /\ Reply("OK", [gen |-> GenerationNumber, id |-> id,
                               obj |-> binding[id], inc |-> inc], p)

\* UMNT: the dirpath is read and ignored (no mount list is kept); the
\* signal (false), then MNT3_OK.
Umnt ==
    /\ signal' = IF MountSignal THEN FALSE ELSE signal
    /\ UNCHANGED <<vars, mres>>

\* UMNTALL: the signal (false), then MNT3_OK.
UmntAll ==
    /\ signal' = IF MountSignal THEN FALSE ELSE signal
    /\ UNCHANGED <<vars, mres>>

MountInit ==
    /\ Init
    /\ binding[RootDir] = RootObj
    /\ signal = None
    /\ mres = None

\* A restarted file system's root_dir() still names the export's root.
MountRestart == Restart /\ binding'[RootDir] = RootObj /\ mres' = None
                /\ UNCHANGED signal

MountNext ==
    \/ (Tick \/ StepBack) /\ UNCHANGED mvars
    \/ \E id \in Ids : IdToFh(id) /\ UNCHANGED mvars
    \/ \E h \in held : Present(h) /\ UNCHANGED mvars
    \/ MountRestart
    \/ \E p \in DirPaths : Mnt(p)
    \/ Umnt
    \/ UmntAll

MountSpec == MountInit /\ [][MountNext]_allvars

-----------------------------------------------------------------------------
(* Properties                                                              *)

MountTypeOK ==
    /\ TypeOK
    /\ signal \in {None} \cup BOOLEAN
    /\ mres = None \/ mres.stat \in {"OK", "NOENT"}

\* What spec section 4.5 says MNT mounts: the dirpath with the export name
\* stripped, its non-empty "/"-separated components looked up from the
\* export's root; None when it does not start with the export name or a
\* component is missing.
RECURSIVE ObjWalk(_, _)
ObjWalk(o, comps) ==
    IF comps = << >> \/ o = None THEN o
    ELSE ObjWalk(IF Head(comps) = << >> THEN o
                 ELSE IF Head(comps) \notin DOMAIN Tree[o] THEN None
                 ELSE Tree[o][Head(comps)],
                 Tail(comps))

ExportObject(p) ==
    IF ~IsPrefix(ExportName, p) THEN None
    ELSE ObjWalk(RootObj, SplitSlash(SubSeq(p, Len(ExportName) + 1, Len(p))))

\* MNT answers MNT3_OK exactly for the dirpaths that name an object under
\* the export, and its handle names that object and is accepted by the
\* running process (mountproc3_mnt's trimming and path_to_id's walk agree
\* with the spec, whatever restarts renumbered the ids).
MountedHandleNamesExportPath ==
    mres # None =>
        /\ (mres.stat = "OK") <=> (ExportObject(mres.path) # None)
        /\ mres.stat = "OK" =>
               /\ mres.fh.obj = ExportObject(mres.path)
               /\ FhToId(mres.fh) = [status |-> "OK", id |-> mres.fh.id]
=============================================================================
