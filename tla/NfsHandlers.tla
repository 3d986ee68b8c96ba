---------------------------- MODULE NfsHandlers ----------------------------
(***************************************************************************)
(* The NFSv3 procedure handlers of nfsserve (src/src/protocol/nfs/v3) run  *)
(* concurrently against one shared VFS.  Every VFS call is an await, so a  *)
(* handler is a sequence of steps, each made of the synchronous code up to *)
(* and including one VFS call; steps of different handlers interleave.     *)
(* The VFS is atomic per call (spec section 5: it owns its interior        *)
(* synchronisation).                                                       *)
(*                                                                         *)
(* Abstraction: an object's attributes are its type and a change counter   *)
(* standing for (size, mtime, ctime), so a wcc_attr is one number and a    *)
(* fattr3 is the same number.  A reply is a record per result written to   *)
(* the request's buffer: its status, the sequence of result fields after   *)
(* the status (its XDR shape), and the WCC before/after values.            *)
(***************************************************************************)
EXTENDS Naturals, Sequences, FiniteSets
LOCAL INSTANCE Bitwise

CONSTANTS
    Ids,        \* fileids
    Names,      \* file names
    InitType,   \* InitType[id]: type of each object at start, or Absent
    InitDir,    \* InitDir[d][n]: the directory entries at start
    Procs,      \* the procedures clients call in a run
    Fhs,        \* file handles clients send: fileids and StaleFh
    Guards,     \* SETATTR guards clients send: ctimes and NoGuard
    Masks,      \* ACCESS3 masks clients request
    MaxReqs,    \* bound on requests
    StaleFh,    \* a handle of an earlier server generation
    NoGuard, Void, NoEntry, Absent, None

FTypes == {"REG", "DIR", "LNK", "CHR"}

ASSUME InitType \in [Ids -> FTypes \cup {Absent}]
ASSUME InitDir \in [Ids -> [Names -> Ids \cup {NoEntry}]]

VARIABLES
    rw,       \* capabilities() = ReadWrite
    ftype,    \* ftype[id]: the object's type, Absent when it does not exist
    change,   \* change[id]: the object's change counter (size/mtime/ctime)
    entries,  \* entries[d][n]: the directory entries of d
    born,     \* fileids ever used: the VFS does not reuse a fileid
    tasks     \* the handler tasks, one per request

vars == <<rw, ftype, change, entries, born, tasks>>

Stat == {"OK", "NOENT", "NOTDIR", "ISDIR", "EXIST", "NOTEMPTY", "NOSPC",
         "INVAL", "ROFS", "STALE", "NOT_SYNC", "GARBAGE_ARGS", "IO",
         "PROG_MISMATCH", "PROC_UNAVAIL"}
Field == {"fattr", "post_attr", "wcc", "fh", "post_fh", "mask", "data",
          "path", "verf", "fsinfo", "fsstat"}
Result == [stat : Stat, shape : Seq(Field), before : Nat \cup {Void},
           after : Nat \cup {Void}, ty : FTypes \cup {None},
           granted : Nat \cup {None}]
Args == [fh : Fhs, fh2 : Fhs, name : Names, guard : Guards,
         countOk : BOOLEAN, access : Masks]
Task == [proc : Procs, args : Args, pc : STRING, pre : Nat \cup {Void},
         id : Ids \cup {None}, id2 : Ids \cup {None}, res : Stat \cup {None},
         mutFrom : Nat \cup {None}, out : Seq(Result)]

-----------------------------------------------------------------------------
(* The VFS (the NFSFileSystem trait of src/src/vfs.rs).                    *)

Present(x) == ftype[x] # Absent
IsDir(x) == ftype[x] = "DIR"

\* fh_to_id: a handle of an earlier generation fails with NFS3ERR_STALE;
\* any other handle is modelled by the fileid it carries.
StaleHandle(fh) == fh = StaleFh

\* getattr: the attributes, or Err (NOENT) for an object that is gone.
GetAttr(x) == IF Present(x) THEN change[x] ELSE Void

Bump(S) == change' = [x \in Ids |-> IF x \in S THEN change[x] + 1
                                                ELSE change[x]]

FreeIds == {x \in Ids : x \notin born}

\* The status of creating name n in d (mkdir, mknod).
CreateStat(d, n) ==
    CASE ~Present(d)             -> "NOENT"
      [] ~IsDir(d)               -> "NOTDIR"
      [] entries[d][n] # NoEntry -> "EXIST"
      [] FreeIds = {}            -> "NOSPC"
      [] OTHER                   -> "OK"

NewId == CHOOSE x \in FreeIds : TRUE

\* A successful create: a new object of type ty named n in d.
Create(d, n, ty) ==
    /\ ftype' = [ftype EXCEPT ![NewId] = ty]
    /\ entries' = [entries EXCEPT ![d][n] = NewId]
    /\ change' = [change EXCEPT ![d] = @ + 1, ![NewId] = 0]
    /\ born' = born \cup {NewId}

Linked(x, ents) == \E d \in Ids, n \in Names : ents[d][n] = x

RemoveStat(d, n) ==
    CASE ~Present(d)             -> "NOENT"
      [] ~IsDir(d)               -> "NOTDIR"
      [] entries[d][n] = NoEntry -> "NOENT"
      [] IsDir(entries[d][n]) /\
         \E m \in Names : entries[entries[d][n]][m] # NoEntry -> "NOTEMPTY"
      [] OTHER                   -> "OK"

\* A successful remove: the entry goes; the object goes with its last link.
Remove(d, n) ==
    LET x == entries[d][n]
        ents == [entries EXCEPT ![d][n] = NoEntry]
    IN /\ entries' = ents
       /\ ftype' = IF Linked(x, ents) THEN ftype
                   ELSE [ftype EXCEPT ![x] = Absent]
       /\ Bump(IF Linked(x, ents) THEN {d, x} ELSE {d})
       /\ UNCHANGED born

LinkStat(f, d, n) ==
    CASE ~Present(f) \/ ~Present(d) -> "NOENT"
      [] ~IsDir(d)                  -> "NOTDIR"
      [] IsDir(f)                   -> "ISDIR"
      [] entries[d][n] # NoEntry    -> "EXIST"
      [] OTHER                      -> "OK"

\* setattr, write, commit, read, readlink and lookup on a single object.
ObjStat(op, x) ==
    CASE ~Present(x)                                  -> "NOENT"
      [] op \in {"write", "read"} /\ IsDir(x)         -> "ISDIR"
      [] op = "readlink" /\ ftype[x] # "LNK"          -> "INVAL"
      [] op = "lookup" /\ ~IsDir(x)                   -> "NOTDIR"
      [] OTHER                                        -> "OK"

-----------------------------------------------------------------------------
(* Handler steps.  A step is the synchronous code of a handler up to and   *)
(* including its next VFS call; t.pc names the VFS call the task awaits.   *)

VfsSame == UNCHANGED <<rw, ftype, change, entries, born>>

Wcc(s, shape, b, a) == [stat |-> s, shape |-> shape, before |-> b, after |-> a,
                        ty |-> None, granted |-> None]
R(s, shape) == Wcc(s, shape, Void, Void)

\* The handler serializes result r into its output and returns.
Reply(i, r) == tasks' = [tasks EXCEPT ![i].out = Append(@, r), ![i].pc = "done"]

At(i, p, pc) == tasks[i].proc = p /\ tasks[i].pc = pc

\* Default values of the arguments a procedure does not take.
Default == [fh2 |-> StaleFh, name |-> CHOOSE n \in Names : TRUE,
            guard |-> NoGuard, countOk |-> TRUE, access |-> CHOOSE m \in Masks : TRUE]
Uses(p) ==
    CASE p = "SETATTR" -> {"guard"}
      [] p = "WRITE"   -> {"countOk"}
      [] p = "LINK"    -> {"fh2", "name"}
      [] p = "ACCESS"  -> {"access"}
      [] p \in {"REMOVE", "MKDIR", "MKNOD", "LOOKUP"} -> {"name"}
      [] OTHER         -> {}
Request(p) == {a \in Args : \A f \in DOMAIN Default \ Uses(p) : a[f] = Default[f]}

Init ==
    /\ rw \in BOOLEAN
    /\ ftype = InitType
    /\ change = [x \in Ids |-> 0]
    /\ entries = InitDir
    /\ born = {x \in Ids : InitType[x] # Absent}
    /\ tasks = << >>

\* A request arrives and handle_nfs starts its handler.
Issue(p, a) ==
    /\ Len(tasks) < MaxReqs
    /\ tasks' = Append(tasks, [proc |-> p, args |-> a, pc |-> "start",
                               pre |-> Void, id |-> None, id2 |-> None,
                               res |-> None, mutFrom |-> None, out |-> << >>])
    /\ VfsSame

\* GETATTR: fh_to_id, getattr, reply.
Getattr(i) ==
    LET id == tasks[i].args.fh IN
    /\ At(i, "GETATTR", "start")
    /\ \/ StaleHandle(id) /\ Reply(i, R("STALE", << >>))
       \/ ~StaleHandle(id) /\ Present(id) /\ Reply(i, R("OK", <<"fattr">>))
       \/ ~StaleHandle(id) /\ ~Present(id) /\ Reply(i, R("NOENT", << >>))
    /\ VfsSame

\* SETATTR up to the pre-op getattr, and the guard check after it: on a
\* ctime mismatch NOT_SYNC is serialized and the handler goes on.
SetattrPreOp(i) ==
    LET t == tasks[i]
        id == t.args.fh
        stale == t.args.guard # NoGuard /\ t.args.guard # change[id]
    IN
    /\ At(i, "SETATTR", "start")
    /\ \/ ~rw /\ Reply(i, Wcc("ROFS", <<"wcc">>, Void, Void))
       \/ rw /\ StaleHandle(id) /\ Reply(i, R("STALE", << >>))
       \/ rw /\ ~StaleHandle(id) /\ ~Present(id)
          /\ Reply(i, Wcc("NOENT", <<"wcc">>, Void, Void))
       \/ rw /\ ~StaleHandle(id) /\ Present(id)
          /\ tasks' = [tasks EXCEPT ![i].id = id, ![i].pre = change[id],
                ![i].pc = "setattr",
                ![i].out = IF stale
                           THEN Append(@, Wcc("NOT_SYNC", <<"wcc">>, Void, Void))
                           ELSE @]
    /\ VfsSame

\* SETATTR: vfs.setattr and the reply; after is setattr's own result.
SetattrApply(i) ==
    LET t == tasks[i] IN
    /\ At(i, "SETATTR", "setattr")
    /\ \/ /\ Present(t.id)
          /\ Bump({t.id})
          /\ tasks' = [tasks EXCEPT ![i].mutFrom = change[t.id],
                ![i].out = Append(@, Wcc("OK", <<"wcc">>, t.pre, change[t.id] + 1)),
                ![i].pc = "done"]
          /\ UNCHANGED <<rw, ftype, entries, born>>
       \/ ~Present(t.id) /\ Reply(i, Wcc("NOENT", <<"wcc">>, Void, Void)) /\ VfsSame

\* WRITE up to the pre-op getattr (whose failure gives a Void before).
WritePreOp(i) ==
    LET t == tasks[i]
        id == t.args.fh
    IN
    /\ At(i, "WRITE", "start")
    /\ \/ ~rw /\ Reply(i, Wcc("ROFS", <<"wcc">>, Void, Void))
       \/ rw /\ ~t.args.countOk /\ Reply(i, R("GARBAGE_ARGS", << >>))
       \/ rw /\ t.args.countOk /\ StaleHandle(id)
          /\ Reply(i, Wcc("STALE", <<"wcc">>, Void, Void))
       \/ rw /\ t.args.countOk /\ ~StaleHandle(id)
          /\ tasks' = [tasks EXCEPT ![i].id = id, ![i].pre = GetAttr(id),
                                    ![i].pc = "write"]
    /\ VfsSame

\* WRITE: vfs.write and the reply; the error branch sends empty wcc_data.
WriteApply(i) ==
    LET t == tasks[i]
        s == ObjStat("write", t.id)
    IN
    /\ At(i, "WRITE", "write")
    /\ \/ /\ s = "OK"
          /\ Bump({t.id})
          /\ tasks' = [tasks EXCEPT ![i].mutFrom = change[t.id],
                ![i].out = Append(@, Wcc("OK", <<"wcc", "verf">>, t.pre,
                                         change[t.id] + 1)),
                ![i].pc = "done"]
          /\ UNCHANGED <<rw, ftype, entries, born>>
       \/ s # "OK" /\ Reply(i, Wcc(s, <<"wcc">>, Void, Void)) /\ VfsSame

\* The start of REMOVE and MKDIR: capability, fh_to_id of the directory and
\* the pre-op getattr, whose failure ends the handler.
DirPreOp(i, next) ==
    LET id == tasks[i].args.fh IN
    /\ \/ ~rw /\ Reply(i, Wcc("ROFS", <<"wcc">>, Void, Void))
       \/ rw /\ StaleHandle(id) /\ Reply(i, Wcc("STALE", <<"wcc">>, Void, Void))
       \/ rw /\ ~StaleHandle(id) /\ ~Present(id)
          /\ Reply(i, Wcc("NOENT", <<"wcc">>, Void, Void))
       \/ rw /\ ~StaleHandle(id) /\ Present(id)
          /\ tasks' = [tasks EXCEPT ![i].id = id, ![i].pre = change[id],
                                    ![i].pc = next]
    /\ VfsSame

RemovePreOp(i) == At(i, "REMOVE", "start") /\ DirPreOp(i, "remove")

\* REMOVE: vfs.remove; its result is kept for the reply.
RemoveApply(i) ==
    LET t == tasks[i]
        s == RemoveStat(t.id, t.args.name)
    IN
    /\ At(i, "REMOVE", "remove")
    /\ \/ s = "OK" /\ Remove(t.id, t.args.name) /\ UNCHANGED rw
       \/ s # "OK" /\ VfsSame
    /\ tasks' = [tasks EXCEPT ![i].res = s, ![i].pc = "post",
                 ![i].mutFrom = IF s = "OK" THEN change[t.id] ELSE None]

\* (Mutant) REMOVE reusing the pre-op attributes as its post-op attributes
\* instead of re-reading the directory.
RemovePostOpStale(i) ==
    LET t == tasks[i] IN
    /\ At(i, "REMOVE", "post")
    /\ Reply(i, Wcc(t.res, <<"wcc">>, t.pre, t.pre))
    /\ VfsSame

\* REMOVE: the post-op getattr of the directory and the reply.
RemovePostOp(i) ==
    LET t == tasks[i] IN
    /\ At(i, "REMOVE", "post")
    /\ Reply(i, Wcc(t.res, <<"wcc">>, t.pre, GetAttr(t.id)))
    /\ VfsSame

MkdirPreOp(i) == At(i, "MKDIR", "start") /\ DirPreOp(i, "mkdir")

\* The shape of CREATE3res, MKDIR3res and MKNOD3res.
CreateShape(s) == IF s = "OK" THEN <<"post_fh", "post_attr", "wcc">>
                  ELSE <<"wcc">>

\* MKDIR and MKNOD: vfs.mkdir / vfs.mknod; the result is kept for the reply.
CreateApply(i, ty) ==
    LET t == tasks[i]
        s == CreateStat(t.id, t.args.name)
    IN
    /\ \/ s = "OK" /\ Create(t.id, t.args.name, ty) /\ UNCHANGED rw
       \/ s # "OK" /\ VfsSame
    /\ tasks' = [tasks EXCEPT ![i].res = s, ![i].pc = "post",
                 ![i].mutFrom = IF s = "OK" THEN change[t.id] ELSE None]

MkdirApply(i) == At(i, "MKDIR", "mkdir") /\ CreateApply(i, "DIR")

\* MKDIR and MKNOD: the post-op getattr of the directory and the reply.
CreatePostOp(i) ==
    LET t == tasks[i] IN
    /\ Reply(i, Wcc(t.res, CreateShape(t.res), t.pre, GetAttr(t.id)))
    /\ VfsSame

MkdirPostOp(i) == At(i, "MKDIR", "post") /\ CreatePostOp(i)

\* MKNOD up to the pre-op getattr; unlike MKDIR it goes on when it fails.
MknodPreOp(i) ==
    LET id == tasks[i].args.fh IN
    /\ At(i, "MKNOD", "start")
    /\ \/ ~rw /\ Reply(i, Wcc("ROFS", <<"wcc">>, Void, Void))
       \/ rw /\ StaleHandle(id) /\ Reply(i, Wcc("STALE", <<"wcc">>, Void, Void))
       \/ rw /\ ~StaleHandle(id)
          /\ tasks' = [tasks EXCEPT ![i].id = id, ![i].pre = GetAttr(id),
                                    ![i].pc = "mknod"]
    /\ VfsSame

MknodApply(i) == At(i, "MKNOD", "mknod") /\ CreateApply(i, "CHR")

MknodPostOp(i) == At(i, "MKNOD", "post") /\ CreatePostOp(i)

\* LINK up to the pre-op getattr of the link directory.
LinkPreOp(i) ==
    LET t == tasks[i]
        f == t.args.fh
        d == t.args.fh2
        fail(s) == Reply(i, Wcc(s, <<"post_attr", "wcc">>, Void, Void))
    IN
    /\ At(i, "LINK", "start")
    /\ \/ ~rw /\ fail("ROFS")
       \/ rw /\ StaleHandle(f) /\ fail("STALE")
       \/ rw /\ ~StaleHandle(f) /\ StaleHandle(d) /\ fail("STALE")
       \/ rw /\ ~StaleHandle(f) /\ ~StaleHandle(d)
          /\ tasks' = [tasks EXCEPT ![i].id = f, ![i].id2 = d,
                                    ![i].pre = GetAttr(d), ![i].pc = "link"]
    /\ VfsSame

\* LINK: vfs.link; on success the post-op getattr of the directory comes
\* next, on failure first a getattr of the file.
LinkApply(i) ==
    LET t == tasks[i]
        s == LinkStat(t.id, t.id2, t.args.name)
    IN
    /\ At(i, "LINK", "link")
    /\ \/ /\ s = "OK"
          /\ entries' = [entries EXCEPT ![t.id2][t.args.name] = t.id]
          /\ Bump({t.id, t.id2})
          /\ UNCHANGED <<rw, ftype, born>>
          /\ tasks' = [tasks EXCEPT ![i].res = s, ![i].pc = "post",
                                    ![i].mutFrom = change[t.id2]]
       \/ /\ s # "OK"
          /\ tasks' = [tasks EXCEPT ![i].res = s, ![i].pc = "fileattr"]
          /\ VfsSame

\* LINK, failure branch: the getattr of the file.
LinkFileAttr(i) ==
    /\ At(i, "LINK", "fileattr")
    /\ tasks' = [tasks EXCEPT ![i].pc = "post"]
    /\ VfsSame

\* LINK: the post-op getattr of the directory and the reply.
LinkPostOp(i) ==
    LET t == tasks[i] IN
    /\ At(i, "LINK", "post")
    /\ Reply(i, Wcc(t.res, <<"post_attr", "wcc">>, t.pre, GetAttr(t.id2)))
    /\ VfsSame

\* COMMIT up to the pre-op getattr.
CommitPreOp(i) ==
    LET id == tasks[i].args.fh IN
    /\ At(i, "COMMIT", "start")
    /\ \/ StaleHandle(id) /\ Reply(i, Wcc("STALE", <<"wcc">>, Void, Void))
       \/ ~StaleHandle(id)
          /\ tasks' = [tasks EXCEPT ![i].id = id, ![i].pre = GetAttr(id),
                                    ![i].pc = "commit"]
    /\ VfsSame

\* COMMIT: vfs.commit, which changes nothing; on failure a getattr follows.
CommitApply(i) ==
    LET t == tasks[i]
        s == ObjStat("commit", t.id)
    IN
    /\ At(i, "COMMIT", "commit")
    /\ \/ s = "OK" /\ Reply(i, Wcc("OK", <<"wcc", "verf">>, t.pre, change[t.id]))
       \/ s # "OK" /\ tasks' = [tasks EXCEPT ![i].res = s, ![i].pc = "post"]
    /\ VfsSame

CommitPostOp(i) ==
    LET t == tasks[i] IN
    /\ At(i, "COMMIT", "post")
    /\ Reply(i, Wcc(t.res, <<"wcc">>, t.pre, GetAttr(t.id)))
    /\ VfsSame

\* LOOKUP up to the getattr of the directory (dir_attr may be Void).
LookupDirAttr(i) ==
    LET id == tasks[i].args.fh IN
    /\ At(i, "LOOKUP", "start")
    /\ \/ StaleHandle(id) /\ Reply(i, R("STALE", <<"post_attr">>))
       \/ ~StaleHandle(id)
          /\ tasks' = [tasks EXCEPT ![i].id = id, ![i].pc = "lookup"]
    /\ VfsSame

\* (Mutant) LOOKUP taking the directory entry without checking it exists.
LookupApplyUnchecked(i) ==
    LET t == tasks[i]
        s == ObjStat("lookup", t.id)
    IN
    /\ At(i, "LOOKUP", "lookup")
    /\ \/ s = "OK" /\ tasks' = [tasks EXCEPT ![i].id2 = entries[t.id][t.args.name],
                                             ![i].pc = "objattr"]
       \/ s # "OK" /\ Reply(i, R(s, <<"post_attr">>))
    /\ VfsSame

\* LOOKUP: vfs.lookup; on success the getattr of the object comes next.
LookupApply(i) ==
    LET t == tasks[i]
        s == IF ObjStat("lookup", t.id) # "OK" THEN ObjStat("lookup", t.id)
             ELSE IF entries[t.id][t.args.name] = NoEntry THEN "NOENT"
             ELSE "OK"
    IN
    /\ At(i, "LOOKUP", "lookup")
    /\ \/ s = "OK" /\ tasks' = [tasks EXCEPT ![i].id2 = entries[t.id][t.args.name],
                                             ![i].pc = "objattr"]
       \/ s # "OK" /\ Reply(i, R(s, <<"post_attr">>))
    /\ VfsSame

LookupObjAttr(i) ==
    /\ At(i, "LOOKUP", "objattr")
    /\ Reply(i, R("OK", <<"fh", "post_attr", "post_attr">>))
    /\ VfsSame

\* READ up to the getattr of the file (Void on failure).
ReadPreOp(i) ==
    LET id == tasks[i].args.fh IN
    /\ At(i, "READ", "start")
    /\ \/ StaleHandle(id) /\ Reply(i, R("STALE", <<"post_attr">>))
       \/ ~StaleHandle(id) /\ tasks' = [tasks EXCEPT ![i].id = id, ![i].pc = "read"]
    /\ VfsSame

ReadApply(i) ==
    LET s == ObjStat("read", tasks[i].id) IN
    /\ At(i, "READ", "read")
    /\ \/ s = "OK" /\ Reply(i, R("OK", <<"post_attr", "data">>))
       \/ s # "OK" /\ Reply(i, R(s, <<"post_attr">>))
    /\ VfsSame

\* READLINK up to the getattr of the link, whose failure ends the handler;
\* a bad handle is answered with the status alone.
ReadlinkPreOp(i) ==
    LET id == tasks[i].args.fh IN
    /\ At(i, "READLINK", "start")
    /\ \/ StaleHandle(id) /\ Reply(i, R("STALE", << >>))
       \/ ~StaleHandle(id) /\ ~Present(id) /\ Reply(i, R("NOENT", <<"post_attr">>))
       \/ ~StaleHandle(id) /\ Present(id)
          /\ tasks' = [tasks EXCEPT ![i].id = id, ![i].pc = "readlink"]
    /\ VfsSame

ReadlinkApply(i) ==
    LET s == ObjStat("readlink", tasks[i].id) IN
    /\ At(i, "READLINK", "readlink")
    /\ \/ s = "OK" /\ Reply(i, R("OK", <<"post_attr", "path">>))
       \/ s # "OK" /\ Reply(i, R(s, <<"post_attr">>))
    /\ VfsSame

\* The ACCESS3 bits (nfs3::ACCESS3_*).
ACCESS3_READ == 1
ACCESS3_LOOKUP == 2
ACCESS3_MODIFY == 4
ACCESS3_EXTEND == 8
ACCESS3_DELETE == 16
ACCESS3_EXECUTE == 32

\* (Mutant) a read-only directory granting execute along with read.
GrantedAccessDirRx(access, ty, readWrite) ==
    LET RX == ACCESS3_READ | ACCESS3_EXECUTE
        MED == ACCESS3_MODIFY | ACCESS3_EXTEND | ACCESS3_DELETE
    IN ACCESS3_LOOKUP |
       CASE ty = "REG" -> IF readWrite THEN access ELSE access & RX
         [] ty = "DIR" -> IF readWrite THEN (access & RX) | (access & MED)
                          ELSE access & RX
         [] ty = "LNK" -> access & ACCESS3_READ
         [] OTHER      -> access & RX

\* granted_access: LOOKUP, and the requested bits the object's type and the
\* capability allow.  Each `if access & B != 0 { granted |= access & B }`
\* of the code (or `|= B` for a single bit B) is `access & B`.
GrantedAccess(access, ty, readWrite) ==
    LET RX == ACCESS3_READ | ACCESS3_EXECUTE
        MED == ACCESS3_MODIFY | ACCESS3_EXTEND | ACCESS3_DELETE
    IN ACCESS3_LOOKUP |
       CASE ty = "REG" -> IF readWrite THEN access ELSE access & RX
         [] ty = "DIR" -> IF readWrite THEN (access & RX) | (access & MED)
                          ELSE access & ACCESS3_READ
         [] ty = "LNK" -> access & ACCESS3_READ
         [] OTHER      -> access & RX

\* ACCESS: fh_to_id, getattr (whose failure ends the handler), and the
\* granted mask computed from the type in those attributes and
\* capabilities(); the reply carries the attributes (their type) and mask.
AccessGetattr(i) ==
    LET id == tasks[i].args.fh IN
    /\ At(i, "ACCESS", "start")
    /\ \/ StaleHandle(id) /\ Reply(i, R("STALE", <<"post_attr">>))
       \/ ~StaleHandle(id) /\ ~Present(id) /\ Reply(i, R("NOENT", <<"post_attr">>))
       \/ /\ ~StaleHandle(id) /\ Present(id)
          /\ Reply(i, [R("OK", <<"post_attr", "mask">>) EXCEPT
                          !.ty = ftype[id],
                          !.granted = GrantedAccess(tasks[i].args.access, ftype[id], rw)])
    /\ VfsSame

\* FSINFO: fh_to_id and vfs.fsinfo.  The trait's default fsinfo always
\* succeeds (with Void attributes for an object that is gone); an
\* embedder's own fsinfo may fail (NFS3ERR_IO here), and that error is
\* serialized alone.
Fsinfo(i) ==
    LET id == tasks[i].args.fh IN
    /\ At(i, "FSINFO", "start")
    /\ \/ StaleHandle(id) /\ Reply(i, R("STALE", <<"post_attr">>))
       \/ ~StaleHandle(id) /\ Reply(i, R("OK", <<"post_attr", "fsinfo">>))
       \/ ~StaleHandle(id) /\ Reply(i, R("IO", << >>))
    /\ VfsSame

\* FSSTAT: fh_to_id and a getattr whose failure only voids the attributes.
Fsstat(i) ==
    LET id == tasks[i].args.fh IN
    /\ At(i, "FSSTAT", "start")
    /\ \/ StaleHandle(id) /\ Reply(i, R("STALE", <<"post_attr">>))
       \/ ~StaleHandle(id) /\ Reply(i, R("OK", <<"post_attr", "fsstat">>))
    /\ VfsSame

\* NULL: the accepted reply header alone.
Null(i) ==
    /\ At(i, "NULL", "start")
    /\ Reply(i, R("OK", << >>))
    /\ VfsSame

\* handle_nfs, a call whose version is not 3: prog_mismatch_reply_message.
ProgMismatch(i) ==
    /\ At(i, "BADVERS", "start")
    /\ Reply(i, R("PROG_MISMATCH", << >>))
    /\ VfsSame

\* handle_nfs, a procedure number no arm matches: proc_unavail_reply_message.
ProcUnavail(i) ==
    /\ At(i, "UNAVAIL", "start")
    /\ Reply(i, R("PROC_UNAVAIL", << >>))
    /\ VfsSame

\* Every request has been answered and no more arrive.
Quiescent ==
    /\ Len(tasks) = MaxReqs
    /\ \A i \in DOMAIN tasks : tasks[i].pc = "done"
    /\ UNCHANGED vars

Next ==
    \/ \E p \in Procs : \E a \in Request(p) : Issue(p, a)
    \/ \E i \in DOMAIN tasks : Getattr(i)
    \/ \E i \in DOMAIN tasks : SetattrPreOp(i)
    \/ \E i \in DOMAIN tasks : SetattrApply(i)
    \/ \E i \in DOMAIN tasks : WritePreOp(i)
    \/ \E i \in DOMAIN tasks : WriteApply(i)
    \/ \E i \in DOMAIN tasks : RemovePreOp(i)
    \/ \E i \in DOMAIN tasks : RemoveApply(i)
    \/ \E i \in DOMAIN tasks : RemovePostOp(i)
    \/ \E i \in DOMAIN tasks : MkdirPreOp(i)
    \/ \E i \in DOMAIN tasks : MkdirApply(i)
    \/ \E i \in DOMAIN tasks : MkdirPostOp(i)
    \/ \E i \in DOMAIN tasks : MknodPreOp(i)
    \/ \E i \in DOMAIN tasks : MknodApply(i)
    \/ \E i \in DOMAIN tasks : MknodPostOp(i)
    \/ \E i \in DOMAIN tasks : LinkPreOp(i)
    \/ \E i \in DOMAIN tasks : LinkApply(i)
    \/ \E i \in DOMAIN tasks : LinkFileAttr(i)
    \/ \E i \in DOMAIN tasks : LinkPostOp(i)
    \/ \E i \in DOMAIN tasks : CommitPreOp(i)
    \/ \E i \in DOMAIN tasks : CommitApply(i)
    \/ \E i \in DOMAIN tasks : CommitPostOp(i)
    \/ \E i \in DOMAIN tasks : LookupDirAttr(i)
    \/ \E i \in DOMAIN tasks : LookupApply(i)
    \/ \E i \in DOMAIN tasks : LookupObjAttr(i)
    \/ \E i \in DOMAIN tasks : ReadPreOp(i)
    \/ \E i \in DOMAIN tasks : ReadApply(i)
    \/ \E i \in DOMAIN tasks : ReadlinkPreOp(i)
    \/ \E i \in DOMAIN tasks : ReadlinkApply(i)
    \/ \E i \in DOMAIN tasks : AccessGetattr(i)
    \/ \E i \in DOMAIN tasks : Fsinfo(i)
    \/ \E i \in DOMAIN tasks : Fsstat(i)
    \/ \E i \in DOMAIN tasks : Null(i)
    \/ \E i \in DOMAIN tasks : ProgMismatch(i)
    \/ \E i \in DOMAIN tasks : ProcUnavail(i)
    \/ Quiescent

Spec == Init /\ [][Next]_vars

-----------------------------------------------------------------------------
(* Properties                                                              *)

TypeOK ==
    /\ rw \in BOOLEAN
    /\ ftype \in [Ids -> FTypes \cup {Absent}]
    /\ change \in [Ids -> Nat]
    /\ entries \in [Ids -> [Names -> Ids \cup {NoEntry}]]
    /\ born \subseteq Ids
    /\ tasks \in Seq(Task)

\* Weak cache consistency of the mutating handlers (SETATTR, WRITE, REMOVE,
\* MKDIR, MKNOD, LINK): in a successful reply with both wcc_data halves,
\* `before` was read no later than the request's own mutation and `after`
\* after it, however other handlers' steps interleave between the pre-op
\* getattr, the mutation and the post-op getattr.  A client then may take
\* after = before + 1 to mean that no one else changed the object.
WccBracketsMutation ==
    \A i \in DOMAIN tasks :
        LET t == tasks[i] IN
        t.mutFrom # None =>
            \A k \in DOMAIN t.out :
                LET r == t.out[k] IN
                (r.stat = "OK" /\ r.before # Void /\ r.after # Void)
                    => r.before <= t.mutFrom /\ t.mutFrom < r.after

\* SETATTR with a guard (spec section 4.4): when the object's ctime differs
\* from the guard the handler answers NOT_SYNC and changes nothing.
SetattrGuardHonoured ==
    \A i \in DOMAIN tasks :
        (\E k \in DOMAIN tasks[i].out : tasks[i].out[k].stat = "NOT_SYNC")
            => tasks[i].mutFrom = None

\* The result fields RFC 1813 gives each procedure's result union, by
\* whether the status is NFS3_OK.
ResShape(p, ok) ==
    CASE p = "GETATTR"                -> IF ok THEN <<"fattr">> ELSE << >>
      [] p \in {"SETATTR", "REMOVE"}  -> <<"wcc">>
      [] p \in {"WRITE", "COMMIT"}    -> IF ok THEN <<"wcc", "verf">> ELSE <<"wcc">>
      [] p \in {"MKDIR", "MKNOD"}     -> CreateShape(IF ok THEN "OK" ELSE "ERR")
      [] p = "LINK"                   -> <<"post_attr", "wcc">>
      [] p = "LOOKUP"   -> IF ok THEN <<"fh", "post_attr", "post_attr">> ELSE <<"post_attr">>
      [] p = "READ"     -> IF ok THEN <<"post_attr", "data">> ELSE <<"post_attr">>
      [] p = "READLINK" -> IF ok THEN <<"post_attr", "path">> ELSE <<"post_attr">>
      [] p = "ACCESS"   -> IF ok THEN <<"post_attr", "mask">> ELSE <<"post_attr">>
      [] p = "FSINFO"   -> IF ok THEN <<"post_attr", "fsinfo">> ELSE <<"post_attr">>
      [] p = "FSSTAT"   -> IF ok THEN <<"post_attr", "fsstat">> ELSE <<"post_attr">>
      [] p = "NULL"     -> << >>

\* Every reply a handler serializes is the procedure's result union for its
\* status (an NFS3ERR_STALE from fh_to_id included), so the client can
\* decode it; GARBAGE_ARGS, PROG_MISMATCH and PROC_UNAVAIL are RPC-level
\* replies with no body.
RpcLevel == {"GARBAGE_ARGS", "PROG_MISMATCH", "PROC_UNAVAIL"}

ReplyWellFormed ==
    \A i \in DOMAIN tasks :
        \A k \in DOMAIN tasks[i].out :
            LET r == tasks[i].out[k] IN
            r.stat \in RpcLevel \/ r.shape = ResShape(tasks[i].proc, r.stat = "OK")

\* The spec's ACCESS table (section 4.4) over sets of bit positions: LOOKUP
\* (bit 1) always, and the requested bits the type and capability allow,
\* where READ is bit 0, MODIFY, EXTEND, DELETE bits 2-4, EXECUTE bit 5.
MaskWidth == 7
BitsOf(m) == {k \in 0..(MaskWidth - 1) : (m \div 2^k) % 2 = 1}
SpecGranted(access, ty, readWrite) ==
    LET req == BitsOf(access)
        allowed == CASE ty = "REG" -> IF readWrite THEN req ELSE {0, 5}
                     [] ty = "DIR" -> IF readWrite THEN {0, 2, 3, 4, 5} ELSE {0}
                     [] ty = "LNK" -> {0}
                     [] OTHER      -> {0, 5}
    IN {1} \cup (req \cap allowed)

\* ACCESS (access.rs) grants exactly what the spec's table gives the type of
\* the object its getattr saw and the file system's capability, for every
\* requested mask, undefined high bits included: a read-only server never
\* grants MODIFY, EXTEND or DELETE, and a symlink or device never more
\* than READ (or READ and EXECUTE).
AccessGrantsPerSpec ==
    \A i \in DOMAIN tasks :
        \A k \in DOMAIN tasks[i].out :
            LET r == tasks[i].out[k] IN
            r.granted # None =>
                BitsOf(r.granted) = SpecGranted(tasks[i].args.access, r.ty, rw)

=============================================================================
