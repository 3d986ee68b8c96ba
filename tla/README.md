# TLA+ models of nfsserve

This directory holds TLA+ models of the NFSv3 server library in `src/src`
and the TLC configurations that check them. Every module is written from the
Rust source; the few parts whose code is not in the repository
(`transaction_tracker.rs`, `tcp.rs`, `create.rs`, `rename.rs`,
`symlink.rs`, `pathconf.rs`, `write_counter.rs`) are modelled from
`spec.md` and are marked `spec_modelled` in `PROJECT.json`.

## 1. Inventory

### Components, their state and operations

| Component | Source | State it keeps | Operations |
|---|---|---|---|
| Record framer | `rpc/wire.rs` `read_fragment`, `write_fragment` | per connection: the partly assembled record `cur_fragment` | read one fragment and append it; split a reply into fragments |
| Connection reader | `rpc/wire.rs` `SocketMessageHandler::read` | `cur_fragment`, the reply channel sender | on a last fragment, take the record and spawn one task for it |
| RPC dispatcher | `rpc/wire.rs` `handle_rpc` | none of its own; reads/writes the transaction tracker | decode `rpc_msg`; REPLY body → error; AUTH_UNIX extraction; `rpcvers != 2` → RPC_MISMATCH; retransmission check; route by program; `mark_processed` |
| Transaction tracker | `transaction_tracker.rs` (not in the repository; spec §4.6) | map (xid, client addr) → last timestamp | `is_retransmission`, `mark_processed` |
| Writer / transport | `tcp.rs` (not in the repository; spec §2, §5, §7) | the socket and the reply channel receiver | send replies in completion order; close the connection on an error item |
| NFSv3 dispatcher | `nfs/v3/mod.rs` `handle_nfs` | none | version check, route 22 procedures, PROC_UNAVAIL |
| NFSv3 handlers | `nfs/v3/*.rs` | none (all state in the VFS) | GETATTR, SETATTR, LOOKUP, ACCESS, READ, WRITE, READLINK, MKDIR, MKNOD, REMOVE/RMDIR, LINK, COMMIT, READDIR, READDIRPLUS, FSINFO, FSSTAT, NULL (CREATE, SYMLINK, RENAME, PATHCONF: code absent) |
| MOUNT handlers | `nfs/mount/*.rs` | the optional mount-signal channel | NULL, MNT (export prefix strip, `path_to_id`), UMNT, UMNTALL, EXPORT |
| PORTMAP handlers | `nfs/portmap/*.rs` | none | version check, NULL, GETPORT |
| VFS contract | `vfs.rs` `NFSFileSystem` | the embedder's file system; the process-wide generation number | trait methods; default `readdir_simple`, `fsinfo`, `id_to_fh`, `fh_to_id`, `path_to_id`, `serverid` |
| XDR codec and wire types | `xdr/*.rs` | none | serialize / deserialize |

### How they interact

A connection has one reader and one writer. The reader reassembles records
from fragments and spawns one tokio task per record (`wire.rs:277`). Each
task runs `handle_rpc`, which consults the tracker (shared by every
connection of the server), runs the handler, calls `mark_processed`, and
then pushes the reply into the connection's unbounded channel
(`wire.rs:289`); the writer sends the replies in completion order. Tasks
outlive their connection: a reply pushed after the connection closed is
lost (`let _ = send.send(..)`). A handler calls the VFS through `await`s:
every VFS call is a suspension point, so the handlers of different requests
interleave between their `getattr`, mutation and second `getattr`.

### What is hard

- **Retransmission suppression** is a check (`wire.rs:79`) and a later mark
  (`wire.rs:117`) with a whole handler between them; the check does not
  record the call as in progress, so a retransmission that arrives while the
  original runs is executed a second time. A suppressed retransmission is
  dropped with no reply, which is right only if the client got, or will get,
  the original's reply; after a reconnect it did not.
- **WCC capture** is three separate VFS calls (pre-op `getattr`, mutation,
  post-op `getattr`) with suspension points between them, so other
  handlers' mutations may land in between.
- **SETATTR guard**: on a ctime mismatch the handler writes a NOT_SYNC
  reply and then does not return (`setattr.rs:55-64`): it goes on to
  mutate and writes a second reply into the same record.
- **READDIR / READDIRPLUS pagination** budgets bytes against
  `maxcount - 128` / `dircount - 128`, computed in `usize` and so
  underflowing when the client sends less than 128; READDIR ignores the
  client's cookie (`readdir.rs:52` calls `readdir_simple`, which always
  starts at 0), so a listing larger than one reply never progresses.
  READDIRPLUS never answers BAD_COOKIE (`readdirplus.rs:100-106` is
  commented out) so that listings survive other clients' creates and
  removes between pages.
- **File handles** embed a generation number taken from the clock once per
  process; handles from an earlier process must be refused.

### Properties that make each component correct

- Dispatcher + tracker: a call received by the server is executed at least
  once; a retransmission is dropped only when the original has completed;
  within the retention window a call is executed at most once (spec §8); a
  dropped retransmission always gets its answer from the original (spec
  §4.3).
- NFS handlers: WCC `before` is the object's state before this request's
  mutation and `after` a state after it, so that a client seeing
  `after = before + one change` may conclude nothing else changed the
  object; a guarded SETATTR with a stale ctime changes nothing (spec §4.4);
  every request gets exactly one reply.
- READDIR(PLUS): every reply fits in `maxcount`, the dircount bytes fit in
  `dircount`, `eof` only when every entry was sent, and a client paging with
  the returned cookies sees every entry exactly once and, when its call can
  hold one entry, reaches `eof`.
- File handles: `fh_to_id(id_to_fh(f)) = f` in one process; a handle of an
  earlier process is STALE.
- MOUNT: MNT mounts exactly what the dirpath names under the export, with a
  handle the running process accepts.
- ACCESS: the granted mask is the table of spec §4.4.

## 2. Plan

Modules, in the order they are built (most important behaviour first):

1. `RpcDispatch` — connections, reader, one task per record with the
   retransmission check, handler execution and `mark_processed` as separate
   steps, the tracker (spec-modelled), writer, disconnect/reconnect, a
   clock. Runs: `rpc_safety` (pass), `rpc_duplicate_exec` (violation),
   `rpc_lost_reply` (violation).
2. `NfsHandlers` — an abstract VFS (objects with a type and a change
   counter standing for ctime/mtime/size; directories as name → id maps)
   and the NFSv3 handlers as tasks stepping from one `await` to the next:
   SETATTR, WRITE, REMOVE, MKDIR, MKNOD, LINK, COMMIT, LOOKUP, READ,
   GETATTR, READLINK, ACCESS (with its granted mask), FSINFO, FSSTAT, NULL,
   and `handle_nfs`'s PROG_MISMATCH and PROC_UNAVAIL. Runs: `nfs_wcc`
   (pass), `nfs_setattr_guard` (violation), `nfs_reply_shape` (violation).
3. `Readdir` — READDIR and READDIRPLUS byte budgeting as operators over a
   directory, and a client paging through it with cookies while other
   clients create and remove entries. Runs:
   `readdirplus_paging` (pass), `readdir_cookie` (violation),
   `readdirplus_small_maxcount` (violation).
4. `FileHandle` — generation number, `id_to_fh` / `fh_to_id`, server
   restarts, and `Mount` over it (MNT, UMNT/UMNTALL, `path_to_id`). Runs:
   `fh_restart` (pass, the composition), `fh_clock_step_reuse` (violation).
5. `RecordMarking` — `write_fragment` / `read_fragment` round trip with a
   small maximum fragment size. Run: `framing` (pass).
6. The ACCESS mask (`GrantedAccess` in `NfsHandlers`) against the table
   of the spec (`SpecGranted`), checked in `nfs_wcc`.
7. PORTMAP dispatch (stateless; see "Not modelled").
8. `NfsAbstract` and 9. `Server` were considered and not built; see "Not
   modelled".

## 3. Modules, runs and bounds

### `RpcDispatch` (`MCRpcDispatch`)

State: per client address the open connection (`up`, `epoch`), the records
in flight on it (`inbox`), its reply channel (`outq`); the spawned tasks
(`tasks`, each with a `pc`: decode → exec → finish → done, or dropped); the
shared tracker (`tracker[<<addr, xid>>]` = time of the last
`mark_processed`); a clock `now`. Actions: a client `Send`s a record; the
transport `Disconnect`s and the client `Reconnect`s and retransmits; the
reader `Read`s a record and spawns a task (`wire.rs:270-298`); a task
decodes (`DecodeReply`, `DecodeBadVersion`, `DecodeRetransmission`,
`DecodeCall`: `wire.rs:64-91`), `Execute`s the handler (`92-116`) and
`Finish`es with `mark_processed` (`117-120`) and the reply send; the writer
`Write`s replies in completion order; the clock `Tick`s. The tracker's code
is not in the repository and follows spec §4.6.

| Run | Expect | What it shows |
|---|---|---|
| `rpc_safety` | pass | With two addresses sharing one xid, CALL/BADVERS/REPLY records, a retransmission and a disconnect, a retransmission is dropped only after the original finished (`DropOnlyAfterCompletion`), and every CALL the reader accepted is executed (`CallEventuallyExecuted`). |
| `rpc_duplicate_exec` | violation | A retransmission read while the original is still in its handler passes `is_retransmission` and is executed twice within the window (spec §8). |
| `rpc_lost_reply` | violation | After a disconnect the original's reply goes to a closed channel and the retransmission on the new connection is dropped: the client never gets an answer (spec §4.3). |

Bounds: two addresses and one xid (enough to tell an (xid, address) key from
an xid key), `Window = 2`, `MaxTime = 2`, three sends, one disconnect.
Fairness: weak fairness of every task's steps (tokio runs every spawned
task), of the reader and of the writer; clients and the clock are not fair.

### `NfsHandlers` (`MCNfsHandlers`)

State: an abstract VFS (`ftype`, `change` counting attribute changes,
`entries[dir][name]`, `born` for the ids ever allocated), and the handler
tasks, each with its procedure, arguments, `pc`, the pre-op attributes it
read, the results it wrote (`out`) and `mutFrom`, the object's change count
at its own mutation. Each handler step runs the synchronous code up to and
including one VFS call, so another request's step can land between a
handler's pre-op `getattr`, its mutation and its post-op `getattr`.
Handlers: GETATTR, SETATTR, WRITE, REMOVE/RMDIR, MKDIR, MKNOD, LINK, COMMIT,
LOOKUP, READ, READLINK, ACCESS, FSINFO, FSSTAT, NULL. FSINFO's `vfs.fsinfo`
has a default that never fails; an embedder may override it, so its error
branch is a nondeterministic choice (NFS3ERR_IO). ACCESS computes its mask
with `GrantedAccess` (`access.rs:63-124`, with `&` and `|` from `Bitwise`)
from the requested mask, the type in the attributes its `getattr` read and
`capabilities()`; the reply records that type and the mask. The pseudo
procedures BADVERS and UNAVAIL stand for calls `handle_nfs` answers itself
(`ProgMismatch`, `mod.rs:60-68`; `ProcUnavail`, `mod.rs:100-104`).

| Run | Expect | What it shows |
|---|---|---|
| `nfs_wcc` | pass | Two concurrent requests over a root with a file and a symlink: whenever a reply carries both WCC halves, `before` is at or before the request's own mutation and `after` past it (`WccBracketsMutation`); ACCESS grants exactly the spec's table (`SpecGranted`, written over sets of bit positions) for the type and capability it saw, for both requested masks (`AccessGrantsPerSpec`). |
| `nfs_setattr_guard` | violation | A SETATTR whose guard ctime does not match writes NOT_SYNC and then applies the attributes anyway (`setattr.rs:55-64`). |
| `nfs_reply_shape` | violation | SETATTR with a bad handle replies with a status and no `wcc_data` (`setattr.rs:28-32`), which RFC 1813's SETATTR3res does not allow. The same state space holds FSINFO's failed `vfs.fsinfo`, answered without the `post_op_attr` of FSINFO3resfail (`fsinfo.rs:35-38`); with FSINFO as the only procedure TLC reports that one. |

Bounds: ids 1-4 (a directory, a file, a symlink, one free id), handles of
all four (so ACCESS reaches a device MKNOD created as id 4) and a stale
handle, three names, guards {none, 0, 1}, the ACCESS masks 37 (READ,
MODIFY, EXECUTE) and 126 (every bit but READ, with the undefined bit 64),
two requests (`MaxReqs`). Two
requests are the least that interleave; the counter values stay within 0-3.
No fairness is assumed: the properties are safety properties.

### `Readdir` (`MCReaddir`)

State: the directory's current listing (`dir`), the fileids removed while
the client lists it (`gone`) and a count of those changes (`muts`); the build
profile, the client's `dircount` / `maxcount`, the cookie
it sends next, the fileids it has received (`seen`), the last reply's `eof`,
its byte and dircount sizes (`last`), and `hung` when a debug build panicked.
One `Call` is the whole handler: `Fetched` (the VFS readdir with the
`dircount / 16` estimate, from the cookie for READDIRPLUS and from 0 for
READDIR), `Admitted` (the admission loop, `RECURSIVE`, with the XDR sizes of
`entry3` / `entryplus3`), and `Reply` (entries, eof, total bytes, summed by
the `RECURSIVE` `SumOver` and `SumDircount`). Between calls other clients change the
directory: `CreateEntry` inserts a new entry anywhere (a fileid is never
reused), `RemoveEntry` deletes one, the listing order of the rest being
kept, as a VFS's `create` and `remove` do. The entry whose fileid is the
client's cookie is never removed: `vfs.readdir` is then asked to start after
a fileid it no longer has, and the trait leaves that answer unspecified.

| Run | Expect | What it shows |
|---|---|---|
| `readdirplus_paging` | pass | With replies of one, two, three or four entries, the client receives the listing in order, while another client creates or removes an entry, no entry is received twice, the entries received keep the directory's order, and at eof every entry present from the start and never removed has been received (`ListingExactlyOnce`), every reply within maxcount and dircount (`ReplyWithinBudget`), and a client whose call can hold one entry reaches eof (`ListingCompletes`); a debug build given maxcount 100 panics and sends nothing. |
| `readdir_cookie` | violation | READDIR lists from the start whatever the cookie (`readdir.rs:52`), so the second page repeats the first. |
| `readdirplus_small_maxcount` | violation | A release build given maxcount 100 wraps `maxcount - 128` and sends 704 bytes. Given maxcount 130 it sends an empty reply of 132 bytes: the 128 reserved (`readdirplus.rs:107-108`) are for the final flag and eof, but the count they are compared with already includes the 124-byte header, which is never checked. Both are in the state space, and TLC reports one. |

`MaxMutations` is 1 in `readdirplus_paging` (one create or one remove at
any point of the listing; a second one multiplies the liveness check's
cost without reaching a new kind of state) and 0 in the two violation runs,
whose faults need no other client.
`PagingCalls` also has calls that hold no entry: a dircount of 10, whose
estimate `dircount / 16` asks the VFS for no entry (`readdirplus.rs:111`),
and maxcounts of 132 and 300, where the entry with the 9-byte name fits in
no reply (`readdirplus.rs:155`). The handler answers these with NFS3_OK, no
entries and eof false on every call, so the listing never completes. This
is what spec section 4.4 describes; RFC 1813 would answer
NFS3ERR_TOOSMALL. `ListingCompletes` is therefore stated for the calls that
can hold one entry (`PageHoldsAnEntry`, which is the admission loop applied
to one entry in an empty reply). On the other calls the run checks the
safety properties only.
The paging run starts at maxcount 132, because smaller maxcounts from 128
break `ReplyWithinBudget` (see `readdirplus_small_maxcount`).

Bounds: four entries with names of 1, 5, 9 and 3 bytes (all pad cases);
the counts are chosen at the thresholds that give one, two, three and four
entries per reply. `usize` is modelled modulo `UsizeModulus = 2^30`: every
byte count compared with it is below 2^12, so the comparisons are those of
2^64. `MaxReceived = 8` only bounds listings that repeat entries. Fairness:
weak fairness of `Call`, the client that keeps calling.

### `RecordMarking` refines `RecordChannel` (`MCRecordMarking`)

`RecordChannel` is what framing promises the RPC layer: records handed to
the framer are delivered whole, in order, each once; when the writing
peer closes, records it had not finished writing are lost and all the
others are delivered (weak fairness of `Deliver`).

`RecordMarking` is the code: `write_fragment`'s loop, where `WriteHeader`
and `WritePayload` are its two `write_all` awaits, `FragmentSize` the
`min(remaining, MAX_FRAGMENT_SIZE)` and `Header` the flag arithmetic. The
reader's `ReadHeader` / `ReadPayload` are `read_fragment`'s two
`read_exact`s, the mask and the flag test; the last fragment's payload
takes `cur_fragment` and spawns its task (`SocketMessageHandler::read`).
`ReadEof` is a `read_exact` on a closed stream. The refinement mapping
takes the abstract `sent` to the queued records while the stream is open
and to those whose `write_fragment` returned once it is closed.

| Run | Expect | What it shows |
|---|---|---|
| `framing` | pass | `RecordsDelivered` (the abstract `Spec` as a `PROPERTY`): records of 1, 3, 4 and 7 bytes with 3-byte fragments are reassembled exactly, also when the peer closes at any point. |

Bounds: W = 2 replaces the header's 31 length bits (flag 4, mask 3, the u32
wrap at 8), so a record may be shorter than a fragment, fill one exactly,
or take two or three. Two records show ordering. Fairness: weak fairness of
the writer's and the reader's steps (both tasks are polled until they block);
the peer's queuing and closing are not fair.

### `FileHandle` (`MCFileHandle`)

State: the clock, `GENERATION_NUMBER` (`None` until `call_once` ran), the
process incarnation, the embedder's current id → object binding, and the
handles the client holds (with the object and incarnation they were issued
for). Actions: `IdToFh`, `Present` (`fh_to_id`), `Restart` (fresh statics,
any one-to-one binding), `Tick`, and `StepBack` (the wall clock set back).

| Run | Expect | What it shows |
|---|---|---|
| `fh_restart` | pass | Run on the composition `MCMount` (next section). With the clock set back by at most 1 ms and restarts of 2 ms, an accepted handle names the object it was issued for across a restart that may renumber (`ResolvedHandleNamesSameObject`), and the running process's handles keep resolving however the clock moves, because the generation is read once (`CurrentHandlesResolve`). |
| `fh_clock_step_reuse` | violation | With 1 ms restarts: restart, clock set back 1 ms, and the new process takes generation 0 again and accepts the old handle for id 1, which now names the other object (`vfs.rs:57`). |

Bounds of `fh_clock_step_reuse` (`MCFileHandle`): two ids and objects (a
restart can swap them), two restarts, a 4 ms clock that may be set back by
1 ms in all. No fairness: the properties are safety.

### `Mount` over `FileHandle` (`MCMount`)

`Mount` extends `FileHandle` with the MOUNT program. `Mnt(p)` is the whole
of `mountproc3_mnt`: `MntResolve` strips the export name (`IsPrefix`) and
`MntPath` trims what is left of "/" at both ends and of whitespace and puts
one "/" before it; `PathToId` is the default `path_to_id`, which splits on
"/" (`SplitSlash`) and `Walk`s from `root_dir()`, one `Lookup` per
non-empty piece; on success `IdToFh` of `FileHandle` makes the handle, the
signal `true` is sent, and the reply is recorded in `mres`. `Umnt` (UMNT,
which reads the dirpath and ignores it) and `UmntAll` (UMNTALL) both only
send `false`. Dirpaths are sequences of one-character
strings, since the property is about how they are cut. The namespace is a
constant tree of objects; ids are the running process's (`binding`), and a
restarted file system keeps the root at `root_dir()` (`MountRestart`).

| Run | Expect | What it shows |
|---|---|---|
| `fh_restart` | pass | The composition, with FileHandle's two properties and `MountedHandleNamesExportPath`: MNT answers MNT3_OK for exactly the dirpaths that name an object under the export (the spec's reading: strip the export name, look up the non-empty components), and the handle it returns names that object and is accepted by the running process. |

`ExportObject` is the spec's reading of §4.5 written without the code's
trimming. For "/ex" (export "/e") both resolve "x": `strip_prefix` does
not require a "/" after the export name, and the spec's wording describes
the same thing. Whitespace is left out of the alphabet: `trim()` drops it
at the ends of the remainder, which the spec does not mention.

Bounds: export "/e"; a root with "x" (o1) and "xe" (o2), and o2 also as
"e" under o1; twelve dirpaths (the export with and without slashes, "//",
nested, missing, a name under a file, "/ex", paths outside). Three ids with
the root fixed, so a restart can swap o1 and o2. FileHandle's bounds are
smaller here than in `fh_clock_step_reuse` (a 2 ms clock, one restart of
2 ms, the clock set back by at most 1 ms), which keeps the run near one
minute. They still reach a handle of the first process presented to the
second with the clock set back. No fairness: all properties are safety.

### Not modelled

- PORTMAP (`handle_portmap`,
  `pmapproc_getport`): a version check and a reply of `context.local_port`,
  with no state and no await, so there is nothing a model checker adds.
  MOUNT's EXPORT and NULL: constant replies with no state. The
  mount-signal channel's receiver is the embedder's: `Mount` treats
  `send(..).await` as completing, and one client mounts, so two clients'
  true/false signals interleaving is not modelled (spec §9 (a): the signal
  keeps no registry, so there is nothing to check it against).
- The size of a record the reader accepts: the code sets no limit and the
  spec names none, so there is nothing to check; memory use is outside the
  model.
- The XDR codec (pure serialization), the demo file system (an example), and
  CREATE / SYMLINK / RENAME / PATHCONF (their code is not in the repository).
- Composition of the dispatcher with the handlers (`Server`). `RpcDispatch`
  already shows a retransmission executed twice (`rpc_duplicate_exec`);
  composing it with `NfsHandlers` would only restate that as an NFS status
  (a second REMOVE answering NOENT), and the product of the two state spaces
  (each 10^5 to 10^6 states at its bounds) is out of reach of a run of
  minutes.
- An abstract atomic specification of the handlers (`NfsAbstract`) with
  `NfsHandlers` as its refinement: the handlers are not atomic (a request's
  getattr, mutation and post-getattr interleave with others'), so the only
  mapping is one in which every handler step is a stutter or its own atomic
  step, which says nothing beyond `WccBracketsMutation`.
- A READDIRPLUS page asked for with the cookie of a removed entry: the
  `NFSFileSystem` trait does not say what `readdir` answers then, and the
  demo file system is an example (see `Readdir`).
