------------------------------- MODULE Readdir -------------------------------
(***************************************************************************)
(* READDIR and READDIRPLUS (src/src/protocol/nfs/v3/readdir.rs,           *)
(* readdirplus.rs): one client lists one directory page by page, sending  *)
(* back the cookie of the last entry it received, until a reply says eof. *)
(* Each call is the whole handler: getattr of the directory, vfs.readdir  *)
(* (or readdir_simple) for an estimated number of entries, and the        *)
(* admission loop that budgets the reply's bytes.  Between two calls other *)
(* clients may create and remove entries of the directory, which the      *)
(* handler tolerates by design: it never answers NFS3ERR_BAD_COOKIE.      *)
(*                                                                         *)
(* Bytes are counted as the XDR encoding counts them: the reply header is *)
(* the RPC accepted-reply header (24), the status (4), the directory's    *)
(* post_op_attr (4 + 84) and the cookie verifier (8).                     *)
(***************************************************************************)
EXTENDS Naturals, Sequences, SequencesExt

CONSTANTS
    Proc,          \* "READDIR" or "READDIRPLUS"
    Dir,           \* the directory listing at the start: a sequence of [fileid, len]
    NewEntries,    \* entries other clients may create: a set of [fileid, len]
    MaxMutations,  \* bound on the creates and removes during one listing
    Calls,         \* the listings to check: [build, dircount, maxcount], where the
                   \* build is "debug" (overflow panics) or "release" (it wraps)
    MaxReceived,   \* bound on the entries one listing may receive
    UsizeModulus   \* 2^64 for usize; see MCReaddir

ASSUME Proc \in {"READDIR", "READDIRPLUS"}
ASSUME Dir \in Seq([fileid : Nat \ {0}, len : Nat])

VARIABLES
    dir,       \* the directory's current listing, in the VFS's order
    gone,      \* the fileids removed during the listing
    muts,      \* creates and removes so far
    build,     \* the build profile the server runs
    dircount,  \* the client's dircount for this listing
    maxcount,  \* the client's maxcount for this listing
    cookie,    \* the cookie the client sends next (0: from the start)
    seen,      \* the fileids the client has received, in order
    eof,       \* the last reply said eof
    hung,      \* the handler task panicked: the call is never answered
    last       \* the last reply: its byte count and dircount bytes

lvars == <<build, dircount, maxcount, cookie, seen, eof, hung, last>>
vars == <<dir, gone, muts, lvars>>

IdsOf(d) == {d[k].fileid : k \in DOMAIN d}
AllIds == IdsOf(Dir) \cup {e.fileid : e \in NewEntries}

Pad4(n) == IF n % 4 = 0 THEN n ELSE n + 4 - (n % 4)

FattrBytes == 84
ReplyHeaderBytes == 24 + 4 + (4 + FattrBytes) + 8

\* The serialized size of one entry with its leading `true` flag: entry3,
\* or entryplus3 with its post_op_attr and a 16-byte post_op_fh3.
EntryBytes(e) ==
    LET entry3 == 4 + 8 + (4 + Pad4(e.len)) + 8 IN
    IF Proc = "READDIRPLUS" THEN entry3 + (4 + FattrBytes) + (4 + 4 + 16)
    ELSE entry3

\* added_dircount: fileid, length-prefixed name (unpadded), cookie.
EntryDircount(e) == 8 + 4 + e.len + 8

\* `count as usize - 128`: a release build wraps modulo 2^64.
MaxBytesAllowed(count) == (count - 128 + UsizeModulus) % UsizeModulus

Overflows(count) == count < 128

\* (Mutant) the cookie taken from the wrong field of the entry.
CookieOfName(e) == e.len

\* The cookie written into the entry: its fileid.
Cookie(e) == e.fileid

\* vfs.readdir(dirid, start_after, max_entries) over a deterministic
\* listing: the entries after the one whose fileid is start_after.
Position(c) == IF c = 0 THEN 0 ELSE CHOOSE k \in 1..Len(dir) : dir[k].fileid = c

VfsReaddir(start, max) ==
    LET p == Position(start)
        n == IF max < Len(dir) - p THEN max ELSE Len(dir) - p
    IN [entries |-> SubSeq(dir, p + 1, p + n), end |-> p + n = Len(dir)]

\* (Mutant) READDIRPLUS, too, listing from the start whatever the cookie.
FetchedFromStart(c, dc) == VfsReaddir(0, dc \div 16)

\* The entries the handler reads from the VFS: READDIRPLUS passes the
\* cookie; READDIR calls readdir_simple, which lists from the start.
Fetched(c, dc) ==
    IF Proc = "READDIRPLUS" THEN VfsReaddir(c, dc \div 16)
    ELSE VfsReaddir(0, dc \div 16)

\* (Mutant) an admission loop that checks only the dircount budget.
RECURSIVE AdmittedDircountOnly(_, _, _, _, _)
AdmittedDircountOnly(es, written, acc, maxBytes, maxDc) ==
    IF es = << >> THEN 0
    ELSE LET e == Head(es) IN
         IF Proc = "READDIR" \/ EntryDircount(e) + acc < maxDc
         THEN 1 + AdmittedDircountOnly(Tail(es), written + EntryBytes(e),
                                       acc + EntryDircount(e), maxBytes, maxDc)
         ELSE 0

\* The admission loop: how many leading entries are written before the
\* first one that would break a budget.
RECURSIVE Admitted(_, _, _, _, _)
Admitted(es, written, acc, maxBytes, maxDc) ==
    IF es = << >> THEN 0
    ELSE LET e == Head(es) IN
         IF /\ EntryBytes(e) + written < maxBytes
            /\ Proc = "READDIR" \/ EntryDircount(e) + acc < maxDc
         THEN 1 + Admitted(Tail(es), written + EntryBytes(e),
                           acc + EntryDircount(e), maxBytes, maxDc)
         ELSE 0

\* The bytes the WriteCounter counts for the entries of s.
RECURSIVE SumOver(_)
SumOver(s) == IF s = << >> THEN 0 ELSE EntryBytes(Head(s)) + SumOver(Tail(s))

\* accumulated_dircount over the entries of s.
RECURSIVE SumDircount(_)
SumDircount(s) == IF s = << >> THEN 0 ELSE EntryDircount(Head(s)) + SumDircount(Tail(s))

\* (Mutant) eof copied from the VFS result even when entries were dropped.
ReplyEofFromVfs(c, dc, mc) ==
    LET r == Fetched(c, dc)
        budget == MaxBytesAllowed(IF Proc = "READDIRPLUS" THEN mc ELSE dc)
        k == Admitted(r.entries, ReplyHeaderBytes, 0, budget, dc)
        sent == SubSeq(r.entries, 1, k)
    IN [entries |-> sent,
        eof |-> r.end,
        bytes |-> ReplyHeaderBytes + SumOver(sent) + 4 + 4,
        dc |-> SumDircount(sent)]

\* The reply to a call with cookie c: its entries, eof flag, total bytes
\* and dircount bytes.
Reply(c, dc, mc) ==
    LET r == Fetched(c, dc)
        budget == MaxBytesAllowed(IF Proc = "READDIRPLUS" THEN mc ELSE dc)
        k == Admitted(r.entries, ReplyHeaderBytes, 0, budget, dc)
        sent == SubSeq(r.entries, 1, k)
    IN [entries |-> sent,
        eof |-> k = Len(r.entries) /\ r.end,
        bytes |-> ReplyHeaderBytes + SumOver(sent) + 4 + 4,
        dc |-> SumDircount(sent)]

Init ==
    /\ dir = Dir
    /\ gone = {}
    /\ muts = 0
    /\ \E c \in Calls :
         /\ build = c.build
         /\ dircount = c.dircount
         /\ maxcount = c.maxcount
    /\ cookie = 0
    /\ seen = << >>
    /\ eof = FALSE
    /\ hung = FALSE
    /\ last = [bytes |-> 0, dc |-> 0]

\* The client's next call and the handler's reply.  In a debug build the
\* underflow of `count - 128` panics the task, which sends nothing.
\* The count the reply is budgeted against.
Count == IF Proc = "READDIRPLUS" THEN maxcount ELSE dircount

Call ==
    LET r == Reply(cookie, dircount, maxcount) IN
    /\ ~eof /\ ~hung
    /\ Len(seen) < MaxReceived
    /\ \/ /\ build = "debug" /\ Overflows(Count)
          /\ hung' = TRUE
          /\ UNCHANGED <<build, dircount, maxcount, cookie, seen, eof, last>>
          /\ UNCHANGED <<dir, gone, muts>>
       \/ /\ build = "release" \/ ~Overflows(Count)
          /\ seen' = seen \o [k \in 1..Len(r.entries) |-> r.entries[k].fileid]
          /\ cookie' = IF r.entries = << >> THEN cookie ELSE Cookie(Last(r.entries))
          /\ eof' = r.eof
          /\ last' = [bytes |-> r.bytes, dc |-> r.dc]
          /\ UNCHANGED <<build, dircount, maxcount, hung, dir, gone, muts>>

\* Another client's REMOVE (vfs.remove) between two calls: the entry leaves
\* the listing and the others keep their order.  The entry the client's
\* cookie names stays: what vfs.readdir returns for a start_after that is
\* no longer in the directory is left to the file system (see the hazards).
RemoveEntry(k) ==
    /\ ~eof /\ ~hung /\ muts < MaxMutations
    /\ dir[k].fileid # cookie
    /\ dir' = RemoveAt(dir, k)
    /\ gone' = gone \cup {dir[k].fileid}
    /\ muts' = muts + 1
    /\ UNCHANGED lvars

\* Another client's CREATE (vfs.create, mkdir, ...): a new fileid, which
\* the VFS's deterministic order may place anywhere in the listing.
CreateEntry(e, k) ==
    /\ ~eof /\ ~hung /\ muts < MaxMutations
    /\ e.fileid \notin IdsOf(dir) \cup gone
    /\ dir' = InsertAt(dir, k, e)
    /\ muts' = muts + 1
    /\ UNCHANGED <<gone, lvars>>

\* The listing is over: eof, or a call that is never answered.
Finished ==
    /\ eof \/ hung
    /\ UNCHANGED vars

Next ==
    \/ Call
    \/ \E k \in DOMAIN dir : RemoveEntry(k)
    \/ \E e \in NewEntries, k \in 1..(Len(dir) + 1) : CreateEntry(e, k)
    \/ Finished

Spec == Init /\ [][Next]_vars /\ WF_vars(Call)

-----------------------------------------------------------------------------
(* Properties                                                              *)

TypeOK ==
    /\ IdsOf(dir) \subseteq AllIds /\ IsInjective(dir)
    /\ gone \subseteq AllIds
    /\ muts \in 0..MaxMutations
    /\ [build |-> build, dircount |-> dircount, maxcount |-> maxcount] \in Calls
    /\ cookie \in {0} \cup AllIds
    /\ seen \in Seq(AllIds)
    /\ eof \in BOOLEAN
    /\ hung \in BOOLEAN
    /\ last \in [bytes : Nat, dc : Nat]

\* A client paging with the cookies the server returns receives no entry
\* twice, receives the entries still listed in the directory's order, and
\* when a reply says eof it has received every entry that was
\* in the directory throughout the listing, however other clients created
\* and removed entries between its calls (spec section 9: the handler
\* tolerates directories that mutate during listing).  Across calls, the
\* cookie written into each entry, the VFS's start_after, the admission
\* loop's truncation and the eof flag must agree.
ListingExactlyOnce ==
    /\ IsInjective(seen)
    /\ \A i, j \in DOMAIN seen :
           (i < j /\ {seen[i], seen[j]} \subseteq IdsOf(dir))
               => Position(seen[i]) < Position(seen[j])
    /\ eof => IdsOf(Dir) \ gone \subseteq ToSet(seen)

\* Byte accounting (spec section 8): a reply is no longer than the count the
\* client allowed (maxcount for READDIRPLUS, dircount for READDIR), and the
\* READDIRPLUS entries' dircount bytes stay within dircount.
ReplyWithinBudget ==
    /\ last.bytes <= Count
    /\ Proc = "READDIRPLUS" => last.dc <= dircount

\* The call can hold any one entry the directory may list: the estimate
\* dircount / 16 asks the VFS for at least one entry, and the admission
\* loop admits that entry into an empty reply.
PageHoldsAnEntry ==
    /\ dircount \div 16 >= 1
    /\ \A e \in ToSet(Dir) \cup NewEntries :
           Admitted(<<e>>, ReplyHeaderBytes, 0, MaxBytesAllowed(Count), dircount) = 1

\* A client that keeps calling with the returned cookie reaches eof whenever
\* its count is at least 128 and its call can hold one entry, however other
\* clients change the directory between calls: every reply then advances
\* the cookie past at least one entry or says eof.  A call that holds no
\* entry (dircount below 16, or maxcount from 128 to about 400 here) gets
\* NFS3_OK with no entries and eof false every time and never completes
\* (readdirplus.rs:111, 155); the paging run includes such calls.
ListingCompletes == (~Overflows(Count) /\ PageHoldsAnEntry) => <>eof

=============================================================================
