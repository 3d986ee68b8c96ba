------------------------------ MODULE MCReaddir ------------------------------
(* A directory of four entries with names of 1, 5, 9 and 3 bytes.  Under   *)
(* READDIRPLUS a maxcount of 420 admits one entry per reply, 600 two, 800  *)
(* three and 1000 all; a dircount of 30 admits one, 50 and 70 two and     *)
(* 1024 all.  Every byte count compared with the usize budget stays below *)
(* 2^12, so a modulus of 2^30 gives the comparisons 2^64 gives (TLC's     *)
(* integers stop at 2^31).                                                 *)
EXTENDS Readdir

MCDir == << [fileid |-> 11, len |-> 1], [fileid |-> 12, len |-> 5],
            [fileid |-> 13, len |-> 9], [fileid |-> 14, len |-> 3] >>
\* A file of fileid 15 with a 2-byte name that other clients may create.
MCNewEntries == {[fileid |-> 15, len |-> 2]}
MCUsizeModulus == 2^30
MCMaxReceived == 2 * Len(MCDir)

CallsOf(builds, dcs, mcs) ==
    [build : builds, dircount : dcs, maxcount : mcs]

\* READDIRPLUS with page sizes of one, two, three and all entries in both
\* builds, a debug build given a maxcount below 128, and calls that hold no
\* entry: dircount 10 (an estimate of 0 entries) and maxcount 132 and 300
\* (no entryplus3 of 136 bytes or more fits after the 124-byte header).
PagingCalls ==
    CallsOf({"debug", "release"}, {30, 50, 70, 1024}, {420, 600, 800, 1000})
      \cup CallsOf({"debug"}, {1024}, {100})
      \cup CallsOf({"release"}, {10}, {1000})
      \cup CallsOf({"release"}, {1024}, {132, 300})

\* A release build given a maxcount below 128, and one from 128 to 131,
\* below the 132 bytes of a reply with no entries.
SmallMaxcountCalls == CallsOf({"release"}, {1024}, {100, 130})

\* READDIR with a dircount that admits one entry per reply.
ReaddirCalls == CallsOf({"release"}, {300}, {0})
=============================================================================
