----------------------------- MODULE FileHandle -----------------------------
(***************************************************************************)
(* Opaque NFS file handles (src/src/vfs.rs): id_to_fh packs the process's *)
(* generation number and the fileid; fh_to_id unpacks them and refuses a  *)
(* handle of another generation.  The generation is SystemTime::now() in  *)
(* milliseconds, read once per process on first use (Once::call_once).    *)
(*                                                                         *)
(* The server process may restart; the embedder's file system may then    *)
(* give its objects other fileids (the VFS contract does not promise      *)
(* persistent ids), which is what the generation number guards against.   *)
(* A client keeps the handles it was given and presents them later.       *)
(***************************************************************************)
EXTENDS Naturals, FiniteSets

CONSTANTS
    Ids,          \* fileids
    Objs,         \* the file-system objects the ids name
    MaxTime,      \* bound on the clock, in milliseconds
    MaxRestarts,  \* bound on server restarts
    RestartMs,    \* milliseconds a restart takes at least
    MaxSkew,      \* how far, in ms, the wall clock may be set back in all
    None          \* model value: generation not yet read / no result

ASSUME Cardinality(Ids) = Cardinality(Objs)

VARIABLES
    clock,     \* SystemTime::now(), in ms
    skew,      \* ms the wall clock has been set back so far
    gen,       \* GENERATION_NUMBER, None until call_once ran
    inc,       \* the process incarnation (restarts so far)
    binding,   \* binding[id]: the object the current process's id names
    held,      \* handles the client holds, with the object and incarnation
               \* they were issued for (history)
    last       \* the last fh_to_id: the handle, status and id

vars == <<clock, skew, gen, inc, binding, held, last>>

\* The id assignments an embedder's file system may make: one-to-one.
Bindings == {b \in [Ids -> Objs] : \A i, j \in Ids : i # j => b[i] # b[j]}

\* (Mutant) the generation read from the clock on every call.
GenerationNumberUncached == clock

\* get_generation_number: the clock on the first call of the process.
GenerationNumber == IF gen = None THEN clock ELSE gen

\* (Mutant) gen and id read from each other's half of the handle.
FhToIdSwapped(h) ==
    LET g == h.id IN
    IF g < GenerationNumber THEN [status |-> "STALE", id |-> None]
    ELSE IF g > GenerationNumber THEN [status |-> "BADHANDLE", id |-> None]
    ELSE [status |-> "OK", id |-> h.gen]

\* (Mutant) the generation check dropped: every well-formed handle resolves.
FhToIdNoGen(h) == [status |-> "OK", id |-> h.id]

\* fh_to_id: compare the handle's generation with the process's.
FhToId(h) ==
    IF h.gen < GenerationNumber THEN [status |-> "STALE", id |-> None]
    ELSE IF h.gen > GenerationNumber THEN [status |-> "BADHANDLE", id |-> None]
    ELSE [status |-> "OK", id |-> h.id]

Init ==
    /\ clock \in 0..MaxTime
    /\ skew = 0
    /\ gen = None
    /\ inc = 0
    /\ binding \in Bindings
    /\ held = {}
    /\ last = None

\* The clock advances.
Tick ==
    /\ clock < MaxTime
    /\ clock' = clock + 1
    /\ UNCHANGED <<skew, gen, inc, binding, held, last>>

\* The wall clock is set back.
StepBack ==
    /\ \E d \in 1..(MaxSkew - skew) :
         /\ d <= clock
         /\ clock' = clock - d
         /\ skew' = skew + d
    /\ UNCHANGED <<gen, inc, binding, held, last>>

\* id_to_fh(id): a handler returns a handle for id to the client.
IdToFh(id) ==
    /\ gen' = GenerationNumber
    /\ held' = held \cup {[gen |-> GenerationNumber, id |-> id,
                           obj |-> binding[id], inc |-> inc]}
    /\ UNCHANGED <<clock, skew, inc, binding, last>>

\* fh_to_id(h): the client presents a handle it holds.
Present(h) ==
    /\ gen' = GenerationNumber
    /\ last' = [h |-> h, res |-> FhToId(h)]
    /\ UNCHANGED <<clock, skew, inc, binding, held>>

\* The process restarts: GENERATION_NUMBER and its Once are fresh, and the
\* file system comes up with its own id assignment.
Restart ==
    /\ inc < MaxRestarts
    /\ clock + RestartMs <= MaxTime
    /\ clock' = clock + RestartMs
    /\ gen' = None
    /\ inc' = inc + 1
    /\ binding' \in Bindings
    /\ last' = None
    /\ UNCHANGED <<skew, held>>

Next ==
    \/ Tick
    \/ StepBack
    \/ \E id \in Ids : IdToFh(id)
    \/ \E h \in held : Present(h)
    \/ Restart

Spec == Init /\ [][Next]_vars

-----------------------------------------------------------------------------
(* Properties                                                              *)

TypeOK ==
    /\ clock \in 0..MaxTime
    /\ skew \in 0..MaxSkew
    /\ gen \in {None} \cup 0..MaxTime
    /\ inc \in 0..MaxRestarts
    /\ binding \in Bindings
    /\ held \subseteq [gen : 0..MaxTime, id : Ids, obj : Objs, inc : 0..MaxRestarts]
    /\ last # None => last.res.id \in {None} \cup Ids

\* A handle that fh_to_id accepts names the object it was issued for: a
\* handle from before a restart is never taken for whatever object the new
\* process gives its fileid.  It depends on the clock: it holds when a
\* restart takes longer than the clock is ever set back.
ResolvedHandleNamesSameObject ==
    last # None /\ last.res.status = "OK" => binding[last.res.id] = last.h.obj

\* A handle issued by the running process is accepted for as long as that
\* process runs: the generation it was issued with does not change under it.
CurrentHandlesResolve ==
    last # None /\ last.h.inc = inc => last.res.status = "OK"
=============================================================================
