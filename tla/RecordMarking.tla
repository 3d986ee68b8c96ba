---------------------------- MODULE RecordMarking ----------------------------
(***************************************************************************)
(* RFC 1057 record marking as src/src/protocol/rpc/wire.rs implements it: *)
(* write_fragment splitting a record into fragments, each a header write  *)
(* and a payload write (two awaits), and the connection reader            *)
(* (SocketMessageHandler::read with read_fragment) reading a header, then *)
(* read_exact of its payload into cur_fragment, and on the last fragment  *)
(* taking the record and spawning its task.  One stream, one writer, one  *)
(* reader; the writing peer may close the stream at any point.            *)
(*                                                                         *)
(* The header is a u32 whose bit 31 is the last-fragment flag and whose   *)
(* low 31 bits are the length.  W generalises the 31: the flag is 2^W,    *)
(* the length mask 2^W - 1, the u32 wraps at 2^(W+1).  A header's four    *)
(* big-endian bytes are one stream item holding its u32 value.            *)
(***************************************************************************)
EXTENDS Naturals, Sequences, SequencesExt

CONSTANTS
    W,           \* header length bits (31 in the code)
    Lens,        \* lengths of the records the peer may send
    MaxRecords   \* bound on the records the peer sends

ASSUME W \in Nat \ {0} /\ Lens \subseteq Nat \ {0} /\ MaxRecords \in Nat

VARIABLES
    out,        \* records queued for the writer (the reply channel)
    handed,     \* history: every record queued, in order
    buf,        \* write_fragment's buffer
    offset,     \* write_fragment's offset into buf
    wpc,        \* "idle", "header" or "payload": the writer's next await
    written,    \* history: records whose write_fragment returned
    open,       \* the writing side has not closed the stream
    stream,     \* items written and not yet read
    cur,        \* cur_fragment: the record being reassembled
    rpc,        \* "header", "payload" or "failed": the reader's next read
    rlen,       \* length from the header just read
    rlast,      \* last-fragment flag from the header just read
    delivered   \* history: records taken from cur_fragment and spawned

vars == <<out, handed, buf, offset, wpc, written, open, stream, cur, rpc,
          rlen, rlast, delivered>>

\* Record i of length n: its bytes are distinct, so a misframed record is
\* told apart from the one sent.
Rec(i, n) == [k \in 1..n |-> <<i, k>>]
AllRecords == {Rec(i, n) : i \in 1..MaxRecords, n \in Lens}
ByteItem(b) == [kind |-> "byte", val |-> b]
HdrItem(h) == [kind |-> "hdr", val |-> h]

\* (Mutant) MAX_FRAGMENT_SIZE written as 1 << 31.
MaxFragmentWide == 2^W

\* MAX_FRAGMENT_SIZE: (1 << 31) - 1.
MaxFragment == 2^W - 1

\* The header: fragment_size as u32, plus 1 << 31 on the last fragment.
Header(size, last) == (IF last THEN size + 2^W ELSE size) % 2^(W + 1)

\* (Mutant) the length masked with the flag bit included.
FragmentLengthUnmasked(h) == h % 2^(W + 1)

\* fragment_header & ((1 << 31) - 1)
FragmentLength(h) == h % 2^W

\* (fragment_header & (1 << 31)) > 0
IsLast(h) == (h \div 2^W) % 2 = 1

FragmentSize == IF Len(buf) - offset < MaxFragment THEN Len(buf) - offset
                ELSE MaxFragment

Init ==
    /\ out = << >> /\ handed = << >>
    /\ buf = << >> /\ offset = 0 /\ wpc = "idle" /\ written = 0
    /\ open = TRUE /\ stream = << >>
    /\ cur = << >> /\ rpc = "header" /\ rlen = 0 /\ rlast = FALSE
    /\ delivered = << >>

\* A record is queued on the reply channel for the writer.
Hand(n) ==
    /\ open /\ Len(handed) < MaxRecords
    /\ out' = Append(out, Rec(Len(handed) + 1, n))
    /\ handed' = Append(handed, Rec(Len(handed) + 1, n))
    /\ UNCHANGED <<buf, offset, wpc, written, open, stream, cur, rpc, rlen,
                   rlast, delivered>>

\* The writer takes the next record and enters write_fragment's loop;
\* `while offset < buf.len()` does not run for an empty buffer.
Start ==
    /\ open /\ wpc = "idle" /\ out # << >>
    /\ buf' = Head(out) /\ out' = Tail(out) /\ offset' = 0
    /\ IF Head(out) = << >> THEN wpc' = "idle" /\ written' = written + 1
                            ELSE wpc' = "header" /\ UNCHANGED written
    /\ UNCHANGED <<handed, open, stream, cur, rpc, rlen, rlast, delivered>>

\* socket.write_all(&header_buf)
WriteHeader ==
    /\ open /\ wpc = "header"
    /\ stream' = Append(stream,
                   HdrItem(Header(FragmentSize, offset + FragmentSize >= Len(buf))))
    /\ wpc' = "payload"
    /\ UNCHANGED <<out, handed, buf, offset, written, open, cur, rpc, rlen,
                   rlast, delivered>>

\* socket.write_all(&buf[offset..offset + fragment_size]); offset += size
WritePayload ==
    /\ open /\ wpc = "payload"
    /\ stream' = stream \o [k \in 1..FragmentSize |-> ByteItem(buf[offset + k])]
    /\ offset' = offset + FragmentSize
    /\ IF offset + FragmentSize < Len(buf)
         THEN wpc' = "header" /\ UNCHANGED written
         ELSE wpc' = "idle" /\ written' = written + 1
    /\ UNCHANGED <<out, handed, buf, open, cur, rpc, rlen, rlast, delivered>>

\* The writing peer closes the stream (or its connection fails).
Close ==
    /\ open /\ open' = FALSE
    /\ UNCHANGED <<out, handed, buf, offset, wpc, written, stream, cur, rpc,
                   rlen, rlast, delivered>>

\* read_fragment: socket.read_exact(&mut header_buf)
ReadHeader ==
    /\ rpc = "header" /\ stream # << >>
    /\ IF Head(stream).kind = "hdr"
         THEN /\ rlen' = FragmentLength(Head(stream).val)
              /\ rlast' = IsLast(Head(stream).val)
              /\ rpc' = "payload"
         ELSE rpc' = "failed" /\ UNCHANGED <<rlen, rlast>>
    /\ stream' = Tail(stream)
    /\ UNCHANGED <<out, handed, buf, offset, wpc, written, open, cur, delivered>>

\* read_exact of the payload into cur_fragment; on the last fragment
\* SocketMessageHandler::read takes cur_fragment and spawns its task.
\* Bytes of a header read as payload leave the framing out of step; the
\* model stops the reader there.
ReadPayload ==
    /\ rpc = "payload" /\ Len(stream) >= rlen
    /\ LET got == SubSeq(stream, 1, rlen)
           rec == cur \o [k \in 1..rlen |-> got[k].val]
       IN \/ /\ \E k \in 1..rlen : got[k].kind = "hdr"
             /\ rpc' = "failed" /\ UNCHANGED <<cur, delivered>>
          \/ /\ \A k \in 1..rlen : got[k].kind = "byte"
             /\ rpc' = "header"
             /\ IF rlast THEN delivered' = Append(delivered, rec) /\ cur' = << >>
                         ELSE cur' = rec /\ UNCHANGED delivered
    /\ stream' = SubSeq(stream, rlen + 1, Len(stream))
    /\ UNCHANGED <<out, handed, buf, offset, wpc, written, open, rlen, rlast>>

\* read_exact fails on a closed stream with too few bytes: the read loop
\* ends with the error and the partial record in cur_fragment is dropped.
ReadEof ==
    /\ ~open
    /\ \/ rpc = "header" /\ stream = << >>
       \/ rpc = "payload" /\ Len(stream) < rlen
    /\ rpc' = "failed" /\ cur' = << >>
    /\ UNCHANGED <<out, handed, buf, offset, wpc, written, open, stream, rlen,
                   rlast, delivered>>

\* Nothing left to do: the peer has sent its records and the reader waits
\* on an empty stream, or the connection has ended.
Quiescent ==
    /\ \/ ~open /\ rpc = "failed"
       \/ /\ out = << >> /\ wpc = "idle" /\ Len(handed) = MaxRecords
          /\ rpc = "header" /\ stream = << >>
    /\ UNCHANGED vars

Next ==
    \/ \E n \in Lens : Hand(n)
    \/ Start
    \/ WriteHeader
    \/ WritePayload
    \/ Close
    \/ ReadHeader
    \/ ReadPayload
    \/ ReadEof
    \/ Quiescent

\* The writer task and the read loop are polled by tokio until they block;
\* the peer queuing and closing is not obliged to happen.
Fairness ==
    /\ WF_vars(Start) /\ WF_vars(WriteHeader) /\ WF_vars(WritePayload)
    /\ WF_vars(ReadHeader) /\ WF_vars(ReadPayload) /\ WF_vars(ReadEof)

Spec == Init /\ [][Next]_vars /\ Fairness

-----------------------------------------------------------------------------
(* Properties                                                              *)

Item == [kind : {"hdr"}, val : 0..(2^(W + 1) - 1)]
          \cup [kind : {"byte"}, val : (1..MaxRecords) \X Nat]

TypeOK ==
    /\ wpc \in {"idle", "header", "payload"}
    /\ rpc \in {"header", "payload", "failed"}
    /\ offset \in 0..Len(buf)
    /\ rlen \in 0..MaxFragment
    /\ rlast \in BOOLEAN
    /\ written \in 0..Len(handed)
    /\ \A k \in 1..Len(stream) : stream[k] \in Item

\* The framing keeps the RPC layer's promise (RecordChannel): while the
\* stream is open every queued record counts as sent; once it is closed,
\* only those whose write_fragment returned.  Delivered records are the
\* sent ones whole, in order, each once, and every sent record is
\* eventually delivered.
Channel == INSTANCE RecordChannel WITH
    Records <- AllRecords,
    sent <- IF open THEN handed ELSE SubSeq(handed, 1, written),
    delivered <- delivered,
    open <- open

RecordsDelivered == Channel!Spec
=============================================================================
