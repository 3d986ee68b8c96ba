---------------------------- MODULE RecordChannel ----------------------------
(***************************************************************************)
(* What record marking promises the RPC layer (spec section 3.1): the      *)
(* records a peer hands to the framer reach the reader whole, in order,    *)
(* each once.  When the peer closes the stream, the records it had not     *)
(* finished writing are lost; every record it finished is delivered.       *)
(***************************************************************************)
EXTENDS Naturals, Sequences, SequencesExt

CONSTANTS Records   \* the records a peer may send

VARIABLES
    sent,       \* records handed to the framer, in order
    delivered,  \* records the reader has reassembled, in order
    open        \* the sending side has not closed the stream

vars == <<sent, delivered, open>>

Init == sent = << >> /\ delivered = << >> /\ open = TRUE

Send(r) == open /\ sent' = Append(sent, r) /\ UNCHANGED <<delivered, open>>

Deliver ==
    /\ Len(delivered) < Len(sent)
    /\ delivered' = Append(delivered, sent[Len(delivered) + 1])
    /\ UNCHANGED <<sent, open>>

\* The peer closes: records not yet fully written are dropped.
Close ==
    /\ open
    /\ open' = FALSE
    /\ \E k \in Len(delivered)..Len(sent) : sent' = SubSeq(sent, 1, k)
    /\ UNCHANGED delivered

Next == (\E r \in Records : Send(r)) \/ Deliver \/ Close

Spec == Init /\ [][Next]_vars /\ WF_vars(Deliver)
=============================================================================
