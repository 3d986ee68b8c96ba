---------------------------- MODULE RpcDispatch ----------------------------
(***************************************************************************)
(* The RPC layer of nfsserve: the connection reader that spawns one task   *)
(* per record (SocketMessageHandler::read), the task running handle_rpc    *)
(* with its retransmission check, handler and mark_processed as separate   *)
(* steps, the transaction tracker shared by all connections, and the       *)
(* per-connection writer that sends replies in completion order.           *)
(*                                                                         *)
(* A record is abstracted to its xid and the kind of message it decodes    *)
(* to: a CALL with rpcvers 2, a CALL with another rpcvers, or a REPLY      *)
(* body.  The handler's effect is one step (Execute); its suspension       *)
(* points are what lets other tasks run between the check and the mark.    *)
(***************************************************************************)
EXTENDS Naturals, Sequences, SequencesExt

CONSTANTS
    Clients,        \* client addresses (context.client_addr)
    Xids,           \* transaction ids a client uses
    MsgKinds,       \* subset of {"CALL", "BADVERS", "REPLY"} clients send
    Window,         \* retention window of the tracker, in clock ticks
    MaxTime,        \* bound on the clock
    MaxSends,       \* bound on records sent by all clients together
    MaxDisconnects, \* bound on connection drops by the transport
    NotSeen         \* model value: no tracker entry / no execution yet

ASSUME MsgKinds \subseteq {"CALL", "BADVERS", "REPLY"}
ASSUME Window \in Nat \ {0} /\ MaxTime \in Nat /\ MaxSends \in Nat

VARIABLES
    up,          \* up[c]: the client's connection is open
    epoch,       \* epoch[c]: number of the client's current connection
    drops,       \* connection drops so far (bounded by MaxDisconnects)
    inbox,       \* inbox[c]: records sent on the open connection, not yet read
    tasks,       \* the spawned handle_rpc tasks, in spawn order
    tracker,     \* tracker[<<c, x>>]: time of the last mark_processed
    outq,        \* outq[c]: the reply channel of the open connection
    now,         \* the clock read by the tracker
    sends,       \* records sent so far by all clients
    sent,        \* sent[c][x]: the kind of record the client sent as x
    answered,    \* answered[c]: xids the client has received a reply for
    execs,       \* history: execs[<<c, x>>] handler executions of the call
    lastExec     \* history: time of the last execution of the call

vars == <<up, epoch, drops, inbox, tasks, tracker, outq, now, sends, sent,
          answered, execs, lastExec>>

Keys == Clients \X Xids
Msg == [xid : Xids, kind : MsgKinds]
Pcs == {"decode", "exec", "finish", "done", "dropped"}
Task == [c : Clients, xid : Xids, kind : MsgKinds, e : Nat, pc : Pcs]
Err == "ERR"   \* the Err(e) item the spawned task sends on the channel

-----------------------------------------------------------------------------
(* The transaction tracker (transaction_tracker.rs, spec section 4.6).     *)

\* Mutant: the tracker keyed by the xid alone.
IsRetransmissionByXid(c, x) ==
    \E d \in Clients : /\ tracker[<<d, x>>] # NotSeen
                       /\ now - tracker[<<d, x>>] < Window

\* is_retransmission: the key exists and is younger than the window.
IsRetransmission(c, x) ==
    /\ tracker[<<c, x>>] # NotSeen
    /\ now - tracker[<<c, x>>] < Window

\* mark_processed: upsert the key with the current time.
\* (Mutant) mark_processed recording when the entry expires instead of when
\* the call was processed.
MarkProcessedAsExpiry(c, x) == tracker' = [tracker EXCEPT ![<<c, x>>] = now + Window]

MarkProcessed(c, x) == tracker' = [tracker EXCEPT ![<<c, x>>] = now]

-----------------------------------------------------------------------------
(* The reply channel.  send.send(..) on a channel whose receiver went away *)
(* with its connection fails, and its result is ignored: the item is lost. *)

Send(t, item) ==
    outq' = IF up[t.c] /\ epoch[t.c] = t.e
            THEN [outq EXCEPT ![t.c] = Append(@, item)]
            ELSE outq

SetPc(i, pc) == tasks' = [tasks EXCEPT ![i].pc = pc]

-----------------------------------------------------------------------------
Init ==
    /\ up = [c \in Clients |-> TRUE]
    /\ epoch = [c \in Clients |-> 0]
    /\ drops = 0
    /\ inbox = [c \in Clients |-> <<>>]
    /\ tasks = <<>>
    /\ tracker = [k \in Keys |-> NotSeen]
    /\ outq = [c \in Clients |-> <<>>]
    /\ now = 0
    /\ sends = 0
    /\ sent = [c \in Clients |-> [x \in Xids |-> NotSeen]]
    /\ answered = [c \in Clients |-> {}]
    /\ execs = [k \in Keys |-> 0]
    /\ lastExec = [k \in Keys |-> NotSeen]

(* The client (an NFS client over TCP): a new call, or a retransmission of *)
(* a call it has no reply for yet.                                         *)
ClientCall(c, x, k) ==
    /\ up[c] /\ sent[c][x] = NotSeen /\ sends < MaxSends
    /\ inbox' = [inbox EXCEPT ![c] = Append(@, [xid |-> x, kind |-> k])]
    /\ sent' = [sent EXCEPT ![c][x] = k]
    /\ sends' = sends + 1
    /\ UNCHANGED <<up, epoch, drops, tasks, tracker, outq, now, answered,
                   execs, lastExec>>

ClientRetransmit(c, x) ==
    /\ up[c] /\ sent[c][x] # NotSeen /\ x \notin answered[c]
    /\ sends < MaxSends
    /\ inbox' = [inbox EXCEPT ![c] = Append(@, [xid |-> x, kind |-> sent[c][x]])]
    /\ sends' = sends + 1
    /\ UNCHANGED <<up, epoch, drops, tasks, tracker, outq, now, sent,
                   answered, execs, lastExec>>

(* SocketMessageHandler::read: a complete record is taken and a task is    *)
(* spawned for it with a clone of the connection's context and sender.     *)
Read(c) ==
    /\ up[c] /\ inbox[c] # <<>>
    /\ LET m == Head(inbox[c]) IN
       tasks' = Append(tasks, [c |-> c, xid |-> m.xid, kind |-> m.kind,
                               e |-> epoch[c], pc |-> "decode"])
    /\ inbox' = [inbox EXCEPT ![c] = Tail(@)]
    /\ UNCHANGED <<up, epoch, drops, tracker, outq, now, sends, sent,
                   answered, execs, lastExec>>

(* handle_rpc, up to the dispatch.                                         *)
\* The body is a REPLY: Err("Bad RPC Call format") goes to the channel.
DecodeReply(i) ==
    LET t == tasks[i] IN
    /\ t.pc = "decode" /\ t.kind = "REPLY"
    /\ Send(t, Err)
    /\ SetPc(i, "done")
    /\ UNCHANGED <<up, epoch, drops, inbox, tracker, now, sends, sent,
                   answered, execs, lastExec>>

\* rpcvers != 2: an RPC_MISMATCH reply, before and without the tracker.
DecodeBadVersion(i) ==
    LET t == tasks[i] IN
    /\ t.pc = "decode" /\ t.kind = "BADVERS"
    /\ Send(t, t.xid)
    /\ SetPc(i, "done")
    /\ UNCHANGED <<up, epoch, drops, inbox, tracker, now, sends, sent,
                   answered, execs, lastExec>>

\* A retransmission: Ok(false), the task ends without a reply.
DecodeRetransmission(i) ==
    LET t == tasks[i] IN
    /\ t.pc = "decode" /\ t.kind = "CALL"
    /\ IsRetransmission(t.c, t.xid)
    /\ SetPc(i, "dropped")
    /\ UNCHANGED <<up, epoch, drops, inbox, tracker, outq, now, sends, sent,
                   answered, execs, lastExec>>

\* A new call: it goes on to the program's handler.
DecodeCall(i) ==
    LET t == tasks[i] IN
    /\ t.pc = "decode" /\ t.kind = "CALL"
    /\ ~IsRetransmission(t.c, t.xid)
    /\ SetPc(i, "exec")
    /\ UNCHANGED <<up, epoch, drops, inbox, tracker, outq, now, sends, sent,
                   answered, execs, lastExec>>

\* The handler (handle_nfs / handle_mount / handle_portmap) takes effect.
Execute(i) ==
    LET t == tasks[i] IN
    /\ t.pc = "exec"
    /\ execs' = [execs EXCEPT ![<<t.c, t.xid>>] = @ + 1]
    /\ lastExec' = [lastExec EXCEPT ![<<t.c, t.xid>>] = now]
    /\ SetPc(i, "finish")
    /\ UNCHANGED <<up, epoch, drops, inbox, tracker, outq, now, sends, sent,
                   answered>>

\* mark_processed, then Ok(true): the reply is sent on the channel.
Finish(i) ==
    LET t == tasks[i] IN
    /\ t.pc = "finish"
    /\ MarkProcessed(t.c, t.xid)
    /\ Send(t, t.xid)
    /\ SetPc(i, "done")
    /\ UNCHANGED <<up, epoch, drops, inbox, now, sends, sent, answered,
                   execs, lastExec>>

(* The writer (tcp.rs): replies leave in channel order; an Err item closes *)
(* the connection.                                                         *)
Write(c) ==
    /\ up[c] /\ outq[c] # <<>>
    /\ IF Head(outq[c]) = Err
       THEN /\ up' = [up EXCEPT ![c] = FALSE]
            /\ inbox' = [inbox EXCEPT ![c] = <<>>]
            /\ outq' = [outq EXCEPT ![c] = <<>>]
            /\ UNCHANGED answered
       ELSE /\ answered' = [answered EXCEPT ![c] = @ \cup {Head(outq[c])}]
            /\ outq' = [outq EXCEPT ![c] = Tail(@)]
            /\ UNCHANGED <<up, inbox>>
    /\ UNCHANGED <<epoch, drops, tasks, tracker, now, sends, sent, execs,
                   lastExec>>

(* The transport drops the connection; bytes in flight both ways are lost. *)
Disconnect(c) ==
    /\ up[c] /\ drops < MaxDisconnects
    /\ up' = [up EXCEPT ![c] = FALSE]
    /\ inbox' = [inbox EXCEPT ![c] = <<>>]
    /\ outq' = [outq EXCEPT ![c] = <<>>]
    /\ drops' = drops + 1
    /\ UNCHANGED <<epoch, tasks, tracker, now, sends, sent, answered, execs,
                   lastExec>>

\* The client connects again from the same address (a new connection).
Reconnect(c) ==
    /\ ~up[c]
    /\ up' = [up EXCEPT ![c] = TRUE]
    /\ epoch' = [epoch EXCEPT ![c] = @ + 1]
    /\ UNCHANGED <<drops, inbox, tasks, tracker, outq, now, sends, sent,
                   answered, execs, lastExec>>

Tick ==
    /\ now < MaxTime
    /\ now' = now + 1
    /\ UNCHANGED <<up, epoch, drops, inbox, tasks, tracker, outq, sends, sent,
                   answered, execs, lastExec>>

\* Every task has ended and nothing is in flight: the server idles.
Quiescent ==
    /\ \A i \in DOMAIN tasks : tasks[i].pc \in {"done", "dropped"}
    /\ \A c \in Clients : inbox[c] = <<>> /\ outq[c] = <<>>
    /\ UNCHANGED vars

TaskStep(i) ==
    \/ DecodeReply(i) \/ DecodeBadVersion(i) \/ DecodeRetransmission(i)
    \/ DecodeCall(i) \/ Execute(i) \/ Finish(i)

Next ==
    \/ \E c \in Clients, x \in Xids, k \in MsgKinds : ClientCall(c, x, k)
    \/ \E c \in Clients, x \in Xids : ClientRetransmit(c, x)
    \/ \E c \in Clients : Read(c) \/ Write(c) \/ Disconnect(c) \/ Reconnect(c)
    \/ \E i \in DOMAIN tasks : TaskStep(i)
    \/ Tick
    \/ Quiescent

(* tokio polls every spawned task and the reader and writer of an open     *)
(* connection; the client, the transport and the clock owe nothing.        *)
Fairness ==
    /\ \A c \in Clients : WF_vars(Read(c)) /\ WF_vars(Write(c))
    /\ \A i \in 1..MaxSends : WF_vars(i \in DOMAIN tasks /\ TaskStep(i))

Spec == Init /\ [][Next]_vars /\ Fairness

-----------------------------------------------------------------------------
TypeOK ==
    /\ up \in [Clients -> BOOLEAN]
    /\ epoch \in [Clients -> Nat]
    /\ inbox \in [Clients -> Seq(Msg)]
    /\ tasks \in Seq(Task)
    /\ tracker \in [Keys -> (0..MaxTime) \cup {NotSeen}]
    /\ outq \in [Clients -> Seq(Xids \cup {Err})]
    /\ now \in 0..MaxTime
    /\ sent \in [Clients -> [Xids -> MsgKinds \cup {NotSeen}]]
    /\ answered \in [Clients -> SUBSET Xids]
    /\ execs \in [Keys -> Nat]

SameCall(t, u) == t.c = u.c /\ t.xid = u.xid /\ u.kind = "CALL"

(* A retransmission is dropped (handle_rpc returns Ok(false)) only when a  *)
(* call with the same xid from the same client address has already run    *)
(* its handler to completion and been marked processed.                    *)
DropOnlyAfterCompletion ==
    \A i \in DOMAIN tasks :
        tasks[i].pc = "dropped" =>
            \E j \in DOMAIN tasks : SameCall(tasks[i], tasks[j])
                                    /\ tasks[j].pc = "done"

(* Every CALL the reader spawned a task for is eventually executed by its  *)
(* handler, in that task or an earlier one: retransmission suppression     *)
(* never loses a call.                                                     *)
CallEventuallyExecuted ==
    \A c \in Clients, x \in Xids :
        (\E i \in DOMAIN tasks : tasks[i].c = c /\ tasks[i].xid = x
                                 /\ tasks[i].kind = "CALL")
            ~> execs[<<c, x>>] > 0

(* Spec section 8: a second call with the same (xid, client address)       *)
(* within the retention window produces no reply; so the handler of a call *)
(* runs again only once the window since its last run has passed.          *)
ExecutedOnceWithinWindow ==
    [][\A k \in Keys :
          execs'[k] > execs[k] =>
              lastExec[k] = NotSeen \/ now - lastExec[k] >= Window]_vars

(* Spec section 4.3: a retransmission is dropped silently because "the     *)
(* client will retry and the in-flight original will eventually respond":  *)
(* when handle_rpc drops one received on the open connection, the client   *)
(* has its reply, or the reply is in that connection's channel, or a task  *)
(* of that connection is still working on the call.                        *)
ReplyOnItsWay(i, c, x) ==
    \/ x \in answered[c]
    \/ x \in ToSet(outq[c])
    \/ \E j \in DOMAIN tasks \ {i} :
           /\ tasks[j].c = c /\ tasks[j].xid = x
           /\ tasks[j].pc \in {"decode", "exec", "finish"}
           /\ tasks[j].e = epoch[c] /\ up[c]

DropOnlyWhenAnswered ==
    [][\A i \in DOMAIN tasks :
          (/\ tasks[i].pc = "decode" /\ tasks'[i].pc = "dropped"
           /\ tasks[i].e = epoch[tasks[i].c] /\ up[tasks[i].c])
              => ReplyOnItsWay(i, tasks[i].c, tasks[i].xid)]_vars
=============================================================================
