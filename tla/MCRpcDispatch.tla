--------------------------- MODULE MCRpcDispatch ---------------------------
(* Model-checking instance of RpcDispatch: client addresses and xids as    *)
(* model values.  One xid shared by two addresses is what tells a tracker  *)
(* keyed by (xid, address) from one keyed by the xid alone.                *)
EXTENDS RpcDispatch

CONSTANTS c1, c2, x1

MCClients == {c1, c2}
MCOneClient == {c1}
MCXids == {x1}
=============================================================================
