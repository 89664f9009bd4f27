----------------------------- MODULE MCRpcClient -----------------------------
(***************************************************************************)
(* Instances of RpcClient for TLC: calls of the application and calls of a *)
(* server-request handler, channels of one slot.                           *)
(***************************************************************************)
EXTENDS RpcClient
=============================================================================
