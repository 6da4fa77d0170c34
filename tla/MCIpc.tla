------------------------------- MODULE MCIpc -------------------------------
(***************************************************************************)
(* Instance of Ipc: two connections, both of which the server has room     *)
(* for.  The client of c1 is in the netdev group, calls and keeps reading; *)
(* the client of c2 only monitors, and may stop reading.                   *)
(***************************************************************************)
EXTENDS Ipc, TLC

CONSTANTS c1, c2

MCPeer == (c1 :> "netdev") @@ (c2 :> "user")
MCMaxCalls == (c1 :> 2) @@ (c2 :> 0)
=============================================================================
