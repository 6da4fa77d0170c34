---------------------------- MODULE MCDhcpClient ----------------------------
(***************************************************************************)
(* Instance of DhcpClient: two servers with an address each, so that a      *)
(* later exchange may end in another lease.                                *)
(***************************************************************************)
EXTENDS DhcpClient, TLC

CONSTANTS s1, s2, a1, b1

MCPool == (s1 :> {a1}) @@ (s2 :> {b1})
=============================================================================
