---------------------------- MODULE MCDhcpServer ----------------------------
(***************************************************************************)
(* Instances of DhcpServer for TLC.                                        *)
(***************************************************************************)
EXTENDS DhcpServer, TLC

CONSTANTS m1, m2, m3

Clients == {m1, m2, m3}

Symmetric == Permutations(Clients)
=============================================================================
