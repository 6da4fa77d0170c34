---------------------------- MODULE MCSettings ----------------------------
(***************************************************************************)
(* Instance of Settings: two networks, the id of one continuing the other  *)
(* by a dot, two passphrases, one manual proxy and two PAC URLs; three     *)
(* requests and a crash.  With it TLC evaluates the assumptions of         *)
(* PacAlgorithms, which have no state.                                     *)
(***************************************************************************)
EXTENDS Settings, PacAlgorithms

MCDotted == {<<"home", "home.5g">>}
=============================================================================
