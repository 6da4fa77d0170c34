------------------------------ MODULE MCSharing ------------------------------
(***************************************************************************)
(* Instance of Sharing: a wireless and a USB interface that may both share *)
(* one uplink; rules of two zones and both directions, two with one id.    *)
(***************************************************************************)
EXTENDS Sharing, TLC

CONSTANTS eth, wlan, usb, r1, r2

Rule(id, zone, direction, action) ==
  [id |-> id, zone |-> zone, direction |-> direction, action |-> action]

MCRules ==
  {Rule(r1, "home", "Inbound", "Accept"), Rule(r1, "trusted", "Inbound", "Drop"),
   Rule(r2, "home", "Outbound", "Accept")}
=============================================================================
