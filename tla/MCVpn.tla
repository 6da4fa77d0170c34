------------------------------- MODULE MCVpn -------------------------------
(***************************************************************************)
(* Instance of Vpn: an OpenVPN profile with stored credentials, one tun    *)
(* device, one WireGuard interface, two attempts to start openvpn.         *)
(***************************************************************************)
EXTENDS Vpn, TLC

MCFallback == "office" :> "openvpn-office"
=============================================================================
