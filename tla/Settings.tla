----------------------------- MODULE Settings -----------------------------
(***************************************************************************)
(* What the manager keeps on disk, in one daemon: Wi-Fi profiles and their *)
(* secrets (Wifi.tla) and the proxy configuration (Proxy.tla).  One        *)
(* manager thread serves the requests about them; a crash hits both at     *)
(* once, and NetworkManager::new brings both back.                         *)
(***************************************************************************)
EXTENDS Wifi, Proxy

CONSTANT MaxCrashes  \* bound

VARIABLE crashes     \* crashes so far

vars == <<wifiVars, proxyVars, crashes>>

Init == WifiInit /\ ProxyInit /\ crashes = 0

\* Request::SetProxyConfig
SetProxyConfig(cfg) ==
  /\ pc = "idle" /\ served < MaxRequests
  /\ served' = served + 1
  /\ Apply(cfg, PAC_CACHE)
  /\ UNCHANGED <<pc, req, store, device, active, inq, outq, supplicant, crashes>>

\* The daemon dies at any step of a handler and is started again.
Crash ==
  /\ crashes < MaxCrashes
  /\ crashes' = crashes + 1
  /\ WifiRestart /\ ProxyRestart

Next ==
  \/ WifiNext /\ UNCHANGED <<proxyVars, crashes>>
  \/ \E cfg \in Configs : SetProxyConfig(cfg)
  \/ Crash

Spec == Init /\ [][Next]_vars
-----------------------------------------------------------------------------
(* Properties *)

\* A crash loses no profile and changes none but the one whose handler it
\* interrupts: what load_all finds is what self.connections held
\* (profiles::save, delete and touch, one file per profile).
RestartKeepsProfiles ==
  [][Crash => \A s \in Ssids \ {req.ssid} : memory'[s] = memory[s]]_vars
=============================================================================
