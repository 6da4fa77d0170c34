------------------------------- MODULE Proxy -------------------------------
(***************************************************************************)
(* The system proxy: apply, clear and resolve_for_url of                   *)
(* src/proxy/proxy.rs, and the file state::save_proxy_config keeps of it.  *)
(* A PAC script is known here by the URL it was fetched from; Pac.tla has  *)
(* what a script computes.                                                 *)
(***************************************************************************)
CONSTANTS
  Manuals,   \* ProxyConfigs of mode Manual
  Autos,     \* ProxyConfigs of mode Auto with a pac_url
  NoUrl,     \* a ProxyConfig of mode Auto without
  Off        \* the ProxyConfig of mode None

Configs == Manuals \cup Autos \cup {NoUrl, Off}

NoScript == "no script"
NoConfig == "no config"

ASSUME ConfigsAssumption ==
  /\ Manuals \cap Autos = {} /\ NoUrl # Off
  /\ {NoUrl, Off} \cap (Manuals \cup Autos) = {}
  /\ {NoScript, NoConfig} \cap Configs = {}

VARIABLES
  ACTIVE,     \* the config apply was last called with
  PAC_CACHE,  \* the Auto config whose script resolve_for_url evaluates
  profile_d,  \* the Manual config the shell script in /etc/profile.d exports
  saved,      \* the config on disk
  applied     \* the result of the last apply (history)

proxyVars == <<ACTIVE, PAC_CACHE, profile_d, saved, applied>>

ProxyInit ==
  /\ ACTIVE = NoConfig /\ PAC_CACHE = NoScript
  /\ profile_d = NoScript /\ saved = NoConfig /\ applied = FALSE

\* Faulty variant: Manual and None leave the cached script.
AppliedKeepsCache(cfg) ==
  /\ cfg # NoUrl
  /\ PAC_CACHE' = IF cfg \in Autos THEN cfg ELSE PAC_CACHE
  /\ profile_d' = IF cfg \in Manuals THEN cfg ELSE NoScript
  /\ saved' = cfg /\ applied' = TRUE

\* apply_inner succeeds and the config is saved.
Applied(cfg) ==
  /\ cfg # NoUrl
  /\ PAC_CACHE' = IF cfg \in Autos THEN cfg ELSE NoScript
  /\ profile_d' = IF cfg \in Manuals THEN cfg ELSE NoScript
  /\ saved' = cfg /\ applied' = TRUE

\* It fails: the shell script cannot be written or removed; or there is no
\* pac_url; or the PAC script cannot be fetched or is not valid, which leaves
\* the cached one in place.
NotApplied(cfg, cache) ==
  /\ applied' = FALSE /\ saved' = saved
  /\ profile_d' \in {profile_d, IF cfg = Off THEN profile_d ELSE NoScript}
  /\ PAC_CACHE' = IF cfg \in Autos \/ (cfg = NoUrl /\ profile_d' # NoScript)
                  THEN cache ELSE NoScript

Apply(cfg, cache) ==
  /\ ACTIVE' = cfg
  /\ Applied(cfg) \/ NotApplied(cfg, cache)

\* NetworkManager::new applies the saved config, if there is one, with an
\* empty cache; the shell script is still there.
ProxyRestart ==
  IF saved = NoConfig
  THEN /\ ACTIVE' = NoConfig /\ PAC_CACHE' = NoScript /\ applied' = FALSE
       /\ UNCHANGED <<profile_d, saved>>
  ELSE Apply(saved, NoScript)

\* resolve_for_url: the config that decides, or NoConfig for DIRECT.
Resolver ==
  CASE ACTIVE \in Manuals -> ACTIVE
    [] ACTIVE \in Autos \cup {NoUrl} /\ PAC_CACHE # NoScript -> PAC_CACHE
    [] OTHER -> NoConfig
-----------------------------------------------------------------------------
(* Properties *)

\* After an apply that succeeded, or that of a restart, the three places that
\* hold the configuration agree with the request: resolve_for_url, the shell
\* script, and the file.  After one that failed, no Auto or None request is
\* answered by a Manual configuration, and a script that decides belongs to
\* the configuration that is saved (proxy::apply).
ProxyAgrees ==
  /\ applied => /\ saved = ACTIVE
                /\ Resolver = (IF ACTIVE = Off THEN NoConfig ELSE ACTIVE)
                /\ profile_d = (IF ACTIVE \in Manuals THEN ACTIVE ELSE NoScript)
  /\ Resolver \in Manuals => Resolver = ACTIVE
  /\ Resolver \in Autos => Resolver = saved
=============================================================================
