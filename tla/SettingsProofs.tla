--------------------------- MODULE SettingsProofs ---------------------------
(***************************************************************************)
(* Proofs about Settings, for any networks, passphrases, proxy             *)
(* configurations and bounds: the places that hold the proxy configuration *)
(* agree; a crash loses no profile but the one in hand; nothing of a       *)
(* profile is left once it is deleted or forgotten; and, however late      *)
(* wpa_supplicant replies, a connect that succeeds has found the network   *)
(* as it is stored.                                                        *)
(***************************************************************************)
EXTENDS Settings, TLAPS

(* The proxy *)

\* Inductive: the cached script, if any, is that of the saved configuration.
ProxyInv ==
  /\ ProxyAgrees
  /\ saved \in Manuals \cup Autos \cup {Off, NoConfig}
  /\ PAC_CACHE \in Autos \cup {NoScript}
  /\ PAC_CACHE \in Autos => PAC_CACHE = saved

\* apply, with the cache as it was or emptied by a restart (proxy::apply).
LEMMA ApplyKeeps ==
  ASSUME ProxyInv, NEW cfg \in Configs, NEW cache \in {PAC_CACHE, NoScript}, Apply(cfg, cache)
  PROVE  ProxyInv'
<1>1. CASE Applied(cfg)
  <2>1. /\ ACTIVE' = cfg /\ saved' = cfg /\ cfg # NoUrl
        /\ PAC_CACHE' = IF cfg \in Autos THEN cfg ELSE NoScript
        /\ profile_d' = IF cfg \in Manuals THEN cfg ELSE NoScript
    BY <1>1 DEF Apply, Applied
  <2>2. Resolver' = IF cfg = Off THEN NoConfig ELSE cfg
    BY <2>1, ConfigsAssumption DEF Resolver, Configs
  <2> QED BY <2>1, <2>2, ConfigsAssumption DEF ProxyInv, ProxyAgrees, Configs
<1>2. CASE NotApplied(cfg, cache)
  <2>1. /\ ACTIVE' = cfg /\ applied' = FALSE /\ saved' = saved
        /\ PAC_CACHE' \in {PAC_CACHE, NoScript}
    BY <1>2 DEF Apply, NotApplied
  <2>2. /\ PAC_CACHE' \in Autos \cup {NoScript}
        /\ PAC_CACHE' \in Autos => PAC_CACHE' = saved'
    BY <2>1, ConfigsAssumption DEF ProxyInv, Configs
  <2>3. Resolver' \in {cfg, PAC_CACHE', NoConfig} /\ (Resolver' = cfg => cfg \in Manuals \/ cfg = PAC_CACHE')
    BY <2>1, <2>2, ConfigsAssumption DEF Resolver, Configs
  <2> QED BY <2>1, <2>2, <2>3, ConfigsAssumption DEF ProxyInv, ProxyAgrees, Configs
<1> QED BY <1>1, <1>2 DEF Apply

\* Every step of the daemon keeps it (SetProxyConfig, NetworkManager::new).
LEMMA ProxyNext == ProxyInv /\ [Next]_vars => ProxyInv'
<1> SUFFICES ASSUME ProxyInv, [Next]_vars PROVE ProxyInv'
  OBVIOUS
<1>1. CASE UNCHANGED proxyVars
  BY <1>1 DEF proxyVars, ProxyInv, ProxyAgrees, Resolver
<1>2. ASSUME NEW cfg \in Configs, SetProxyConfig(cfg) PROVE ProxyInv'
  BY <1>2, ApplyKeeps DEF SetProxyConfig
<1>3. CASE Crash
  <2>1. CASE saved = NoConfig
    <3>1. /\ ACTIVE' = NoConfig /\ PAC_CACHE' = NoScript /\ applied' = FALSE
          /\ saved' = saved
      BY <1>3, <2>1 DEF Crash, ProxyRestart
    <3>2. Resolver' = NoConfig
      BY <3>1, ConfigsAssumption DEF Resolver, Configs
    <3> QED BY <3>1, <3>2, ConfigsAssumption DEF ProxyInv, ProxyAgrees, Configs
  <2>2. CASE saved # NoConfig
    <3>1. saved \in Configs /\ Apply(saved, NoScript)
      BY <1>3, <2>2 DEF Crash, ProxyRestart, ProxyInv, Configs
    <3> QED BY <3>1, ApplyKeeps
  <2> QED BY <2>1, <2>2
<1> QED BY <1>1, <1>2, <1>3 DEF Next, vars

\* After an apply that succeeded resolve_for_url, the shell script and the
\* file agree with the request; after one that failed no other configuration
\* than the saved one decides (proxy::apply, NetworkManager::new).
THEOREM ProxyPlacesAgree == Spec => []ProxyAgrees
<1>1. Init => ProxyInv
  BY ConfigsAssumption DEF Init, ProxyInit, ProxyInv, ProxyAgrees, Resolver, Configs
<1>2. ProxyInv => ProxyAgrees
  BY DEF ProxyInv
<1> QED BY <1>1, <1>2, ProxyNext, PTL DEF Spec
-----------------------------------------------------------------------------
(* Profiles and secrets *)

\* What load_all makes of a profile file.
Loaded(file) == IF file \in Kinds THEN file ELSE None

\* Inductive: between requests, and for every profile but the one being
\* touched, the list in memory is what load_all would find; a handler that
\* removes a profile has, by its last step, removed the rest.
WifiInv ==
  /\ memory \in [Ssids -> Kinds \cup {None}] /\ DOMAIN disk = Ssids /\ DOMAIN secret = Ssids
  /\ disk = [s \in Ssids |-> disk[s]] /\ secret = [s \in Ssids |-> secret[s]]
  /\ {"ssid", "kind"} \subseteq DOMAIN req
  /\ pc # "idle" => req.ssid \in Ssids
  /\ pc \in {"secret", "save"} => req.kind \in Kinds
  /\ pc = "touch" => memory[req.ssid] = Loaded(req.kind)
  /\ pc = "delete secrets" => disk[req.ssid] = None /\ memory[req.ssid] = None
  /\ pc = "forget profile" => secret[req.ssid] = None /\ req.ssid \notin tmp
  /\ \A s \in Ssids : (pc = "touch" /\ s = req.ssid) \/ memory[s] = Loaded(disk[s])

\* The places in a handler at which WifiInv asks for more.
Midway == {"secret", "save", "touch", "delete secrets", "forget profile"}

\* A step that leaves the files and the list alone (most of wifi::connect,
\* wifi::forget and wifi::disconnect).
LEMMA StoreKept ==
  ASSUME WifiInv, UNCHANGED <<memory, disk>>, DOMAIN secret' = Ssids,
         secret' = [s \in Ssids |-> secret'[s]],
         pc # "touch", pc' \notin Midway, {"ssid", "kind"} \subseteq DOMAIN req',
         pc' = "idle" \/ req'.ssid \in Ssids
  PROVE  WifiInv'
BY Zenon DEF WifiInv, Midway

\* The fields a request starts with, and those an EXCEPT leaves alone.
LEMMA NoReqFields == {"ssid", "kind"} \subseteq DOMAIN NoReq
BY DEF NoReq

\* A new request for s that leaves the store alone (handle_request).
LEMMA QuietRequest ==
  ASSUME WifiInv, NEW s \in Ssids, NEW at, at \notin Midway,
         Receive([NoReq EXCEPT !.ssid = s], at), UNCHANGED store
  PROVE  WifiInv'
<1>1. /\ pc = "idle" /\ pc' = at
      /\ req'.ssid = s /\ {"ssid", "kind"} \subseteq DOMAIN req'
  BY DEF Receive, NoReq
<1>2. UNCHANGED <<memory, disk, secret>>
  BY DEF store
<1>3. DOMAIN secret' = Ssids /\ secret' = [t \in Ssids |-> secret'[t]]
  BY <1>2, Zenon DEF WifiInv
<1> QED BY <1>1, <1>2, <1>3, StoreKept

\* The start of every request.
LEMMA RequestInv ==
  ASSUME WifiInv, WifiRequest
  PROVE  WifiInv'
<1>1. PICK s \in Ssids :
        \/ \E kind \in ConnectKinds, pass \in Passphrases \cup {None} : ConnectWifi(s, kind, pass)
        \/ \E kind \in AddKinds : AddConnection(s, kind)
        \/ ActivateConnection(s) \/ DeactivateConnection(s)
        \/ DeleteConnection(s) \/ ForgetWifi(s)
  BY DEF WifiRequest
<1>2. ASSUME NEW kind \in ConnectKinds, NEW pass, ConnectWifi(s, kind, pass) PROVE WifiInv'
  <2>1. /\ pc = "idle" /\ pc' \in {"save", "secret"} /\ UNCHANGED <<memory, disk, secret>>
        /\ req'.ssid = s /\ req'.kind = kind /\ {"ssid", "kind"} \subseteq DOMAIN req'
    BY <1>2 DEF ConnectWifi, Receive, NoReq
  <2> QED BY <2>1, KindsAssumption, Zenon DEF WifiInv
<1>3. ASSUME NEW kind \in AddKinds, AddConnection(s, kind) PROVE WifiInv'
  <2>1. /\ pc = "idle" /\ UNCHANGED <<pc, req, secret, tmp>>
        /\ disk' = [disk EXCEPT ![s] = kind] /\ memory' = [memory EXCEPT ![s] = kind]
    BY <1>3 DEF AddConnection
  <2>2. kind \in Kinds
    BY KindsAssumption
  <2>3. \A t \in Ssids : memory'[t] = Loaded(disk'[t])
    BY <2>1, <2>2 DEF WifiInv, Loaded
  <2> QED BY <2>1, <2>2, <2>3 DEF WifiInv
<1>4. CASE ActivateConnection(s)
  BY <1>4, QuietRequest, Zenon DEF ActivateConnection, Midway
<1>5. CASE DeactivateConnection(s)
  BY <1>5, QuietRequest, Zenon DEF DeactivateConnection, Deactivate, Midway
<1>6. CASE DeleteConnection(s)
  BY <1>6, QuietRequest, Zenon DEF DeleteConnection, Deactivate, Midway
<1>7. CASE ForgetWifi(s)
  BY <1>7, QuietRequest, Zenon DEF ForgetWifi, Midway
<1> QED BY <1>1, <1>2, <1>3, <1>4, <1>5, <1>6, <1>7

\* The steps of wifi::connect up to its end, and of the requests that leave
\* the store alone.
LEMMA TalkInv ==
  ASSUME WifiInv,
         \/ StartConnect \/ StartConnectFails \/ ListNetworks \/ RemoveNetwork
         \/ AddNetwork \/ AddNetworkFails \/ SetNetwork \/ SetNetworkFails
         \/ EnableNetwork \/ SelectNetwork \/ EnableOrSelectFails
         \/ AwaitAssociationFails \/ AssociatedInVain
         \/ Disconnected \/ ForgetListed \/ ForgetRemoved
  PROVE  WifiInv'
<1>1. UNCHANGED <<memory, disk, secret>> /\ pc \notin {"idle", "touch"}
  BY Zenon DEF StartConnect, StartConnectFails, ListNetworks, RemoveNetwork, AddNetwork,
         AddNetworkFails, SetNetwork, SetNetworkFails, EnableNetwork, SelectNetwork,
         EnableOrSelectFails, AwaitAssociationFails, AssociatedInVain, Disconnected,
         ForgetListed, ForgetRemoved, ConnectFails, store
<1>2. CASE Return
  BY <1>1, <1>2, NoReqFields, StoreKept, Zenon DEF Return, Midway, WifiInv
<1>3. CASE ~Return
  <2>1. /\ pc' \in {"list", "add", "remove", "set", "enable", "select", "status", "delete",
                    "forget save", "forget remove"}
        /\ req'.ssid = req.ssid /\ {"ssid", "kind"} \subseteq DOMAIN req'
    <3>1. CASE StartConnect
      BY <3>1 DEF StartConnect, WifiInv
    <3>2. CASE ListNetworks \/ RemoveNetwork
      BY <3>2, Zenon DEF ListNetworks, RemoveNetwork, RemoveOrAdd, WifiInv
    <3>3. CASE AddNetwork
      BY <3>3 DEF AddNetwork, WifiInv
    <3>4. CASE SetNetwork
      BY <3>4, Zenon DEF SetNetwork, WifiInv
    <3>5. CASE EnableNetwork \/ SelectNetwork
      BY <3>5, Zenon DEF EnableNetwork, SelectNetwork, WifiInv
    <3>6. CASE Disconnected
      BY <1>3, <3>6, Zenon DEF Disconnected, WifiInv
    <3>7. CASE ForgetListed \/ ForgetRemoved
      BY <3>7, Zenon DEF ForgetListed, ForgetRemoved, RemoveOrSave, WifiInv
    <3> QED BY <1>3, <3>1, <3>2, <3>3, <3>4, <3>5, <3>6, <3>7, Zenon
            DEF StartConnectFails, AddNetworkFails, SetNetworkFails, EnableOrSelectFails,
                AwaitAssociationFails, AssociatedInVain, ConnectFails
  <2>2. req.ssid \in Ssids
    BY <1>1, Zenon DEF WifiInv
  <2> QED BY <1>1, <2>1, <2>2, StoreKept, Zenon DEF Midway, WifiInv
<1> QED BY <1>2, <1>3

\* The steps that write or remove files (secrets.set and delete_all,
\* profiles::save, touch and delete).
LEMMA StoreInv ==
  ASSUME WifiInv,
         \/ SetSecret \/ SaveProfile \/ Associated \/ Touch
         \/ DeleteProfile \/ DeleteSecrets \/ ForgetSecrets \/ ForgetProfile
  PROVE  WifiInv'
<1>1. req.ssid \in Ssids
  BY Zenon DEF WifiInv, SetSecret, SaveProfile, Associated, Touch, DeleteProfile, DeleteSecrets,
         ForgetSecrets, ForgetProfile
<1>2. CASE SetSecret
  <2>1. CASE Return
    BY <1>2, <2>1, NoReqFields, StoreKept DEF SetSecret, Return, Midway, WifiInv
  <2>2. CASE pc' = "save"
    <3>1. /\ UNCHANGED <<memory, disk>> /\ pc = "secret"
          /\ secret' = [secret EXCEPT ![req.ssid] = req.pass]
          /\ req' = [req EXCEPT !.pass = None]
      BY <1>2, <2>2 DEF SetSecret, Return
    <3>2. req'.ssid = req.ssid /\ req'.kind = req.kind /\ {"ssid", "kind"} \subseteq DOMAIN req'
      BY <3>1 DEF WifiInv
    <3> QED BY <1>1, <2>2, <3>1, <3>2 DEF WifiInv
  <2> QED BY <1>2, <2>1, <2>2 DEF SetSecret
<1>3. CASE SaveProfile
  <2>1. CASE Return
    BY <1>3, <2>1, NoReqFields, StoreKept DEF SaveProfile, Return, Midway, WifiInv
  <2>2. CASE pc' = "activate"
    <3>1. /\ disk' = [disk EXCEPT ![req.ssid] = req.kind]
          /\ memory' = [memory EXCEPT ![req.ssid] = req.kind]
          /\ UNCHANGED <<req, secret>> /\ pc = "save" /\ req.kind \in Kinds
      BY <1>3, <2>2 DEF SaveProfile, Return, WifiInv
    <3>2. \A t \in Ssids : memory'[t] = Loaded(disk'[t])
      BY <1>1, <3>1 DEF WifiInv, Loaded
    <3> QED BY <1>1, <2>2, <3>1, <3>2 DEF WifiInv
  <2> QED BY <1>3, <2>1, <2>2 DEF SaveProfile
<1>4. CASE Associated
  <2>1. /\ pc = "status" /\ pc' = "touch" /\ UNCHANGED <<memory, secret>>
        /\ req' = [req EXCEPT !.kind = disk[req.ssid]]
        /\ disk' = IF disk[req.ssid] = None THEN disk ELSE [disk EXCEPT ![req.ssid] = "torn"]
    BY <1>4 DEF Associated
  <2>2. req'.ssid = req.ssid /\ req'.kind = disk[req.ssid] /\ {"ssid", "kind"} \subseteq DOMAIN req'
    BY <2>1 DEF WifiInv
  <2>3. memory[req.ssid] = Loaded(disk[req.ssid])
    BY <1>1, <2>1 DEF WifiInv
  <2>4. \A t \in Ssids \ {req.ssid} : disk'[t] = disk[t]
    BY <1>1, <2>1 DEF WifiInv
  <2> QED BY <1>1, <2>1, <2>2, <2>3, <2>4 DEF WifiInv
<1>5. CASE Touch
  <2>1. /\ pc = "touch" /\ pc' = "idle" /\ req' = NoReq /\ UNCHANGED <<memory, secret>>
        /\ disk' = [disk EXCEPT ![req.ssid] = req.kind]
    BY <1>5 DEF Touch, Return
  <2>2. \A t \in Ssids : memory'[t] = Loaded(disk'[t])
    BY <1>1, <2>1 DEF WifiInv
  <2> QED BY <2>1, <2>2, NoReqFields DEF WifiInv
<1>6. CASE DeleteProfile
  <2>1. CASE Return
    <3>1. UNCHANGED <<memory, disk, secret>> \/ (pc' = "delete secrets")
      BY <1>6, Zenon DEF DeleteProfile
    <3> QED BY <1>6, <2>1, <3>1, NoReqFields, StoreKept DEF DeleteProfile, Return, Midway, WifiInv
  <2>2. CASE pc' = "delete secrets"
    <3>1. /\ disk' = [disk EXCEPT ![req.ssid] = None] /\ memory' = [memory EXCEPT ![req.ssid] = None]
          /\ UNCHANGED <<req, secret>> /\ pc = "delete"
      BY <1>6, <2>2, Zenon DEF DeleteProfile, Return
    <3>2. \A t \in Ssids : memory'[t] = Loaded(disk'[t])
      BY <1>1, <3>1, Zenon DEF WifiInv, Loaded, Kinds, None
    <3> QED BY <1>1, <2>2, <3>1, <3>2, Zenon DEF WifiInv
  <2> QED BY <1>6, <2>1, <2>2, Zenon DEF DeleteProfile
<1>7. CASE DeleteSecrets
  <2>1. /\ pc = "delete secrets" /\ pc' = "idle" /\ req' = NoReq /\ UNCHANGED <<memory, disk>>
        /\ DOMAIN secret' = Ssids /\ secret' = [s \in Ssids |-> secret'[s]]
    BY <1>7, Zenon DEF DeleteSecrets, DeleteAll, Return
  <2> QED BY <2>1, NoReqFields, StoreKept, Zenon DEF Midway
<1>8. CASE ForgetSecrets
  <2>1. /\ pc \notin {"idle", "touch"} /\ pc' = "forget profile" /\ UNCHANGED <<req, memory, disk>>
        /\ secret' = [t \in Ssids |-> IF t \in Prefixed(req.ssid) THEN None ELSE secret[t]]
        /\ tmp' = tmp \ Prefixed(req.ssid)
    BY <1>8, Zenon DEF ForgetSecrets, DeleteAll
  <2>2. req.ssid \in Prefixed(req.ssid)
    BY <1>1 DEF Prefixed
  <2> QED BY <1>1, <2>1, <2>2, Zenon DEF WifiInv
<1>9. CASE ForgetProfile
  <2>1. /\ pc = "forget profile" /\ pc' = "idle" /\ req' = NoReq /\ UNCHANGED secret
        /\ disk' = [disk EXCEPT ![req.ssid] = None] /\ memory' = [memory EXCEPT ![req.ssid] = None]
    BY <1>9, Zenon DEF ForgetProfile, Return
  <2>2. \A t \in Ssids : memory'[t] = Loaded(disk'[t])
    BY <1>1, <2>1, Zenon DEF WifiInv, Loaded, Kinds, None
  <2> QED BY <1>1, <2>1, <2>2, NoReqFields, Zenon DEF WifiInv
<1> QED BY <1>2, <1>3, <1>4, <1>5, <1>6, <1>7, <1>8, <1>9

\* Every step of the daemon and of wpa_supplicant.
LEMMA WifiInvNext == WifiInv /\ [Next]_vars => WifiInv'
<1> SUFFICES ASSUME WifiInv, [Next]_vars PROVE WifiInv'
  OBVIOUS
<1>1. CASE UNCHANGED <<pc, req, memory, disk, secret, tmp>>
  BY <1>1, Zenon DEF WifiInv
<1>2. CASE Crash
  <2>1. /\ memory' = [s \in Ssids |-> Loaded(disk[s])] /\ UNCHANGED <<disk, secret, tmp>>
        /\ pc' = "idle" /\ req' = NoReq
    BY <1>2 DEF Crash, WifiRestart, Return, Loaded
  <2>2. \A s \in Ssids : Loaded(disk[s]) \in Kinds \cup {None}
    BY DEF Loaded
  <2> QED BY <2>1, <2>2, NoReqFields, Zenon DEF WifiInv
<1>3. CASE WifiRequest
  BY <1>3, RequestInv
<1>4. CASE WifiManager
  <2>1. CASE AwaitAssociation
    BY <1>1, <2>1 DEF AwaitAssociation, store
  <2> QED BY <1>4, <2>1, TalkInv, StoreInv DEF WifiManager
<1>5. CASE Supplicant \/ (\E cfg \in Configs : SetProxyConfig(cfg)) \/ UNCHANGED vars
  BY <1>1, <1>5 DEF Supplicant, Serve, Associate, SetProxyConfig, store, vars, wifiVars
<1> QED BY <1>2, <1>3, <1>4, <1>5 DEF Next, WifiNext

\* It holds when the daemon is first started.
LEMMA WifiInvInit == Init => WifiInv
BY NoReqFields DEF Init, WifiInit, WifiInv, Loaded

\* A crash anywhere loses no profile and changes none but the one whose
\* handler it interrupts (profiles::save, delete, touch and load_all).
THEOREM ProfilesSurvive == Spec => RestartKeepsProfiles
<1>1. WifiInv /\ [Next]_vars =>
        [Crash => \A s \in Ssids \ {req.ssid} : memory'[s] = memory[s]]_vars
  BY Zenon DEF WifiInv, Crash, WifiRestart, Loaded
<1> QED BY <1>1, WifiInvInit, WifiInvNext, PTL DEF Spec, RestartKeepsProfiles

\* A profile that was deleted or forgotten leaves no file, no secret and no
\* entry in memory (handle_request, secrets.delete_all, profiles::delete).
THEOREM NothingIsLeft == Spec => NothingLeft
<1>1. WifiInv /\ [Next]_vars =>
        [ForgetProfile \/ DeleteSecrets =>
           /\ disk'[req.ssid] = None /\ memory'[req.ssid] = None
           /\ secret'[req.ssid] = None /\ req.ssid \notin tmp']_wifiVars
  <2> SUFFICES ASSUME WifiInv, ForgetProfile \/ DeleteSecrets
               PROVE  /\ disk'[req.ssid] = None /\ memory'[req.ssid] = None
                      /\ secret'[req.ssid] = None /\ req.ssid \notin tmp'
    OBVIOUS
  <2>1. req.ssid \in Ssids
    BY Zenon DEF WifiInv, ForgetProfile, DeleteSecrets
  <2>2. CASE ForgetProfile
    BY <2>1, <2>2, Zenon DEF ForgetProfile, WifiInv
  <2>3. CASE DeleteSecrets
    BY <2>1, <2>3, Zenon DEF DeleteSecrets, DeleteAll, Prefixed, WifiInv
  <2> QED BY <2>2, <2>3
<1> QED BY <1>1, WifiInvInit, WifiInvNext, PTL DEF Spec, NothingLeft
-----------------------------------------------------------------------------
(* The conversation with wpa_supplicant *)

CmdFields == {"cmd", "id", "field", "value", "own"}
ReqFields == {"ssid", "kind", "key", "id", "fields", "gone"}
NetFields == {"live", "ssid", "key"}
IsSeq(q) == \E S : q \in Seq(S)

\* The places of wifi::connect, and those after ADD_NETWORK was answered.
Configuring == {"set", "enable", "select", "status"}
Connecting == {"list", "remove", "add"} \cup Configuring

Own == {i \in DOMAIN inq : inq[i].own}
Has == {n \in DOMAIN nets : nets[n].ssid = req.ssid}

\* The manager waits for the reply to c; the reply is there.
Waiting(c) == inq = <<c>> /\ outq = <<>>
Answered == inq = <<>> /\ Len(outq) = 1

\* A reply came late: there is one more of it on its way or in the socket,
\* and so it stays until the socket is closed.
Late ==
  \/ Len(outq) >= 2
  \/ outq # <<>> /\ Own # {}
  \/ \E i, j \in Own : i # j

\* ADD_NETWORK was not sent; or it was the last that was.
NoAdd ==
  /\ \A i \in Own : inq[i].cmd # "ADD"
  /\ \A i \in DOMAIN outq : outq[i].id = 0
AddLast ==
  /\ \A i \in Own : inq[i].cmd = "ADD" => i = Len(inq)
  /\ \A i \in DOMAIN outq : outq[i].id # 0 => i = Len(outq) /\ Own = {}

\* What is left of Fields(kind) to set, the one being set included.
Left(kind) ==
  CASE kind = "open" -> {<<"ssid", "key_mgmt">>, <<"key_mgmt">>}
    [] kind = "psk" -> {<<"ssid", "key_mgmt", "psk">>, <<"key_mgmt", "psk">>, <<"psk">>}
    [] OTHER -> {<<"ssid", "key_mgmt", "identity", "password">>,
                 <<"key_mgmt", "identity", "password">>, <<"identity", "password">>,
                 <<"password">>}

\* The form of wpa_supplicant's networks and of the queues.
NetShapes ==
  /\ IsSeq(nets)
  /\ \A n \in DOMAIN nets : NetFields \subseteq DOMAIN nets[n]
  /\ \A n \in DOMAIN nets : nets[n].ssid # None => nets[n].live
InShapes == IsSeq(inq) /\ \A i \in DOMAIN inq : CmdFields \subseteq DOMAIN inq[i]
Shapes == InShapes /\ IsSeq(outq) /\ NetShapes /\ ReqFields \subseteq DOMAIN req

Stored ==
  /\ req.ssid \in Ssids /\ req.kind = memory[req.ssid]
  /\ req.key = IF memory[req.ssid] = "open" THEN None ELSE secret[req.ssid]

Listing ==
  /\ NoAdd
  /\ \/ /\ outq = <<>> /\ Own = {Len(inq)} /\ inq[Len(inq)].cmd = "LIST"
     \/ Answered /\ outq[1].ids = Listed

Removing ==
  /\ NoAdd
  /\ \/ Late
     \/ \E n : Waiting(Cmd("REMOVE", n)) /\ Has \subseteq req.gone \cup {n}
     \/ Answered /\ Has \subseteq req.gone

Adding ==
  /\ AddLast
  /\ \/ Late
     \/ Waiting(Cmd("ADD", 0)) /\ Has = {}
     \/ Answered /\ Has = {} /\ Known(outq[1].id) /\ nets[outq[1].id].key = None

Setting ==
  /\ Known(req.id) /\ req.fields \in Left(req.kind)
  /\ \/ /\ Waiting(SetCmd(req.id, Head(req.fields),
                          IF Head(req.fields) = "ssid" THEN req.ssid ELSE req.key))
        /\ Has = (IF Head(req.fields) = "ssid" THEN {} ELSE {req.id})
        /\ nets[req.id].key = None
     \/ /\ Answered /\ outq[1].cmd = "SET" /\ Has = {req.id}
        /\ nets[req.id].key = IF Head(req.fields) \in {"psk", "password"} THEN req.key ELSE None

Configured == Known(req.id) /\ Has = {req.id} /\ nets[req.id].key = req.key

Enabling ==
  /\ Configured
  /\ Waiting(Cmd("ENABLE", req.id)) \/ (Answered /\ outq[1].cmd = "ENABLE")
Selecting ==
  /\ Configured
  /\ \/ Waiting(Cmd("SELECT", req.id))
     \/ Answered /\ outq[1].cmd = "SELECT" /\ selected = req.id
Associating ==
  /\ Configured /\ selected = req.id
  /\ Waiting(Cmd("STATUS", 0)) \/ (Answered /\ outq[1].cmd = "STATUS")

\* Inductive, with WifiInv: where wifi::connect is, and what wpa_supplicant
\* then has, was asked, and has answered.
ConnectInv ==
  /\ Shapes
  /\ pc \in Connecting => Stored
  /\ pc = "list" => Listing
  /\ pc = "remove" => Removing
  /\ pc = "add" => Adding
  /\ pc = "set" => Setting
  /\ pc = "enable" => Enabling
  /\ pc = "select" => Selecting
  /\ pc = "status" => Associating

\* What the proofs use of the sequences that model sockets and networks.
LEMMA SeqFacts ==
  ASSUME NEW q, IsSeq(q)
  PROVE  /\ Len(q) \in Nat /\ DOMAIN q = 1..Len(q)
         /\ q = <<>> <=> Len(q) = 0
         /\ q = [i \in 1..Len(q) |-> q[i]]
BY DEF IsSeq

\* sock.send, or a reply that arrives.
LEMMA AppendFacts ==
  ASSUME NEW q, IsSeq(q), NEW e
  PROVE  /\ IsSeq(Append(q, e)) /\ Len(Append(q, e)) = Len(q) + 1
         /\ \A i \in 1..Len(q) : Append(q, e)[i] = q[i]
         /\ Append(q, e)[Len(q) + 1] = e
<1>1. PICK S : q \in Seq(S)
  BY DEF IsSeq
<1>2. q \in Seq(S \cup {e}) /\ e \in S \cup {e}
  BY <1>1
<1>3. Append(q, e) \in Seq(S \cup {e})
  BY <1>2
<1> QED BY <1>2, <1>3 DEF IsSeq

\* The oldest of a queue is taken.
LEMMA TailFacts ==
  ASSUME NEW q, IsSeq(q), q # <<>>
  PROVE  /\ IsSeq(Tail(q)) /\ Len(Tail(q)) = Len(q) - 1 /\ Len(q) \in Nat \ {0}
         /\ \A i \in 1..(Len(q) - 1) : Tail(q)[i] = q[i + 1]
         /\ Head(q) = q[1]
<1>1. PICK S : q \in Seq(S)
  BY DEF IsSeq
<1>2. Tail(q) \in Seq(S)
  BY <1>1
<1> QED BY <1>1, <1>2 DEF IsSeq

\* A function on 1..n is a sequence.
LEMMA FunctionSeq ==
  ASSUME NEW n \in Nat, NEW f, f = [i \in 1..n |-> f[i]]
  PROVE  IsSeq(f) /\ Len(f) = n
<1> DEFINE S == {f[i] : i \in 1..n}
<1>1. \A i \in 1..n : f[i] \in S
  OBVIOUS
<1>2. [i \in 1..n |-> f[i]] \in Seq(S)
  <2> HIDE DEF S
  <2> QED BY <1>1
<1>3. Len([i \in 1..n |-> f[i]]) = n
  OBVIOUS
<1> QED BY <1>2, <1>3, Zenon DEF IsSeq

\* The socket is closed (WpaCtrl is dropped).
LEMMA BehindFacts ==
  ASSUME IsSeq(inq), \A i \in DOMAIN inq : CmdFields \subseteq DOMAIN inq[i]
  PROVE  /\ IsSeq(LeftBehind) /\ Len(LeftBehind) = Len(inq)
         /\ \A i \in DOMAIN inq : CmdFields \subseteq DOMAIN LeftBehind[i]
         /\ \A i \in DOMAIN inq : ~LeftBehind[i].own
<1>1. Len(inq) \in Nat /\ DOMAIN inq = 1..Len(inq)
  BY SeqFacts
<1>2. LeftBehind = [i \in 1..Len(inq) |-> [inq[i] EXCEPT !.own = FALSE]]
  BY <1>1 DEF LeftBehind
<1>3. LeftBehind = [i \in 1..Len(inq) |-> LeftBehind[i]]
  BY <1>2
<1>4. IsSeq(LeftBehind) /\ Len(LeftBehind) = Len(inq)
  BY <1>1, <1>3, FunctionSeq
<1>5. ASSUME NEW i \in DOMAIN inq
      PROVE  CmdFields \subseteq DOMAIN LeftBehind[i] /\ ~LeftBehind[i].own
  BY <1>5, <1>1, <1>2 DEF CmdFields
<1> QED BY <1>4, <1>5

\* The commands the manager sends have all their fields.
LEMMA CmdShape ==
  /\ \A what, id : /\ Cmd(what, id).cmd = what /\ Cmd(what, id).id = id /\ Cmd(what, id).own
                   /\ CmdFields \subseteq DOMAIN Cmd(what, id)
  /\ \A id, field, value :
       LET c == SetCmd(id, field, value) IN
       /\ c.cmd = "SET" /\ c.id = id /\ c.own /\ c.field = field /\ c.value = value
       /\ CmdFields \subseteq DOMAIN c
<1>1. \A what, id : /\ Cmd(what, id).cmd = what /\ Cmd(what, id).id = id /\ Cmd(what, id).own
                    /\ CmdFields \subseteq DOMAIN Cmd(what, id)
  BY DEF Cmd, CmdFields
<1>2. ASSUME NEW id, NEW field, NEW value, NEW c, c = SetCmd(id, field, value)
      PROVE  /\ c.cmd = "SET" /\ c.id = id /\ c.own /\ c.field = field /\ c.value = value
             /\ CmdFields \subseteq DOMAIN c
  BY <1>2 DEF Cmd, SetCmd, CmdFields
<1> QED BY <1>1, <1>2

\* A reply that says something was received (WpaCtrl::request).
LEMMA Replied == Ok \/ Reply.id # 0 => outq # <<>>
BY DEF Ok, Reply, Received, NoReply

\* What a step may do to the requests: one is sent, the socket is closed or
\* opened anew, or wpa_supplicant serves one.
IsCmd(c) == c.own /\ CmdFields \subseteq DOMAIN c
RequestStep ==
  \/ inq' = inq
  \/ inq # <<>> /\ inq' = Tail(inq)
  \/ inq' = LeftBehind
  \/ \E c : IsCmd(c) /\ (inq' = Append(inq, c) \/ inq' = Append(LeftBehind, c))

\* ... to the replies: one arrives, one is taken, or all are dropped.
ReplyStep ==
  \/ outq' = outq
  \/ outq # <<>> /\ outq' = Tail(outq)
  \/ outq' = <<>>
  \/ \E r : outq' = Append(outq, r)

\* ... and to the networks: wpa_supplicant does what it is asked.
NetsStep == nets' = nets \/ (inq # <<>> /\ nets' = NetsAfter(Head(inq)))

\* Every step of the daemon and of wpa_supplicant.
LEMMA SocketSteps ==
  ASSUME [Next]_vars
  PROVE  RequestStep /\ ReplyStep /\ NetsStep
<1>0. /\ \A what, id : IsCmd(Cmd(what, id))
      /\ \A id, field, value : IsCmd(SetCmd(id, field, value))
  BY CmdShape DEF IsCmd
<1>1. CASE UNCHANGED <<inq, outq, nets>>
  BY <1>1 DEF RequestStep, ReplyStep, NetsStep
<1>2. CASE CloseSocket /\ UNCHANGED nets
  BY <1>2 DEF CloseSocket, RequestStep, ReplyStep, NetsStep
<1>3. ASSUME NEW c, IsCmd(c), OpenSocket(c), UNCHANGED nets PROVE RequestStep /\ ReplyStep /\ NetsStep
  BY <1>3 DEF OpenSocket, RequestStep, ReplyStep, NetsStep
<1>4. ASSUME NEW c, IsCmd(c), Send(c), UNCHANGED nets,
             outq' = outq \/ (outq # <<>> /\ outq' = Tail(outq))
      PROVE  RequestStep /\ ReplyStep /\ NetsStep
  BY <1>4 DEF Send, RequestStep, ReplyStep, NetsStep
<1>5. CASE Serve
  BY <1>5 DEF Serve, RequestStep, ReplyStep, NetsStep
<1>6. CASE ListNetworks \/ RemoveNetwork
  BY <1>0, <1>4, <1>6, Zenon DEF ListNetworks, RemoveNetwork, RemoveOrAdd, Received, supplicant
<1>7. CASE AddNetwork \/ SetNetwork \/ EnableNetwork \/ SelectNetwork
  BY <1>0, <1>4, <1>7, Replied DEF AddNetwork, SetNetwork, EnableNetwork, SelectNetwork, supplicant
<1>8. CASE AwaitAssociation
  BY <1>0, <1>4, <1>8 DEF AwaitAssociation, Received, supplicant
<1>9. CASE ForgetListed \/ ForgetRemoved
  BY <1>0, <1>4, <1>9, Replied, Zenon DEF ForgetListed, ForgetRemoved, RemoveOrSave, Received, supplicant
<1>10. CASE StartConnect
  BY <1>0, <1>3, <1>10 DEF StartConnect, supplicant
<1>11. CASE \E s \in Ssids : \E at : Deactivate(s, at)
  BY <1>0, <1>3, <1>11 DEF Deactivate, supplicant
<1>12. CASE \E s \in Ssids : ForgetWifi(s)
  BY <1>0, <1>3, <1>12 DEF ForgetWifi, supplicant
<1>13. CASE ConnectFails \/ Associated \/ Disconnected \/ ForgetSecrets \/ Crash
  BY <1>2, <1>13, Zenon DEF ConnectFails, Associated, Disconnected, ForgetSecrets, Crash, WifiRestart,
     supplicant
<1>14. CASE WifiRequest
  BY <1>1, <1>11, <1>12, <1>14, Zenon
     DEF WifiRequest, ConnectWifi, AddConnection, ActivateConnection, DeactivateConnection,
         DeleteConnection, supplicant
<1>15. CASE WifiManager
  BY <1>1, <1>6, <1>7, <1>8, <1>9, <1>10, <1>13, <1>15, Zenon
     DEF WifiManager, SetSecret, SaveProfile, StartConnectFails, AddNetworkFails, SetNetworkFails,
         EnableOrSelectFails, AwaitAssociationFails, AssociatedInVain, Touch, DeleteProfile,
         DeleteSecrets, ForgetProfile, supplicant
<1>16. CASE Associate \/ (\E cfg \in Configs : SetProxyConfig(cfg)) \/ UNCHANGED vars
  BY <1>1, <1>16 DEF Associate, SetProxyConfig, vars, wifiVars, supplicant
<1> QED BY <1>5, <1>13, <1>14, <1>15, <1>16 DEF Next, WifiNext, Supplicant

\* Serving a request keeps the form of the entries (external).
LEMMA NetsKept ==
  ASSUME NetShapes, NetsStep
  PROVE  NetShapes'
<1> DEFINE c == Head(inq)
<1> HIDE DEF c
<1>1. CASE nets' = nets
  BY <1>1 DEF NetShapes
<1>2. CASE nets' = Append(nets, Blank(TRUE))
  <2>1. /\ IsSeq(nets') /\ Len(nets') = Len(nets) + 1
        /\ \A i \in 1..Len(nets) : nets'[i] = nets[i]
        /\ nets'[Len(nets) + 1] = Blank(TRUE)
    <3>1. IsSeq(nets)
      BY DEF NetShapes
    <3> QED BY <1>2, <3>1, AppendFacts, Zenon
  <2>2. /\ Len(nets) \in Nat /\ DOMAIN nets = 1..Len(nets) /\ DOMAIN nets' = 1..(Len(nets) + 1)
    BY <2>1, SeqFacts DEF NetShapes
  <2>3. NetFields \subseteq DOMAIN Blank(TRUE) /\ Blank(TRUE).ssid = None
    BY DEF Blank, NetFields
  <2>4. ASSUME NEW n \in DOMAIN nets'
        PROVE  NetFields \subseteq DOMAIN nets'[n] /\ (nets'[n].ssid # None => nets'[n].live)
    <3>1. n \in DOMAIN nets \/ n = Len(nets) + 1
      BY <2>2
    <3> QED BY <2>1, <2>2, <2>3, <3>1, Zenon DEF NetShapes
  <2> QED BY <2>1, <2>4 DEF NetShapes
<1>3. CASE Known(c.id) /\ nets' \in {[nets EXCEPT ![c.id] = Blank(FALSE)],
                                     [nets EXCEPT ![c.id].ssid = c.value],
                                     [nets EXCEPT ![c.id].key = c.value]}
  <2>1. /\ Len(nets) \in Nat /\ DOMAIN nets = 1..Len(nets)
        /\ c.id \in DOMAIN nets /\ nets[c.id].live
    BY <1>3, SeqFacts DEF NetShapes, Known
  <2>2. DOMAIN nets' = 1..Len(nets) /\ nets' = [i \in 1..Len(nets) |-> nets'[i]]
    BY <1>3, <2>1, Zenon
  <2>3. IsSeq(nets')
    BY <2>1, <2>2, FunctionSeq
  <2>4. \A n \in DOMAIN nets \ {c.id} : nets'[n] = nets[n]
    BY <1>3, <2>1, Zenon
  <2>5. nets'[c.id] \in {Blank(FALSE), [nets[c.id] EXCEPT !.ssid = c.value],
                         [nets[c.id] EXCEPT !.key = c.value]}
    BY <1>3, <2>1, Zenon
  <2>6. NetFields \subseteq DOMAIN nets'[c.id] /\ (nets'[c.id].ssid # None => nets'[c.id].live)
    BY <2>1, <2>5 DEF Blank, NetShapes, NetFields
  <2> QED BY <2>1, <2>2, <2>3, <2>4, <2>6 DEF NetShapes
<1>4. NetsAfter(c) \in {nets, Append(nets, Blank(TRUE))}
      \/ (Known(c.id) /\ NetsAfter(c) \in {[nets EXCEPT ![c.id] = Blank(FALSE)],
                                           [nets EXCEPT ![c.id].ssid = c.value],
                                           [nets EXCEPT ![c.id].key = c.value]})
  BY Zenon DEF NetsAfter
<1>5. nets' \in {nets, NetsAfter(c)}
  BY DEF NetsStep, c
<1> QED BY <1>1, <1>2, <1>3, <1>4, <1>5, Zenon

\* So does every step that of the requests.
LEMMA RequestsKept ==
  ASSUME InShapes, RequestStep
  PROVE  InShapes'
<1>1. CASE inq' = inq
  BY <1>1 DEF InShapes
<1>2. CASE inq # <<>> /\ inq' = Tail(inq)
  <2>1. /\ IsSeq(inq') /\ Len(inq') = Len(inq) - 1 /\ Len(inq) \in Nat \ {0}
        /\ \A i \in 1..(Len(inq) - 1) : inq'[i] = inq[i + 1]
    BY <1>2, TailFacts DEF InShapes
  <2>2. DOMAIN inq = 1..Len(inq) /\ DOMAIN inq' = 1..(Len(inq) - 1)
    BY <2>1, SeqFacts DEF InShapes
  <2>3. ASSUME NEW i \in DOMAIN inq' PROVE CmdFields \subseteq DOMAIN inq'[i]
    <3>1. i + 1 \in DOMAIN inq /\ inq'[i] = inq[i + 1]
      BY <2>1, <2>2
    <3> QED BY <3>1 DEF InShapes
  <2> QED BY <2>1, <2>3 DEF InShapes
<1>3. /\ IsSeq(LeftBehind) /\ Len(LeftBehind) = Len(inq)
      /\ Len(inq) \in Nat /\ DOMAIN inq = 1..Len(inq) /\ DOMAIN LeftBehind = DOMAIN inq
      /\ \A i \in DOMAIN inq : CmdFields \subseteq DOMAIN LeftBehind[i]
  BY BehindFacts, SeqFacts DEF InShapes
<1>4. ASSUME NEW q, IsSeq(q), \A i \in DOMAIN q : CmdFields \subseteq DOMAIN q[i],
             NEW c, IsCmd(c), inq' = Append(q, c)
      PROVE  InShapes'
  <2>1. /\ IsSeq(inq') /\ Len(inq') = Len(q) + 1 /\ inq'[Len(q) + 1] = c
        /\ \A i \in 1..Len(q) : inq'[i] = q[i]
    BY <1>4, AppendFacts
  <2>2. Len(q) \in Nat /\ DOMAIN q = 1..Len(q) /\ DOMAIN inq' = 1..(Len(q) + 1)
    BY <1>4, <2>1, SeqFacts
  <2>3. ASSUME NEW i \in DOMAIN inq' PROVE CmdFields \subseteq DOMAIN inq'[i]
    <3>1. i \in DOMAIN q \/ i = Len(q) + 1
      BY <2>2
    <3> QED BY <1>4, <2>1, <2>2, <3>1 DEF IsCmd
  <2> QED BY <2>1, <2>3 DEF InShapes
<1>5. CASE inq' = LeftBehind
  BY <1>3, <1>5 DEF InShapes
<1>6. ASSUME NEW c, IsCmd(c), inq' = Append(inq, c) \/ inq' = Append(LeftBehind, c)
      PROVE  InShapes'
  BY <1>3, <1>4, <1>6, Zenon DEF InShapes
<1> QED BY <1>1, <1>2, <1>5, <1>6 DEF RequestStep

\* ... of the replies.
LEMMA RepliesKept ==
  ASSUME IsSeq(outq), ReplyStep
  PROVE  IsSeq(outq')
<1>1. IsSeq(<<>>)
  BY DEF IsSeq
<1>2. CASE outq # <<>> /\ outq' = Tail(outq)
  BY <1>2, TailFacts
<1>3. ASSUME NEW r, outq' = Append(outq, r) PROVE IsSeq(outq')
  BY <1>3, AppendFacts
<1> QED BY <1>1, <1>2, <1>3 DEF ReplyStep

\* ... and of what the handler works with.
LEMMA ReqKept ==
  ASSUME ReqFields \subseteq DOMAIN req, [Next]_vars
  PROVE  ReqFields \subseteq DOMAIN req'
<1>1. CASE req' = req
  BY <1>1
<1>2. CASE req' = NoReq
  BY <1>2 DEF NoReq, ReqFields
<1>3. ASSUME NEW s, \/ \E at : Receive([NoReq EXCEPT !.ssid = s], at)
                    \/ \E at, kind, pass : Receive([NoReq EXCEPT !.ssid = s, !.kind = kind, !.pass = pass], at)
      PROVE  ReqFields \subseteq DOMAIN req'
  BY <1>3, Zenon DEF Receive, NoReq, ReqFields
<1>4. CASE WifiRequest
  BY <1>1, <1>3, <1>4, Zenon
     DEF WifiRequest, ConnectWifi, AddConnection, ActivateConnection, DeactivateConnection, Deactivate,
         DeleteConnection, ForgetWifi
<1>5. DOMAIN req' = DOMAIN req => ReqFields \subseteq DOMAIN req'
  OBVIOUS
<1>6. CASE ListNetworks \/ RemoveNetwork \/ ForgetListed \/ ForgetRemoved
  BY <1>5, <1>6, Zenon DEF ListNetworks, RemoveNetwork, RemoveOrAdd, ForgetListed, ForgetRemoved, RemoveOrSave
<1>7. CASE StartConnect \/ AddNetwork \/ SetNetwork \/ Associated
  BY <1>5, <1>7, Zenon DEF StartConnect, AddNetwork, SetNetwork, Associated
<1>8. CASE SetSecret \/ SaveProfile \/ EnableNetwork \/ SelectNetwork \/ AwaitAssociation \/ Disconnected
           \/ DeleteProfile \/ ForgetSecrets
  BY <1>1, <1>2, <1>5, <1>8, Zenon
     DEF SetSecret, SaveProfile, EnableNetwork, SelectNetwork, AwaitAssociation, Disconnected,
         DeleteProfile, ForgetSecrets, Return
<1>9. CASE Crash \/ ConnectFails \/ StartConnectFails \/ Touch \/ DeleteSecrets \/ ForgetProfile
  BY <1>2, <1>9, Zenon DEF Crash, WifiRestart, ConnectFails, StartConnectFails, Touch, DeleteSecrets,
     ForgetProfile, Return
<1>10. CASE WifiManager
  BY <1>6, <1>7, <1>8, <1>9, <1>10
     DEF WifiManager, AddNetworkFails, SetNetworkFails, EnableOrSelectFails, AwaitAssociationFails,
         AssociatedInVain
<1>11. CASE Supplicant \/ (\E cfg \in Configs : SetProxyConfig(cfg)) \/ UNCHANGED vars
  BY <1>1, <1>11 DEF Supplicant, Serve, Associate, SetProxyConfig, vars, wifiVars
<1> QED BY <1>4, <1>9, <1>10, <1>11 DEF Next, WifiNext

\* All of it.
LEMMA ShapesKept == Shapes /\ [Next]_vars => Shapes'
BY SocketSteps, NetsKept, RequestsKept, RepliesKept, ReqKept DEF Shapes

\* How the manager's own requests move: one more is sent, at the end; the
\* others move up when wpa_supplicant serves one.
LEMMA OwnSent ==
  ASSUME Shapes, NEW c, c.own, Send(c)
  PROVE  /\ Own' = Own \cup {Len(inq) + 1} /\ Len(inq') = Len(inq) + 1 /\ Len(inq) \in Nat
         /\ inq'[Len(inq) + 1] = c /\ Len(inq) + 1 \notin Own
         /\ \A i \in Own : inq'[i] = inq[i]
<1>1. /\ IsSeq(inq') /\ Len(inq') = Len(inq) + 1 /\ inq'[Len(inq) + 1] = c
      /\ \A i \in 1..Len(inq) : inq'[i] = inq[i]
  BY AppendFacts DEF Shapes, InShapes, Send
<1>2. Len(inq) \in Nat /\ DOMAIN inq = 1..Len(inq) /\ DOMAIN inq' = 1..(Len(inq) + 1)
  BY <1>1, SeqFacts DEF Shapes, InShapes
<1>3. Len(inq) + 1 \notin Own /\ \A i \in Own : i \in 1..Len(inq)
  BY <1>2 DEF Own
<1>4. \A i \in 1..Len(inq) : i \in Own' <=> i \in Own
  BY <1>1, <1>2 DEF Own
<1>5. Len(inq) + 1 \in Own'
  BY <1>1, <1>2 DEF Own
<1>6. \A i \in Own' : i \in 1..(Len(inq) + 1)
  BY <1>2 DEF Own
<1>7. \A i : i \in Own' <=> i \in Own \cup {Len(inq) + 1}
  <2> TAKE i
  <2>1. CASE i \in 1..Len(inq)
    BY <1>2, <1>4, <2>1
  <2>2. CASE i \notin 1..Len(inq)
    BY <1>2, <1>3, <1>5, <1>6, <2>2
  <2> QED BY <2>1, <2>2
<1> QED BY <1>1, <1>2, <1>3, <1>7

LEMMA OwnMove ==
  ASSUME Shapes, inq # <<>>, inq' = Tail(inq)
  PROVE  /\ Len(inq') = Len(inq) - 1 /\ Len(inq) \in Nat \ {0} /\ Head(inq) = inq[1]
         /\ 1 \in DOMAIN inq /\ Own \subseteq 1..Len(inq)
         /\ \A i \in Own' : i \in 1..(Len(inq) - 1) /\ i + 1 \in Own /\ inq'[i] = inq[i + 1]
         /\ \A i \in Own : i # 1 => i - 1 \in Own'
<1>1. /\ IsSeq(inq') /\ Len(inq') = Len(inq) - 1 /\ Len(inq) \in Nat \ {0} /\ Head(inq) = inq[1]
      /\ \A i \in 1..(Len(inq) - 1) : inq'[i] = inq[i + 1]
  BY TailFacts DEF Shapes, InShapes
<1>2. DOMAIN inq = 1..Len(inq) /\ DOMAIN inq' = 1..(Len(inq) - 1)
  BY <1>1, SeqFacts DEF Shapes, InShapes
<1>3. ASSUME NEW i \in Own' PROVE i \in 1..(Len(inq) - 1) /\ i + 1 \in Own /\ inq'[i] = inq[i + 1]
  BY <1>1, <1>2 DEF Own
<1>4. ASSUME NEW i \in Own, i # 1 PROVE i - 1 \in Own'
  <2>1. i \in 1..Len(inq) /\ i - 1 \in 1..(Len(inq) - 1)
    BY <1>1, <1>2, <1>4 DEF Own
  <2>2. inq'[i - 1] = inq[i]
    BY <1>1, <2>1
  <2> QED BY <1>2, <2>1, <2>2 DEF Own
<1>5. 1 \in DOMAIN inq /\ Own \subseteq 1..Len(inq)
  BY <1>1, <1>2 DEF Own
<1> QED BY <1>1, <1>3, <1>4, <1>5

\* The first reply arrives.
LEMMA FirstReply ==
  ASSUME NEW r, outq' = Append(<<>>, r)
  PROVE  IsSeq(outq') /\ Len(outq') = 1 /\ outq'[1] = r
<1>1. outq' = <<r>> /\ <<r>> \in Seq({r})
  OBVIOUS
<1>2. Len(outq') = 1 /\ outq'[1] = r
  BY <1>1
<1>3. IsSeq(<<r>>)
  BY <1>1, Zenon DEF IsSeq
<1> QED BY <1>1, <1>2, <1>3

\* wpa_supplicant serves the one request there is.
LEMMA ServeWaiting ==
  ASSUME Shapes, Serve, NEW c, c.own, Waiting(c)
  PROVE  Answered' /\ outq'[1] = ReplyTo(c) /\ nets' = NetsAfter(c) /\ selected' = SelectedAfter(c)
<1>1. Head(inq) = c /\ Tail(inq) = <<>> /\ outq = <<>>
  BY DEF Waiting
<1>2. inq' = <<>> /\ outq' = Append(<<>>, ReplyTo(c)) /\ nets' = NetsAfter(c) /\ selected' = SelectedAfter(c)
  BY <1>1 DEF Serve
<1>3. Len(outq') = 1 /\ outq'[1] = ReplyTo(c)
  BY <1>2, FirstReply
<1> QED BY <1>2, <1>3 DEF Answered

\* With the reply in the socket and nothing asked it serves nothing.
LEMMA ServeNothing == Answered => ~Serve
BY DEF Answered, Serve

\* The next request is sent when the reply is taken.
LEMMA NextRequest ==
  ASSUME Shapes, Answered, outq' = Tail(outq), NEW c, Send(c)
  PROVE  Waiting(c)'
<1>1. outq # <<>>
  BY DEF Answered
<1>2. IsSeq(outq') /\ Len(outq') = 0
  BY <1>1, TailFacts DEF Answered, Shapes
<1>3. outq' = <<>>
  BY <1>2, SeqFacts, Zenon
<1>4. inq' = <<c>>
  BY DEF Answered, Send
<1> QED BY <1>3, <1>4 DEF Waiting

\* A late reply stays late.
LEMMA LateSend ==
  ASSUME Shapes, Late, NEW c, c.own, Send(c), outq' = outq \/ (outq # <<>> /\ outq' = Tail(outq))
  PROVE  Late'
<1>1. /\ Own' = Own \cup {Len(inq) + 1} /\ Len(inq) + 1 \notin Own
  BY OwnSent
<1>2. CASE Own # {}
  <2>1. PICK i \in Own : i # Len(inq) + 1
    BY <1>1, <1>2
  <2>2. i \in Own' /\ Len(inq) + 1 \in Own'
    BY <1>1, <2>1
  <2> QED BY <2>1, <2>2 DEF Late
<1>3. CASE Own = {}
  <2>1. Len(outq) >= 2
    BY <1>3 DEF Late
  <2>2. outq # <<>>
    BY <2>1
  <2>3. CASE outq' = Tail(outq)
    <3>1. IsSeq(outq') /\ Len(outq') = Len(outq) - 1 /\ Len(outq) \in Nat
      BY <2>2, <2>3, TailFacts DEF Shapes
    <3>2. Len(outq') # 0
      BY <2>1, <3>1
    <3>3. outq' # <<>>
      BY <3>1, <3>2, SeqFacts
    <3> QED BY <1>1, <3>3 DEF Late
  <2> QED BY <1>1, <2>2, <2>3 DEF Late
<1> QED BY <1>2, <1>3

LEMMA LateServe ==
  ASSUME Shapes, Late, Serve
  PROVE  Late'
<1>1. /\ inq # <<>> /\ inq' = Tail(inq)
      /\ outq' = IF Head(inq).own THEN Append(outq, ReplyTo(Head(inq))) ELSE outq
  BY DEF Serve
<1>2. /\ Head(inq) = inq[1] /\ 1 \in DOMAIN inq
      /\ \A i \in Own : i # 1 => i - 1 \in Own'
      /\ Own \subseteq Nat
  BY <1>1, OwnMove
<1>3. 1 \in Own <=> Head(inq).own
  BY <1>2 DEF Own
<1>4. CASE 1 \in Own
  <2>1. outq' = Append(outq, ReplyTo(Head(inq)))
    BY <1>1, <1>3, <1>4
  <2>2. Len(outq') = Len(outq) + 1 /\ IsSeq(outq') /\ Len(outq) \in Nat
    BY <2>1, AppendFacts, SeqFacts DEF Shapes
  <2>3. outq' # <<>>
    BY <2>2, SeqFacts
  <2>4. CASE outq # <<>>
    <3>1. Len(outq) # 0
      BY <2>4, SeqFacts DEF Shapes
    <3> QED BY <2>2, <3>1 DEF Late
  <2>5. CASE outq = <<>>
    <3>1. PICK i \in Own : i # 1
      BY <2>5 DEF Late
    <3>2. i - 1 \in Own'
      BY <1>2, <3>1
    <3> QED BY <2>3, <3>2 DEF Late
  <2> QED BY <2>4, <2>5
<1>5. CASE 1 \notin Own
  <2>1. outq' = outq
    BY <1>1, <1>3, <1>5
  <2>2. \A i \in Own : i - 1 \in Own'
    BY <1>2, <1>5
  <2>3. ASSUME NEW i \in Own, NEW j \in Own, i # j PROVE Late'
    <3>1. i - 1 \in Own' /\ j - 1 \in Own' /\ i - 1 # j - 1
      BY <1>2, <2>2, <2>3
    <3> QED BY <3>1 DEF Late
  <2>4. Own # {} => Own' # {}
    BY <2>2
  <2> QED BY <2>1, <2>3, <2>4 DEF Late
<1> QED BY <1>4, <1>5

\* The start of wifi::connect (activate_profile).
LEMMA ConnectStart ==
  ASSUME Shapes, WifiInv, StartConnect
  PROVE  pc' = "list" /\ Stored' /\ Listing'
<1>1. /\ pc = "activate" /\ pc' = "list" /\ UNCHANGED <<memory, secret>> /\ outq' = <<>>
      /\ req' = [req EXCEPT !.kind = memory[req.ssid],
                            !.key = IF memory[req.ssid] = "open" THEN None ELSE secret[req.ssid]]
      /\ inq' = Append(LeftBehind, Cmd("LIST", 0))
  BY DEF StartConnect, OpenSocket, store
<1>2. Stored'
  <2>1. req.ssid \in Ssids
    BY <1>1 DEF WifiInv
  <2>2. /\ req'.ssid = req.ssid /\ req'.kind = memory[req.ssid]
        /\ req'.key = IF memory[req.ssid] = "open" THEN None ELSE secret[req.ssid]
    BY <1>1 DEF Shapes, ReqFields
  <2> QED BY <1>1, <2>1, <2>2 DEF Stored
<1>3. /\ IsSeq(LeftBehind) /\ Len(LeftBehind) = Len(inq) /\ Len(inq) \in Nat /\ DOMAIN inq = 1..Len(inq)
      /\ \A i \in DOMAIN inq : ~LeftBehind[i].own
  BY BehindFacts, SeqFacts DEF Shapes, InShapes
<1>4. /\ IsSeq(inq') /\ Len(inq') = Len(inq) + 1 /\ inq'[Len(inq) + 1] = Cmd("LIST", 0)
      /\ \A i \in 1..Len(inq) : inq'[i] = LeftBehind[i]
  BY <1>1, <1>3, AppendFacts
<1>5. DOMAIN inq' = 1..(Len(inq) + 1)
  BY <1>4, SeqFacts
<1>6. inq'[Len(inq')].own /\ inq'[Len(inq')].cmd = "LIST"
  BY <1>4, CmdShape
<1>7. Own' = {Len(inq')}
  <2>1. \A i \in DOMAIN inq' : inq'[i].own <=> i = Len(inq) + 1
    BY <1>3, <1>4, <1>5, <1>6
  <2> QED BY <1>3, <1>4, <1>5, <2>1 DEF Own
<1>8. NoAdd'
  BY <1>1, <1>6, <1>7 DEF NoAdd
<1> QED BY <1>1, <1>2, <1>6, <1>7, <1>8 DEF Listing

\* What the next request is after LIST_NETWORKS or REMOVE_NETWORK, when all
\* replies came in time: ids are the networks of the ssid that are left.
LEMMA ConnectRemoves ==
  ASSUME Shapes, Stored, NEW ids, Answered, Has \subseteq ids, outq' = Tail(outq), RemoveOrAdd(ids),
         UNCHANGED nets
  PROVE  \/ pc' = "add" /\ Adding'
         \/ pc' = "remove" /\ Removing'
<1>1. req'.ssid = req.ssid
  BY DEF RemoveOrAdd, Shapes, ReqFields
<1>2. Has' = Has
  BY <1>1 DEF Has
<1>3. ASSUME NEW c, Waiting(c)'
      PROVE  Own' \subseteq {1} /\ inq'[1] = c /\ Len(inq') = 1 /\ outq' = <<>>
  BY <1>3 DEF Waiting, Own
<1>4. CASE ids = {}
  <2>1. Waiting(Cmd("ADD", 0))' /\ pc' = "add"
    BY <1>4, NextRequest DEF RemoveOrAdd
  <2>2. AddLast'
    <3>1. Own' \subseteq {1} /\ Len(inq') = 1 /\ outq' = <<>>
      BY <1>3, <2>1
    <3>2. (\A i \in Own' : i = Len(inq')) /\ DOMAIN outq' = {}
      BY <3>1
    <3> QED BY <3>2 DEF AddLast
  <2> QED BY <1>2, <1>4, <2>1, <2>2 DEF Adding
<1>5. CASE ids # {}
  <2>1. PICK n \in ids : Send(Cmd("REMOVE", n)) /\ pc' = "remove" /\ req' = [req EXCEPT !.gone = ids \ {n}]
    BY <1>5 DEF RemoveOrAdd
  <2>2. Waiting(Cmd("REMOVE", n))' /\ req'.gone = ids \ {n}
    <3>1. req'.gone = ids \ {n}
      BY <2>1 DEF Shapes, ReqFields
    <3> QED BY <2>1, <3>1, NextRequest
  <2>3. Cmd("REMOVE", n).cmd = "REMOVE"
    BY CmdShape
  <2>4. NoAdd'
    BY <1>3, <2>2, <2>3 DEF NoAdd
  <2>5. Has' \subseteq req'.gone \cup {n}
    BY <1>2, <2>2
  <2> QED BY <2>1, <2>2, <2>4, <2>5 DEF Removing
<1> QED BY <1>4, <1>5

\* ... and when one came late, or none came.
LEMMA ConnectRemovesLate ==
  ASSUME Shapes, NEW ids, NoAdd, outq' = outq \/ (outq # <<>> /\ outq' = Tail(outq)), RemoveOrAdd(ids),
         Late \/ (outq = <<>> /\ Own # {})
  PROVE  \/ pc' = "add" /\ Adding'
         \/ pc' = "remove" /\ Removing'
<1>1. PICK c : /\ Send(c) /\ c.own
               /\ (c.cmd = "ADD" /\ pc' = "add") \/ (c.cmd = "REMOVE" /\ pc' = "remove")
  BY CmdShape DEF RemoveOrAdd
<1>2. /\ Own' = Own \cup {Len(inq) + 1} /\ Len(inq') = Len(inq) + 1 /\ Len(inq) + 1 \notin Own
      /\ inq'[Len(inq) + 1] = c /\ \A i \in Own : inq'[i] = inq[i]
  BY <1>1, OwnSent
<1>3. Late'
  <2>1. CASE Late
    BY <1>1, <2>1, LateSend
  <2>2. CASE Own # {}
    <3>1. PICK i \in Own : i # Len(inq) + 1
      BY <1>2, <2>2
    <3>2. i \in Own' /\ Len(inq) + 1 \in Own'
      BY <1>2, <3>1
    <3> QED BY <3>1, <3>2 DEF Late
  <2> QED BY <2>1, <2>2
<1>4. \A i \in DOMAIN outq' : outq'[i].id = 0
  <2>1. CASE outq # <<>> /\ outq' = Tail(outq)
    <3>1. /\ IsSeq(outq') /\ Len(outq') = Len(outq) - 1 /\ Len(outq) \in Nat \ {0}
          /\ \A i \in 1..(Len(outq) - 1) : outq'[i] = outq[i + 1]
      BY <2>1, TailFacts DEF Shapes
    <3>2. DOMAIN outq = 1..Len(outq) /\ DOMAIN outq' = 1..(Len(outq) - 1)
      BY <3>1, SeqFacts DEF Shapes
    <3>3. \A i \in 1..(Len(outq) - 1) : i + 1 \in DOMAIN outq
      BY <3>1, <3>2
    <3> QED BY <3>1, <3>2, <3>3 DEF NoAdd
  <2> QED BY <2>1 DEF NoAdd
<1>5. AddLast'
  BY <1>2, <1>4 DEF AddLast, NoAdd
<1>6. c.cmd = "REMOVE" => NoAdd'
  BY <1>2, <1>4 DEF NoAdd
<1> QED BY <1>1, <1>3, <1>5, <1>6 DEF Adding, Removing

\* ADD_NETWORK is sent once no network of the ssid is left, unless a reply
\* is late (wifi::connect).
LEMMA ConnectLists ==
  ASSUME Shapes, Stored, Listing, ListNetworks
  PROVE  \/ pc' = "add" /\ Adding'
         \/ pc' = "remove" /\ Removing'
<1>1. UNCHANGED nets
  BY DEF ListNetworks, supplicant
<1>2. CASE outq = <<>>
  <2>1. outq' = outq /\ RemoveOrAdd({})
    BY <1>2 DEF ListNetworks, Received
  <2>2. Own # {}
    BY <1>2 DEF Listing, Answered
  <2> QED BY <1>2, <2>1, <2>2, ConnectRemovesLate DEF Listing
<1>3. CASE outq # <<>>
  <2>1. Answered /\ outq[1].ids = Listed
    BY <1>3 DEF Listing
  <2>2. Reply = outq[1]
    BY <1>3, TailFacts DEF Reply, Received, Shapes
  <2>3. outq' = Tail(outq) /\ RemoveOrAdd({e[1] : e \in {x \in Listed : x[2] = req.ssid}})
    BY <1>3, <2>1, <2>2, ZenonT(30) DEF ListNetworks, Received
  <2>4. Has \subseteq {e[1] : e \in {x \in Listed : x[2] = req.ssid}}
    <3> SUFFICES ASSUME NEW n \in Has PROVE n \in {e[1] : e \in {x \in Listed : x[2] = req.ssid}}
      OBVIOUS
    <3>1. n \in DOMAIN nets /\ nets[n].ssid = req.ssid /\ nets[n].live
      BY SsidsAssumption DEF Has, Stored, Shapes, NetShapes
    <3>2. <<n, nets[n].ssid>> \in Listed
      BY <3>1 DEF Listed
    <3>3. PICK e \in Listed : e[1] = n /\ e[2] = req.ssid
      BY <3>1, <3>2
    <3> QED BY <3>3
  <2> QED BY <1>1, <2>1, <2>3, <2>4, ConnectRemoves
<1> QED BY <1>2, <1>3

LEMMA ConnectRemoved ==
  ASSUME Shapes, Stored, Removing, RemoveNetwork
  PROVE  \/ pc' = "add" /\ Adding'
         \/ pc' = "remove" /\ Removing'
<1>1. /\ UNCHANGED nets /\ RemoveOrAdd(req.gone)
      /\ (outq' = outq /\ outq = <<>>) \/ (outq # <<>> /\ outq' = Tail(outq))
  BY SMTT(30) DEF RemoveNetwork, supplicant, Received
<1>2. CASE Late
  BY <1>1, <1>2, ConnectRemovesLate DEF Removing
<1>3. CASE Answered /\ Has \subseteq req.gone
  <2>1. outq # <<>>
    BY <1>3 DEF Answered
  <2> QED BY <1>1, <1>3, <2>1, ConnectRemoves
<1>4. ASSUME NEW n, Waiting(Cmd("REMOVE", n)) PROVE outq = <<>> /\ Own # {}
  BY <1>4, CmdShape DEF Waiting, Own
<1> QED BY <1>1, <1>2, <1>3, <1>4, ConnectRemovesLate DEF Removing

\* wpa_supplicant serves while the manager waits for LIST_NETWORKS.
LEMMA ListServed ==
  ASSUME Shapes, Listing, Serve
  PROVE  Listing'
<1> DEFINE c == Head(inq)
<1>1. /\ inq # <<>> /\ inq' = Tail(inq) /\ nets' = NetsAfter(c)
      /\ outq' = IF c.own THEN Append(outq, ReplyTo(c)) ELSE outq
  BY DEF Serve
<1>2. outq = <<>> /\ Own = {Len(inq)} /\ inq[Len(inq)].cmd = "LIST"
  BY <1>1 DEF Listing, Answered
<1>3. /\ Len(inq') = Len(inq) - 1 /\ Len(inq) \in Nat \ {0} /\ c = inq[1] /\ 1 \in DOMAIN inq
      /\ \A i \in Own' : i \in 1..(Len(inq) - 1) /\ i + 1 \in Own /\ inq'[i] = inq[i + 1]
      /\ \A i \in Own : i # 1 => i - 1 \in Own'
  BY <1>1, OwnMove
<1>4. 1 \in Own <=> c.own
  BY <1>3 DEF Own
<1>5. CASE Len(inq) = 1
  <2>1. c.cmd = "LIST" /\ c.own
    BY <1>2, <1>3, <1>4, <1>5
  <2>2. nets' = nets
    BY <1>1, <2>1, Zenon DEF NetsAfter
  <2>3. Listed' = Listed
    BY <2>2 DEF Listed
  <2>4. ReplyTo(c).ids = Listed /\ ReplyTo(c).id = 0
    <3> HIDE DEF c
    <3> QED BY <2>1 DEF ReplyTo
  <2>5. outq' = Append(<<>>, ReplyTo(c))
    BY <1>1, <1>2, <2>1
  <2>6. IsSeq(outq') /\ Len(outq') = 1 /\ outq'[1] = ReplyTo(c)
    BY <2>5, FirstReply
  <2>7. IsSeq(inq') /\ Len(inq') = 0
    BY <1>1, <1>3, <1>5, TailFacts DEF Shapes, InShapes
  <2>8. inq' = <<>> /\ DOMAIN outq' = {1}
    BY <2>6, <2>7, SeqFacts
  <2>9. Own' = {}
    BY <2>8 DEF Own
  <2>10. NoAdd'
    BY <2>4, <2>6, <2>8, <2>9 DEF NoAdd
  <2>11. Answered' /\ outq'[1].ids = Listed'
    BY <2>3, <2>4, <2>6, <2>8 DEF Answered
  <2> QED BY <2>10, <2>11 DEF Listing
<1>6. CASE Len(inq) # 1
  <2>1. outq' = outq
    BY <1>1, <1>2, <1>3, <1>4, <1>6
  <2>2. Own' = {Len(inq')}
    BY <1>2, <1>3, <1>6
  <2>3. inq'[Len(inq')] = inq[Len(inq)]
    BY <1>2, <1>3, <2>2
  <2>4. NoAdd'
    BY <1>2, <2>1, <2>2, <2>3, SMTT(30) DEF NoAdd
  <2> QED BY <1>2, <2>1, <2>2, <2>3, <2>4 DEF Listing
<1> QED BY <1>5, <1>6

\* ... for REMOVE_NETWORK: the network is gone, if it was there.
LEMMA RemoveServed ==
  ASSUME Shapes, Stored, Removing, Serve
  PROVE  Removing'
<1> DEFINE c == Head(inq)
<1>1. /\ inq # <<>> /\ inq' = Tail(inq) /\ UNCHANGED req
      /\ outq' = IF c.own THEN Append(outq, ReplyTo(c)) ELSE outq
  BY DEF Serve
<1>2. /\ c = inq[1] /\ 1 \in DOMAIN inq
      /\ \A i \in Own' : i + 1 \in Own /\ inq'[i] = inq[i + 1]
  BY <1>1, OwnMove
<1>3. c.own => ReplyTo(c).id = 0
  <2>1. c.own => c.cmd # "ADD"
    BY <1>2 DEF Removing, NoAdd, Own
  <2> HIDE DEF c
  <2> QED BY <2>1 DEF ReplyTo
<1>4. NoAdd'
  <2>1. \A i \in Own' : inq'[i].cmd # "ADD"
    BY <1>2 DEF Removing, NoAdd
  <2>2. ASSUME c.own, NEW i \in DOMAIN outq' PROVE outq'[i].id = 0
    <3>1. /\ IsSeq(outq') /\ Len(outq') = Len(outq) + 1 /\ outq'[Len(outq) + 1] = ReplyTo(c)
          /\ \A k \in 1..Len(outq) : outq'[k] = outq[k]
      <4>1. outq' = Append(outq, ReplyTo(c)) /\ IsSeq(outq)
        BY <1>1, <2>2 DEF Shapes
      <4> QED BY <4>1, AppendFacts
    <3>2. Len(outq) \in Nat /\ DOMAIN outq = 1..Len(outq) /\ DOMAIN outq' = 1..(Len(outq) + 1)
      BY <3>1, SeqFacts DEF Shapes
    <3>3. i \in DOMAIN outq \/ i = Len(outq) + 1
      BY <3>2
    <3> QED BY <1>3, <2>2, <3>1, <3>2, <3>3 DEF Removing, NoAdd
  <2>3. ~c.own => \A i \in DOMAIN outq' : outq'[i].id = 0
    BY <1>1 DEF Removing, NoAdd
  <2> QED BY <2>1, <2>2, <2>3 DEF NoAdd
<1>5. CASE Late
  BY <1>4, <1>5, LateServe DEF Removing
<1>6. CASE Answered
  BY <1>6, ServeNothing
<1>7. ASSUME NEW n, Waiting(Cmd("REMOVE", n)), Has \subseteq req.gone \cup {n} PROVE Removing'
  <2>1. Cmd("REMOVE", n).cmd = "REMOVE" /\ Cmd("REMOVE", n).id = n /\ Cmd("REMOVE", n).own
    BY CmdShape
  <2>2. Answered' /\ nets' = NetsAfter(Cmd("REMOVE", n))
    BY <1>7, <2>1, ServeWaiting
  <2>3. nets' = IF Known(n) THEN [nets EXCEPT ![n] = Blank(FALSE)] ELSE nets
    BY <2>1, <2>2, Zenon DEF NetsAfter
  <2>4. req.ssid # None
    BY SsidsAssumption DEF Stored
  <2>5. Has' \subseteq Has \ {n}
    <3>1. CASE Known(n)
      <4>1. nets' = [nets EXCEPT ![n] = Blank(FALSE)] /\ n \in DOMAIN nets
        BY <2>3, <3>1 DEF Known
      <4>2. DOMAIN nets' = DOMAIN nets /\ nets'[n] = Blank(FALSE)
            /\ \A m \in DOMAIN nets \ {n} : nets'[m] = nets[m]
        BY <4>1
      <4>3. Blank(FALSE).ssid = None
        BY DEF Blank
      <4> QED BY <1>1, <2>4, <4>2, <4>3, Zenon DEF Has
    <3>2. CASE ~Known(n)
      <4>1. nets' = nets
        BY <2>3, <3>2
      <4>2. n \notin Has
        BY <2>4, <3>2, SMTT(30) DEF Has, Known, Shapes, NetShapes
      <4> QED BY <1>1, <4>1, <4>2 DEF Has
    <3> QED BY <3>1, <3>2
  <2> QED BY <1>1, <1>4, <1>7, <2>2, <2>5 DEF Removing
<1> QED BY <1>5, <1>6, <1>7 DEF Removing

\* ... for ADD_NETWORK: a network without ssid and key.
LEMMA AddServed ==
  ASSUME Shapes, Stored, Adding, Serve
  PROVE  Adding'
<1> DEFINE c == Head(inq)
<1>1. /\ inq # <<>> /\ inq' = Tail(inq) /\ UNCHANGED req
      /\ outq' = IF c.own THEN Append(outq, ReplyTo(c)) ELSE outq
  BY DEF Serve
<1>2. /\ c = inq[1] /\ 1 \in DOMAIN inq /\ Len(inq') = Len(inq) - 1 /\ Len(inq) \in Nat \ {0}
      /\ \A i \in Own' : i \in 1..(Len(inq) - 1) /\ i + 1 \in Own /\ inq'[i] = inq[i + 1]
  BY <1>1, OwnMove
<1>3. 1 \in Own <=> c.own
  BY <1>2 DEF Own
<1>4. AddLast'
  <2>1. ASSUME NEW i \in Own', inq'[i].cmd = "ADD" PROVE i = Len(inq')
    BY <1>2, <2>1 DEF Adding, AddLast
  <2>2. ASSUME c.own, NEW i \in DOMAIN outq', outq'[i].id # 0 PROVE i = Len(outq') /\ Own' = {}
    <3>1. /\ IsSeq(outq') /\ Len(outq') = Len(outq) + 1 /\ outq'[Len(outq) + 1] = ReplyTo(c)
          /\ \A k \in 1..Len(outq) : outq'[k] = outq[k]
      <4>1. outq' = Append(outq, ReplyTo(c)) /\ IsSeq(outq)
        BY <1>1, <2>2 DEF Shapes
      <4> QED BY <4>1, AppendFacts
    <3>2. Len(outq) \in Nat /\ DOMAIN outq = 1..Len(outq) /\ DOMAIN outq' = 1..(Len(outq) + 1)
      BY <3>1, SeqFacts DEF Shapes
    <3>3. i \notin DOMAIN outq
      BY <1>3, <2>2, <3>1, <3>2 DEF Adding, AddLast
    <3>4. i = Len(outq')
      BY <3>1, <3>2, <3>3
    <3>5. ReplyTo(c).id # 0
      BY <2>2, <3>1, <3>4
    <3>6. c.cmd = "ADD"
      <4> HIDE DEF c
      <4> QED BY <3>5 DEF ReplyTo
    <3>7. Len(inq) = 1
      BY <1>2, <1>3, <2>2, <3>6 DEF Adding, AddLast
    <3>8. Own' = {}
      BY <1>2, <3>7
    <3> QED BY <3>4, <3>8
  <2>3. ASSUME ~c.own, NEW i \in DOMAIN outq', outq'[i].id # 0 PROVE i = Len(outq') /\ Own' = {}
    BY <1>1, <1>2, <2>3 DEF Adding, AddLast
  <2> QED BY <2>1, <2>2, <2>3 DEF AddLast
<1>5. CASE Late
  BY <1>4, <1>5, LateServe DEF Adding
<1>6. CASE Answered
  BY <1>6, ServeNothing
<1>7. CASE Waiting(Cmd("ADD", 0)) /\ Has = {}
  <2>1. PICK d : d = Cmd("ADD", 0) /\ d.cmd = "ADD" /\ d.own
    BY CmdShape
  <2>2. Answered' /\ nets' = NetsAfter(d) /\ outq'[1] = ReplyTo(d)
    BY <1>7, <2>1, ServeWaiting
  <2>3. nets' = Append(nets, Blank(TRUE)) /\ outq'[1].id = NewId
    <3>1. NetsAfter(d) = Append(nets, Blank(TRUE))
      BY <2>1, Zenon DEF NetsAfter
    <3>2. ReplyTo(d).id = NewId
      BY <2>1 DEF ReplyTo
    <3> QED BY <2>2, <3>1, <3>2
  <2>4. /\ IsSeq(nets') /\ Len(nets') = Len(nets) + 1
        /\ \A i \in 1..Len(nets) : nets'[i] = nets[i]
        /\ nets'[Len(nets) + 1] = Blank(TRUE)
    <3>1. IsSeq(nets)
      BY Zenon DEF Shapes, NetShapes
    <3> QED BY <2>3, <3>1, AppendFacts, Zenon
  <2>5. /\ Len(nets) \in Nat /\ DOMAIN nets = 1..Len(nets) /\ DOMAIN nets' = 1..(Len(nets) + 1)
    BY <2>4, SeqFacts DEF Shapes, NetShapes
  <2>6. NewId = Len(nets) + 1
    BY DEF NewId
  <2>7. Blank(TRUE).live /\ Blank(TRUE).ssid = None /\ Blank(TRUE).key = None
    BY DEF Blank
  <2>8. Known(outq[1].id)' /\ nets'[outq'[1].id].key = None
    <3>1. outq'[1].id = Len(nets) + 1
      BY <2>3, <2>6
    <3>2. Len(nets) + 1 \in DOMAIN nets' /\ nets'[Len(nets) + 1] = Blank(TRUE)
      BY <2>4, <2>5
    <3>3. Known(outq[1].id)' <=> Len(nets) + 1 \in DOMAIN nets' /\ nets'[Len(nets) + 1].live
      BY <3>1 DEF Known
    <3> QED BY <2>7, <3>1, <3>2, <3>3, Zenon
  <2>9. req.ssid # None
    BY SsidsAssumption DEF Stored
  <2>10. Has' = {}
    <3> SUFFICES ASSUME NEW n \in Has' PROVE FALSE
      OBVIOUS
    <3>1. n \in DOMAIN nets' /\ nets'[n].ssid = req.ssid
      BY <1>1 DEF Has
    <3>2. n \in DOMAIN nets \/ n = Len(nets) + 1
      BY <2>5, <3>1
    <3>3. CASE n \in DOMAIN nets
      BY <1>7, <2>4, <2>5, <3>1, <3>3 DEF Has
    <3>4. CASE n = Len(nets) + 1
      BY <2>4, <2>7, <2>9, <3>1, <3>4, Zenon
    <3> QED BY <3>2, <3>3, <3>4
  <2> QED BY <1>4, <2>2, <2>8, <2>10 DEF Adding
<1> QED BY <1>5, <1>6, <1>7 DEF Adding

\* add_network succeeds: no reply was late, so the id is that of the network
\* just added, and no other has the ssid.
LEMMA NetworkAdded ==
  ASSUME Shapes, Stored, Adding, AddNetwork
  PROVE  pc' = "set" /\ Setting'
<1>1. /\ UNCHANGED nets /\ outq' = Tail(outq) /\ Reply.id # 0 /\ pc' = "set"
      /\ req' = [req EXCEPT !.id = Reply.id, !.fields = Fields(req.kind)]
      /\ Send(SetCmd(Reply.id, "ssid", req.ssid))
  BY DEF AddNetwork, supplicant
<1>2. outq # <<>> /\ Reply = outq[1]
  BY <1>1, Replied, TailFacts DEF Reply, Received, Shapes
<1>3. Len(outq) \in Nat /\ 1 \in DOMAIN outq
  BY <1>2, SeqFacts DEF Shapes
<1>4. Len(outq) = 1 /\ Own = {}
  BY <1>1, <1>2, <1>3, Zenon DEF Adding, AddLast
<1>5. ~Late
  BY <1>4 DEF Late
<1>6. ~Waiting(Cmd("ADD", 0))
  BY <1>2 DEF Waiting
<1>7. Answered /\ Has = {} /\ Known(Reply.id) /\ nets[Reply.id].key = None
  BY <1>2, <1>5, <1>6 DEF Adding
<1>8. PICK n, c : n = Reply.id /\ c = SetCmd(n, "ssid", req.ssid)
  OBVIOUS
<1>9. inq' = <<c>> /\ outq' = <<>>
  <2>1. Send(c)
    BY <1>1, <1>8
  <2>2. Waiting(c)'
    BY <1>1, <1>7, <2>1, NextRequest
  <2> QED BY <2>2 DEF Waiting
<1>10. req'.id = n /\ req'.fields = Fields(req.kind) /\ req'.ssid = req.ssid /\ req'.kind = req.kind
  BY <1>1, <1>8 DEF Shapes, ReqFields
<1>11. Fields(req.kind) \in Left(req.kind) /\ Head(Fields(req.kind)) = "ssid"
  BY DEF Fields, Left
<1>12. Head(req'.fields) = "ssid" /\ req'.fields \in Left(req'.kind)
  BY <1>10, <1>11
<1>13. Has' = {} /\ Known(req.id)' /\ nets'[req'.id].key = None
  BY <1>1, <1>7, <1>8, <1>10 DEF Has, Known
<1>14. c = SetCmd(req'.id, Head(req'.fields), IF Head(req'.fields) = "ssid" THEN req'.ssid ELSE req'.key)
  BY <1>8, <1>10, <1>12
<1> QED BY <1>1, <1>9, <1>12, <1>13, <1>14 DEF Setting, Waiting

\* What is left to set after the first of the fields.
LEMMA FieldsLeft ==
  ASSUME NEW kind, NEW fields \in Left(kind)
  PROVE  \/ /\ Tail(fields) = <<>>
            /\ Head(fields) \in {"psk", "password"} \/ kind = "open"
            /\ Head(fields) # "ssid"
         \/ /\ Tail(fields) # <<>> /\ Tail(fields) \in Left(kind)
            /\ Head(fields) \notin {"psk", "password"} /\ Head(Tail(fields)) # "ssid"
<1> DEFINE More(rest) == /\ Tail(fields) = rest /\ rest # <<>> /\ rest \in Left(kind)
                         /\ Head(fields) \notin {"psk", "password"} /\ Head(rest) # "ssid"
<1>1. CASE kind = "open"
  <2>1. Left(kind) = {<<"ssid", "key_mgmt">>, <<"key_mgmt">>}
    BY <1>1 DEF Left
  <2>2. CASE fields = <<"key_mgmt">>
    BY <1>1, <2>2
  <2>3. CASE fields = <<"ssid", "key_mgmt">>
    <3>1. More(<<"key_mgmt">>)
      BY <2>1, <2>3
    <3> QED BY <3>1, Zenon
  <2> QED BY <2>1, <2>2, <2>3
<1>2. CASE kind = "psk"
  <2>1. Left(kind) = {<<"ssid", "key_mgmt", "psk">>, <<"key_mgmt", "psk">>, <<"psk">>}
    BY <1>2 DEF Left
  <2>2. CASE fields = <<"psk">>
    BY <2>2
  <2>3. CASE fields = <<"key_mgmt", "psk">>
    <3>1. More(<<"psk">>)
      BY <2>1, <2>3
    <3> QED BY <3>1, Zenon
  <2>4. CASE fields = <<"ssid", "key_mgmt", "psk">>
    <3>1. More(<<"key_mgmt", "psk">>)
      BY <2>1, <2>4
    <3> QED BY <3>1, Zenon
  <2> QED BY <2>1, <2>2, <2>3, <2>4
<1>3. CASE kind \notin {"open", "psk"}
  <2>1. Left(kind) = {<<"ssid", "key_mgmt", "identity", "password">>,
                      <<"key_mgmt", "identity", "password">>, <<"identity", "password">>, <<"password">>}
    BY <1>3 DEF Left
  <2>2. CASE fields = <<"password">>
    BY <2>2
  <2>3. CASE fields = <<"identity", "password">>
    <3>1. More(<<"password">>)
      BY <2>1, <2>3
    <3> QED BY <3>1, Zenon
  <2>4. CASE fields = <<"key_mgmt", "identity", "password">>
    <3>1. More(<<"identity", "password">>)
      BY <2>1, <2>4
    <3> QED BY <3>1, Zenon
  <2>5. CASE fields = <<"ssid", "key_mgmt", "identity", "password">>
    <3>1. More(<<"key_mgmt", "identity", "password">>)
      BY <2>1, <2>5
    <3> QED BY <3>1, Zenon
  <2> QED BY <2>1, <2>2, <2>3, <2>4, <2>5
<1> QED BY <1>1, <1>2, <1>3

\* SET_NETWORK was answered: on with the next field, or ENABLE_NETWORK.
LEMMA FieldSet ==
  ASSUME Shapes, Stored, Setting, SetNetwork
  PROVE  \/ pc' = "set" /\ Setting'
         \/ pc' = "enable" /\ Enabling'
<1>1. UNCHANGED nets /\ outq' = Tail(outq) /\ outq # <<>>
  BY Replied DEF SetNetwork, supplicant
<1>2. /\ Answered /\ Has = {req.id} /\ Known(req.id) /\ req.fields \in Left(req.kind)
      /\ nets[req.id].key = IF Head(req.fields) \in {"psk", "password"} THEN req.key ELSE None
  BY <1>1 DEF Setting, Waiting
<1>3. PICK n, rest : n = req.id /\ rest = Tail(req.fields)
  BY Zenon
<1>4. CASE rest = <<>>
  <2>1. pc' = "enable" /\ req' = [req EXCEPT !.fields = <<>>] /\ Send(Cmd("ENABLE", n))
    BY <1>3, <1>4 DEF SetNetwork
  <2>2. req'.id = n /\ req'.ssid = req.ssid /\ req'.key = req.key
    BY <1>3, <2>1 DEF Shapes, ReqFields
  <2>3. Head(req.fields) \in {"psk", "password"} \/ req.kind = "open"
    BY <1>2, <1>3, <1>4, FieldsLeft, Zenon
  <2>4. nets[req.id].key = req.key
    BY <1>2, <2>3 DEF Stored
  <2>5. Configured'
    BY <1>1, <1>2, <1>3, <2>2, <2>4 DEF Configured, Has, Known
  <2>6. Waiting(Cmd("ENABLE", n))'
    BY <1>1, <1>2, <2>1, NextRequest
  <2>7. Waiting(Cmd("ENABLE", req.id))'
    BY <2>2, <2>6 DEF Waiting
  <2> QED BY <2>1, <2>5, <2>7 DEF Enabling
<1>5. CASE rest # <<>>
  <2>1. PICK c : c = SetCmd(n, Head(rest), req.key)
    OBVIOUS
  <2>2. pc' = "set" /\ req' = [req EXCEPT !.fields = rest] /\ Send(c)
    BY <1>3, <1>5, <2>1 DEF SetNetwork
  <2>3. /\ req'.id = n /\ req'.ssid = req.ssid /\ req'.key = req.key /\ req'.kind = req.kind
        /\ req'.fields = rest
    BY <1>3, <2>2 DEF Shapes, ReqFields
  <2>4. rest \in Left(req.kind) /\ Head(req.fields) \notin {"psk", "password"} /\ Head(rest) # "ssid"
    BY <1>2, <1>3, <1>5, FieldsLeft, Zenon
  <2>5. Waiting(c)'
    BY <1>1, <1>2, <2>2, NextRequest
  <2>6. c = SetCmd(req'.id, Head(req'.fields), IF Head(req'.fields) = "ssid" THEN req'.ssid ELSE req'.key)
    BY <2>1, <2>3, <2>4
  <2>7. Has' = {req'.id} /\ Known(req.id)' /\ nets'[req'.id].key = None
    BY <1>1, <1>2, <1>3, <2>3, <2>4 DEF Has, Known
  <2> QED BY <2>2, <2>3, <2>4, <2>5, <2>6, <2>7 DEF Setting, Waiting
<1> QED BY <1>4, <1>5

\* ENABLE_NETWORK, SELECT_NETWORK and STATUS were answered.
LEMMA NetworkEnabled ==
  ASSUME Shapes, Enabling, EnableNetwork
  PROVE  pc' = "select" /\ Selecting'
<1>1. UNCHANGED <<nets, req>> /\ outq' = Tail(outq) /\ outq # <<>> /\ pc' = "select"
  BY Replied DEF EnableNetwork, supplicant
<1>2. PICK n : n = req.id /\ Send(Cmd("SELECT", n))
  BY DEF EnableNetwork
<1>3. Waiting(Cmd("SELECT", n))'
  BY <1>1, <1>2, NextRequest DEF Enabling, Waiting
<1>4. Waiting(Cmd("SELECT", req.id))'
  BY <1>1, <1>2, <1>3 DEF Waiting
<1>5. Configured'
  BY <1>1 DEF Enabling, Configured, Has, Known
<1> QED BY <1>1, <1>4, <1>5 DEF Selecting

LEMMA StatusAsked ==
  ASSUME Shapes, \/ Selecting /\ SelectNetwork
                 \/ Associating /\ pc = "status" /\ AwaitAssociation
  PROVE  pc' = "status" /\ Associating'
<1>1. /\ UNCHANGED <<nets, selected, req>> /\ outq' = Tail(outq) /\ outq # <<>> /\ pc' = "status"
      /\ Send(Cmd("STATUS", 0))
  BY Replied DEF SelectNetwork, AwaitAssociation, Received, supplicant
<1>2. Answered /\ Configured /\ selected = req.id
  BY <1>1 DEF Selecting, Associating, Waiting
<1>3. Waiting(Cmd("STATUS", 0))'
  BY <1>1, <1>2, NextRequest
<1>4. Configured'
  BY <1>1, <1>2 DEF Configured, Has, Known
<1> QED BY <1>1, <1>2, <1>3, <1>4 DEF Associating

\* SET_NETWORK is served.
LEMMA SetServed ==
  ASSUME Shapes, Stored, Setting, Serve
  PROVE  Setting'
<1> DEFINE f == Head(req.fields)
<1>1. PICK c, n : n = req.id /\ c = SetCmd(n, f, IF f = "ssid" THEN req.ssid ELSE req.key)
  BY SMTT(30)
<1>2. /\ Waiting(c) /\ Has = (IF f = "ssid" THEN {} ELSE {n}) /\ nets[n].key = None
      /\ n \in DOMAIN nets /\ nets[n].live /\ req.fields \in Left(req.kind)
  BY <1>1, ServeNothing, SMTT(30) DEF Setting, Known
<1>3. /\ c.cmd = "SET" /\ c.id = n /\ c.own /\ c.field = f
      /\ c.value = IF f = "ssid" THEN req.ssid ELSE req.key
  BY <1>1, CmdShape
<1>4. Answered' /\ outq'[1] = ReplyTo(c) /\ nets' = NetsAfter(c) /\ req' = req
  BY <1>2, <1>3, ServeWaiting, ZenonT(30) DEF Serve
<1>5. outq'[1].cmd = "SET"
  BY <1>3, <1>4, SMTT(30) DEF ReplyTo
<1>6. NetFields \subseteq DOMAIN nets[n]
  BY <1>2, SMTT(30) DEF Shapes, NetShapes
<1> HIDE DEF f
<1>7. /\ DOMAIN nets' = DOMAIN nets
      /\ \A m \in DOMAIN nets \ {n} : nets'[m] = nets[m]
      /\ nets'[n].live
      /\ nets'[n].ssid = IF f = "ssid" THEN req.ssid ELSE nets[n].ssid
      /\ nets'[n].key = IF f \in {"psk", "password"} THEN req.key ELSE nets[n].key
  <2>1. CASE f = "ssid"
    <3>1. nets' = [nets EXCEPT ![n].ssid = req.ssid]
      BY <1>2, <1>3, <1>4, <2>1 DEF NetsAfter, Known
    <3> QED BY <1>2, <1>6, <2>1, <3>1 DEF NetFields
  <2>2. CASE f \in {"psk", "password"}
    <3>1. nets' = [nets EXCEPT ![n].key = req.key]
      BY <1>2, <1>3, <1>4, <2>2, Zenon DEF NetsAfter, Known
    <3> QED BY <1>2, <1>6, <2>2, <3>1 DEF NetFields
  <2>3. CASE f \notin {"ssid", "psk", "password"}
    <3>1. nets' = nets
      BY <1>3, <1>4, <2>3 DEF NetsAfter
    <3> QED BY <1>2, <2>3, <3>1, SMTT(30)
  <2> QED BY <2>1, <2>2, <2>3
<1>8. Has' = {n}
  <2>1. CASE f = "ssid"
    BY <1>2, <1>4, <1>7, <2>1 DEF Has
  <2>2. CASE f # "ssid"
    BY <1>2, <1>4, <1>7, <2>2, SMTT(30) DEF Has
  <2> QED BY <2>1, <2>2
<1>9. Known(req.id)' /\ nets'[req'.id].key = IF f \in {"psk", "password"} THEN req'.key ELSE None
  <2>1. req'.id = n /\ req'.key = req.key /\ n \in DOMAIN nets' /\ nets'[n].live
    BY <1>1, <1>2, <1>4, <1>7, Zenon
  <2>2. nets'[n].key = IF f \in {"psk", "password"} THEN req.key ELSE None
    BY <1>2, <1>7, Zenon
  <2> QED BY <2>1, <2>2, Zenon DEF Known
<1> QED BY <1>1, <1>2, <1>4, <1>5, <1>8, <1>9, Zenon DEF Setting, f

\* A request that changes no network is served.
LEMMA QuietServed ==
  ASSUME Shapes, Configured, Serve, NEW c, c.own, Waiting(c), c.cmd \in {"ENABLE", "SELECT", "STATUS"}
  PROVE  Answered' /\ Configured' /\ outq'[1].cmd = c.cmd /\ req' = req /\ selected' = SelectedAfter(c)
<1>1. /\ Answered' /\ outq'[1] = ReplyTo(c) /\ nets' = NetsAfter(c) /\ req' = req
      /\ selected' = SelectedAfter(c)
  BY ServeWaiting DEF Serve
<1>2. nets' = nets
  BY <1>1, Zenon DEF NetsAfter
<1>3. ReplyTo(c).cmd = c.cmd
  BY SMTT(30) DEF ReplyTo
<1>4. Configured'
  BY <1>1, <1>2, SMTT(30) DEF Configured, Has, Known
<1> QED BY <1>1, <1>3, <1>4

\* ENABLE_NETWORK, SELECT_NETWORK or STATUS is served.
LEMMA RestServed ==
  ASSUME Shapes, Serve
  PROVE  /\ Enabling => Enabling'
         /\ Selecting => Selecting'
         /\ Associating => Associating'
<1>1. ASSUME Enabling PROVE Enabling'
  <2>1. PICK c : c = Cmd("ENABLE", req.id) /\ c.cmd = "ENABLE" /\ c.own
    BY CmdShape
  <2>2. Waiting(c) /\ Configured
    BY <1>1, <2>1, ServeNothing DEF Enabling
  <2>3. Answered' /\ Configured' /\ outq'[1].cmd = "ENABLE"
    BY <2>1, <2>2, QuietServed
  <2> QED BY <2>3 DEF Enabling
<1>2. ASSUME Selecting PROVE Selecting'
  <2>1. PICK c : c = Cmd("SELECT", req.id) /\ c.cmd = "SELECT" /\ c.own /\ c.id = req.id
    BY CmdShape
  <2>2. Waiting(c) /\ Configured
    BY <1>2, <2>1, ServeNothing DEF Selecting
  <2>3. Answered' /\ Configured' /\ outq'[1].cmd = "SELECT" /\ req' = req /\ selected' = SelectedAfter(c)
    BY <2>1, <2>2, QuietServed
  <2>4. selected' = req.id
    BY <2>1, <2>2, <2>3 DEF SelectedAfter, Configured
  <2> QED BY <2>3, <2>4 DEF Selecting
<1>3. ASSUME Associating PROVE Associating'
  <2>1. PICK c : c = Cmd("STATUS", 0) /\ c.cmd = "STATUS" /\ c.own
    BY CmdShape
  <2>2. Waiting(c) /\ Configured /\ selected = req.id
    BY <1>3, <2>1, ServeNothing DEF Associating
  <2>3. Answered' /\ Configured' /\ outq'[1].cmd = "STATUS" /\ req' = req /\ selected' = SelectedAfter(c)
    BY <2>1, <2>2, QuietServed
  <2>4. selected' = selected
    BY <2>1, <2>3 DEF SelectedAfter
  <2> QED BY <2>2, <2>3, <2>4 DEF Associating
<1> QED BY <1>1, <1>2, <1>3

\* The request in hand stays what it is while wifi::connect goes on.
LEMMA StoredKept ==
  ASSUME Shapes, Stored, UNCHANGED <<memory, secret>>,
         \/ ListNetworks \/ RemoveNetwork \/ AddNetwork \/ SetNetwork \/ EnableNetwork \/ SelectNetwork
         \/ AwaitAssociation \/ Serve
  PROVE  Stored'
<1>1. req'.ssid = req.ssid /\ req'.kind = req.kind /\ req'.key = req.key
  <2>1. CASE ListNetworks \/ RemoveNetwork
    BY <2>1, Zenon DEF ListNetworks, RemoveNetwork, RemoveOrAdd, Shapes, ReqFields
  <2>2. CASE AddNetwork
    BY <2>2 DEF AddNetwork, Shapes, ReqFields
  <2>3. CASE SetNetwork
    BY <2>3, SMTT(30) DEF SetNetwork, Shapes, ReqFields
  <2>4. CASE EnableNetwork
    BY <2>4 DEF EnableNetwork
  <2>5. CASE SelectNetwork
    BY <2>5 DEF SelectNetwork
  <2>6. CASE AwaitAssociation
    BY <2>6 DEF AwaitAssociation
  <2>7. CASE Serve
    BY <2>7 DEF Serve
  <2> QED BY <2>1, <2>2, <2>3, <2>4, <2>5, <2>6, <2>7, Zenon
<1> QED BY <1>1 DEF Stored

\* A step that is not one of wifi::connect's or of wpa_supplicant's leaves
\* the manager elsewhere, or does not concern it.
LEMMA Elsewhere ==
  ASSUME [Next]_vars
  PROVE  \/ StartConnect \/ ListNetworks \/ RemoveNetwork \/ AddNetwork \/ SetNetwork
         \/ EnableNetwork \/ SelectNetwork \/ AwaitAssociation \/ Serve
         \/ pc' \notin Connecting
         \/ UNCHANGED <<pc, req, memory, secret, inq, outq, nets, selected>>
<1>1. CASE Crash
  BY <1>1 DEF Crash, WifiRestart, Return, Connecting, Configuring
<1>2. CASE WifiRequest
  BY <1>2, Zenon
     DEF WifiRequest, ConnectWifi, AddConnection, ActivateConnection, DeactivateConnection, Deactivate,
         DeleteConnection, ForgetWifi, Receive, Connecting, Configuring
<1>3. CASE WifiManager
  <2>1. CASE SetSecret \/ SaveProfile \/ StartConnectFails \/ ConnectFails \/ Associated \/ Touch
    BY <2>1 DEF SetSecret, SaveProfile, StartConnectFails, ConnectFails, Associated, Touch, Return,
       Connecting, Configuring
  <2>2. CASE Disconnected \/ DeleteProfile \/ DeleteSecrets \/ ForgetListed \/ ForgetRemoved
             \/ ForgetSecrets \/ ForgetProfile
    BY <2>2, Zenon DEF Disconnected, DeleteProfile, DeleteSecrets, ForgetListed, ForgetRemoved, RemoveOrSave,
       ForgetSecrets, ForgetProfile, Return, Connecting, Configuring
  <2> QED BY <1>3, <2>1, <2>2
          DEF WifiManager, AddNetworkFails, SetNetworkFails, EnableOrSelectFails, AwaitAssociationFails,
              AssociatedInVain
<1>4. CASE Associate \/ (\E cfg \in Configs : SetProxyConfig(cfg)) \/ UNCHANGED vars
  BY <1>4, SMTT(30) DEF Associate, SetProxyConfig, vars, wifiVars, store, supplicant
<1> QED BY <1>1, <1>2, <1>3, <1>4 DEF Next, WifiNext, Supplicant

\* One step of wifi::connect.
LEMMA ConnectStep ==
  ASSUME Shapes, ConnectInv,
         \/ ListNetworks \/ RemoveNetwork \/ AddNetwork \/ SetNetwork \/ EnableNetwork
         \/ SelectNetwork \/ AwaitAssociation
  PROVE  /\ Stored'
         /\ \/ pc' = "remove" /\ Removing'
            \/ pc' = "add" /\ Adding'
            \/ pc' = "set" /\ Setting'
            \/ pc' = "enable" /\ Enabling'
            \/ pc' = "select" /\ Selecting'
            \/ pc' = "status" /\ Associating'
<1>1. Stored /\ UNCHANGED <<memory, secret>>
  BY DEF ConnectInv, Connecting, Configuring, ListNetworks, RemoveNetwork, AddNetwork, SetNetwork,
         EnableNetwork, SelectNetwork, AwaitAssociation, store
<1>2. Stored'
  BY <1>1, StoredKept
<1>3. CASE ListNetworks
  BY <1>1, <1>2, <1>3, ConnectLists, Zenon DEF ConnectInv, ListNetworks
<1>4. CASE RemoveNetwork
  BY <1>1, <1>2, <1>4, ConnectRemoved DEF ConnectInv, RemoveNetwork
<1>5. CASE AddNetwork
  BY <1>1, <1>2, <1>5, NetworkAdded DEF ConnectInv, AddNetwork
<1>6. CASE SetNetwork
  BY <1>1, <1>2, <1>6, FieldSet DEF ConnectInv, SetNetwork
<1>7. CASE EnableNetwork
  BY <1>2, <1>7, NetworkEnabled DEF ConnectInv, EnableNetwork
<1>8. CASE SelectNetwork
  BY <1>2, <1>8, StatusAsked DEF ConnectInv, SelectNetwork
<1>9. CASE AwaitAssociation
  BY <1>2, <1>9, StatusAsked DEF ConnectInv, AwaitAssociation
<1> QED BY <1>3, <1>4, <1>5, <1>6, <1>7, <1>8, <1>9

\* wpa_supplicant serves a request while wifi::connect waits.
LEMMA ConnectServe ==
  ASSUME Shapes, ConnectInv, Shapes', Serve
  PROVE  ConnectInv'
<1>1. UNCHANGED <<pc, req, memory, secret>>
  BY DEF Serve, store
<1>2. pc \in Connecting => Stored /\ Stored'
  BY <1>1, StoredKept DEF ConnectInv
<1>3. pc = "list" => Listing'
  BY ListServed DEF ConnectInv
<1>4. pc = "remove" => Removing'
  BY <1>2, RemoveServed DEF ConnectInv, Connecting
<1>5. pc = "add" => Adding'
  BY <1>2, AddServed DEF ConnectInv, Connecting
<1>6. pc = "set" => Setting'
  BY <1>2, SetServed DEF ConnectInv, Connecting, Configuring
<1>7. /\ pc = "enable" => Enabling'
      /\ pc = "select" => Selecting'
      /\ pc = "status" => Associating'
  BY RestServed DEF ConnectInv
<1> QED BY <1>1, <1>2, <1>3, <1>4, <1>5, <1>6, <1>7 DEF ConnectInv

\* Every step of the daemon and of wpa_supplicant.
LEMMA ConnectInvNext == WifiInv /\ ConnectInv /\ [Next]_vars => ConnectInv'
<1> SUFFICES ASSUME WifiInv, ConnectInv, [Next]_vars PROVE ConnectInv'
  OBVIOUS
<1>1. Shapes /\ Shapes'
  BY ShapesKept DEF ConnectInv
<1>2. CASE StartConnect
  BY <1>1, <1>2, ConnectStart DEF ConnectInv
<1>3. CASE \/ ListNetworks \/ RemoveNetwork \/ AddNetwork \/ SetNetwork \/ EnableNetwork
           \/ SelectNetwork \/ AwaitAssociation
  BY <1>1, <1>3, ConnectStep DEF ConnectInv
<1>4. CASE Serve
  BY <1>1, <1>4, ConnectServe
<1>5. CASE pc' \notin Connecting
  BY <1>1, <1>5 DEF ConnectInv, Connecting, Configuring
<1>6. CASE UNCHANGED <<pc, req, memory, secret, inq, outq, nets, selected>>
  <2>1. Own' = Own /\ Has' = Has /\ Listed' = Listed
    BY <1>6, SMTT(30) DEF Own, Has, Listed
  <2>2. (Stored => Stored') /\ (Answered => Answered') /\ (Configured => Configured')
    BY <1>6, <2>1, SMTT(30) DEF Stored, Answered, Configured, Known
  <2>3. (Late => Late') /\ (NoAdd => NoAdd') /\ (AddLast => AddLast')
    BY <1>6, <2>1, SMTT(30) DEF Late, NoAdd, AddLast
  <2>4. (Listing => Listing') /\ (Removing => Removing')
    BY <1>6, <2>1, <2>2, <2>3 DEF Listing, Removing, Waiting
  <2>5. (Adding => Adding') /\ (Setting => Setting')
    BY <1>6, <2>1, <2>2, <2>3, Zenon DEF Adding, Setting, Waiting, Known
  <2>6. (Enabling => Enabling') /\ (Selecting => Selecting') /\ (Associating => Associating')
    BY <1>6, <2>2, Zenon DEF Enabling, Selecting, Associating, Waiting
  <2> QED BY <1>1, <1>6, <2>2, <2>4, <2>5, <2>6 DEF ConnectInv
<1> QED BY <1>2, <1>3, <1>4, <1>5, <1>6, Elsewhere

\* It holds when the daemon is first started.
LEMMA ConnectInvInit == Init => ConnectInv
<1> SUFFICES ASSUME Init PROVE ConnectInv
  OBVIOUS
<1>1. pc = "idle" /\ req = NoReq /\ inq = <<>> /\ outq = <<>> /\ nets = <<>>
  BY DEF Init, WifiInit
<1>2. IsSeq(<<>>)
  BY SMTT(30) DEF IsSeq
<1>3. Shapes
  BY <1>1, <1>2 DEF Shapes, InShapes, NetShapes, NoReq, ReqFields
<1> QED BY <1>1, <1>3 DEF ConnectInv, Connecting, Configuring

\* Together they are inductive.
LEMMA ConnectInvariant == Spec => [](WifiInv /\ ConnectInv)
BY WifiInvInit, WifiInvNext, ConnectInvInit, ConnectInvNext, PTL DEF Spec

\* The manager never takes a reply that came late for the one it waits for,
\* once ADD_NETWORK was answered (WpaCtrl::request, wifi::connect).
THEOREM RepliesAreMatched == Spec => []RepliesMatch
<1>1. ConnectInv => RepliesMatch
  <2> SUFFICES ASSUME ConnectInv, pc \in Configuring PROVE RepliesMatch
    BY DEF RepliesMatch, Configuring
  <2>1. ASSUME NEW c, c.own, Waiting(c)
        PROVE  /\ outq = <<>> /\ \E i \in DOMAIN inq : \A j \in DOMAIN inq : inq[j].own <=> j = i
               /\ DOMAIN outq = {}
    BY <2>1 DEF Waiting
  <2>2. Answered => /\ Len(outq) = 1 /\ \A i \in DOMAIN inq : ~inq[i].own
                    /\ DOMAIN outq = {1}
    BY SeqFacts DEF Answered, ConnectInv, Shapes
  <2>3. ASSUME NEW c, c.own, NEW what, Waiting(c) \/ (Answered /\ outq[1].cmd = what)
        PROVE  /\ \/ outq = <<>> /\ \E i \in DOMAIN inq : \A j \in DOMAIN inq : inq[j].own <=> j = i
                  \/ Len(outq) = 1 /\ \A i \in DOMAIN inq : ~inq[i].own
               /\ \A i \in DOMAIN outq : outq[i].cmd = what
    BY <2>1, <2>2, <2>3
  <2>4. CASE pc = "set"
    <3>1. PICK c : c.own /\ (Waiting(c) \/ (Answered /\ outq[1].cmd = "SET"))
      BY <2>4, CmdShape, Zenon DEF ConnectInv, Setting
    <3> QED BY <2>3, <2>4, <3>1, Zenon DEF RepliesMatch
  <2>5. CASE pc = "enable"
    <3>1. PICK c : c.own /\ (Waiting(c) \/ (Answered /\ outq[1].cmd = "ENABLE"))
      BY <2>5, CmdShape, Zenon DEF ConnectInv, Enabling
    <3> QED BY <2>3, <2>5, <3>1, Zenon DEF RepliesMatch
  <2>6. CASE pc = "select"
    <3>1. PICK c : c.own /\ (Waiting(c) \/ (Answered /\ outq[1].cmd = "SELECT"))
      BY <2>6, CmdShape, SMTT(30) DEF ConnectInv, Selecting
    <3> QED BY <2>3, <2>6, <3>1, Zenon DEF RepliesMatch
  <2>7. CASE pc = "status"
    <3>1. PICK c : c.own /\ (Waiting(c) \/ (Answered /\ outq[1].cmd = "STATUS"))
      BY <2>7, CmdShape, SMTT(30) DEF ConnectInv, Associating
    <3> QED BY <2>3, <2>7, <3>1, ZenonT(30) DEF RepliesMatch
  <2> QED BY <2>4, <2>5, <2>6, <2>7 DEF Configuring
<1> QED BY <1>1, ConnectInvariant, PTL

\* When wifi::connect succeeds, wpa_supplicant has one network of the ssid,
\* selected, with the key that is stored (wifi::connect, activate_profile).
THEOREM ConnectsAsStored == Spec => ConnectedAsStored
<1>1. ConnectInv /\ [Next]_vars =>
        [Associated =>
           /\ {n \in DOMAIN nets : nets[n].ssid = req.ssid} = {selected}
           /\ nets[selected].key = (IF memory[req.ssid] = "open" THEN None
                                    ELSE secret[req.ssid])]_wifiVars
  <2> SUFFICES ASSUME ConnectInv, Associated
               PROVE  /\ {n \in DOMAIN nets : nets[n].ssid = req.ssid} = {selected}
                      /\ nets[selected].key = (IF memory[req.ssid] = "open" THEN None
                                               ELSE secret[req.ssid])
    OBVIOUS
  <2>1. Stored /\ Associating
    BY DEF ConnectInv, Associated, Connecting, Configuring
  <2> QED BY <2>1 DEF Stored, Associating, Configured, Has
<1> QED BY <1>1, ConnectInvariant, PTL DEF Spec, ConnectedAsStored
=============================================================================
