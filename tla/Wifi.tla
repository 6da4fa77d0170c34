-------------------------------- MODULE Wifi --------------------------------
(***************************************************************************)
(* Wi-Fi profiles and their secrets, and the connection to wpa_supplicant  *)
(* that activates them: the ConnectWifi, ForgetWifi, ActivateConnection,   *)
(* DeactivateConnection and DeleteConnection handlers of                   *)
(* src/manager/manager.rs with src/persistence/profiles.rs,                *)
(* src/security/secrets.rs, src/wifi/wifi.rs and src/wifi/wpa.rs.          *)
(*                                                                         *)
(* The manager talks to wpa_supplicant over a datagram socket that each    *)
(* wifi:: function opens and closes.  A request has five seconds for its   *)
(* reply; the reply to one that ran out of time stays in the socket, and   *)
(* wpa_supplicant serves what was sent to it even when nobody waits.       *)
(***************************************************************************)
EXTENDS Integers, Sequences

CONSTANTS
  Ssids,        \* networks; the profile of ssid s has the id wifi-s
  Passphrases,
  ConnectKinds, \* security of the profiles ConnectWifi asks for
  AddKinds,     \* security of the profiles AddConnection brings
  Dotted,       \* <<s, t>> when the id of t continues the id of s by a dot
  MaxRequests,  \* bound: requests the manager serves
  MaxNets       \* bound: entries wpa_supplicant holds

None == "none"
\* Security of a profile; an Enterprise one ("eap") of ConnectWifi has no
\* identity ("eap without identity").
Kinds == {"open", "psk", "eap", "eap without identity"}

ASSUME KindsAssumption == ConnectKinds \subseteq Kinds /\ AddKinds \subseteq Kinds
\* An entry of wpa_supplicant that has no ssid yet is told from all others.
ASSUME SsidsAssumption == None \notin Ssids

VARIABLES
  pc,        \* where the manager thread is in a handler
  req,       \* the ssid the handler is about, and what it works with
  served,    \* requests served so far
  memory,    \* self.connections: ssid -> kind, or None
  disk,      \* profile file: ssid -> kind, "torn", or None
  secret,    \* psk file: ssid -> passphrase, or None
  tmp,       \* ssids with a temporary secret file
  device,    \* active_connection of the Wi-Fi device
  active,    \* self.active: the profile activated on the device
  inq,       \* requests wpa_supplicant has not served, own or left behind
  outq,      \* replies in the manager's socket
  nets,      \* wpa_supplicant's networks: id -> entry
  selected,  \* the network it was told to use
  assoc      \* the network it is associated with

wifiVars == <<pc, req, served, memory, disk, secret, tmp, device, active, inq,
              outq, nets, selected, assoc>>
store == <<memory, disk, secret, tmp>>
supplicant == <<nets, selected, assoc>>

NoReq == [ssid |-> None, kind |-> None, pass |-> None, key |-> None, id |-> 0,
          fields |-> <<>>, gone |-> {}]

WifiInit ==
  /\ pc = "idle" /\ req = NoReq /\ served = 0
  /\ memory = [s \in Ssids |-> None] /\ disk = [s \in Ssids |-> None]
  /\ secret = [s \in Ssids |-> None] /\ tmp = {}
  /\ device = None /\ active = None
  /\ inq = <<>> /\ outq = <<>>
  /\ nets = <<>> /\ selected = 0 /\ assoc = 0
-----------------------------------------------------------------------------
(* The control socket *)

Cmd(what, id) == [cmd |-> what, id |-> id, field |-> None, value |-> None, own |-> TRUE]
SetCmd(id, field, value) == [Cmd("SET", id) EXCEPT !.field = field, !.value = value]

\* sock.send
Send(c) == inq' = Append(inq, c)

\* The WpaCtrl is dropped: what it sent will be served, its replies are lost.
LeftBehind == [i \in DOMAIN inq |-> [inq[i] EXCEPT !.own = FALSE]]
CloseSocket == inq' = LeftBehind /\ outq' = <<>>

\* recv: the oldest reply in the socket, whichever request it answers, or
\* none within five seconds.
NoReply == [cmd |-> None, ok |-> FALSE, id |-> 0, ids |-> {}, ssid |-> None]
Received == outq # <<>>
Reply == IF Received THEN Head(outq) ELSE NoReply
Ok == Reply.ok

\* A new socket whose first request is c.
OpenSocket(c) == inq' = Append(LeftBehind, c) /\ outq' = <<>>

\* wpa_supplicant serves the oldest request (external): what becomes of its
\* networks, which one is selected, and what it replies.
NewId == Len(nets) + 1
Known(n) == n \in DOMAIN nets /\ nets[n].live
Blank(live) == [live |-> live, ssid |-> None, key |-> None]

NetsAfter(c) ==
  CASE c.cmd = "ADD" -> Append(nets, Blank(TRUE))
    [] c.cmd = "REMOVE" /\ Known(c.id) -> [nets EXCEPT ![c.id] = Blank(FALSE)]
    [] c.cmd = "SET" /\ Known(c.id) /\ c.field = "ssid" -> [nets EXCEPT ![c.id].ssid = c.value]
    [] c.cmd = "SET" /\ Known(c.id) /\ c.field \in {"psk", "password"} ->
         [nets EXCEPT ![c.id].key = c.value]
    [] OTHER -> nets

SelectedAfter(c) ==
  CASE c.cmd = "SELECT" /\ Known(c.id) -> c.id
    [] c.cmd = "REMOVE" /\ c.id = selected -> 0
    [] c.cmd = "DISCONNECT" -> 0
    [] OTHER -> selected

Listed == {<<n, nets[n].ssid>> : n \in {m \in DOMAIN nets : nets[m].live}}

ReplyTo(c) ==
  [cmd  |-> c.cmd,
   ok   |-> \/ c.cmd \in {"SET", "ENABLE", "SELECT", "REMOVE"} /\ Known(c.id)
            \/ c.cmd \in {"SAVE", "DISCONNECT"},
   id   |-> IF c.cmd = "ADD" THEN NewId ELSE 0,
   ids  |-> IF c.cmd = "LIST" THEN Listed ELSE {},
   ssid |-> IF c.cmd = "STATUS" /\ assoc # 0 THEN nets[assoc].ssid ELSE None]

Serve ==
  /\ inq # <<>>
  /\ LET c == Head(inq) IN
       /\ c.cmd = "ADD" => NewId <= MaxNets
       /\ inq' = Tail(inq)
       /\ outq' = IF c.own THEN Append(outq, ReplyTo(c)) ELSE outq
       /\ nets' = NetsAfter(c)
       /\ selected' = SelectedAfter(c)
       /\ assoc' = IF selected' = selected THEN assoc ELSE 0
  /\ UNCHANGED <<pc, req, served, store, device, active>>

\* The selected network is in range and its key is right (external).
Associate ==
  /\ selected # 0 /\ assoc = 0 /\ nets[selected].ssid # None
  /\ assoc' = selected
  /\ UNCHANGED <<pc, req, served, store, device, active, inq, outq, nets, selected>>
-----------------------------------------------------------------------------
(* The handlers: storing *)

Receive(r, at) ==
  /\ pc = "idle" /\ served < MaxRequests
  /\ served' = served + 1
  /\ req' = r /\ pc' = at

Return ==
  /\ pc' = "idle" /\ req' = NoReq

\* ConnectWifi with a passphrase: secrets.set writes the temporary file.
ConnectWifi(s, kind, pass) ==
  /\ Receive([NoReq EXCEPT !.ssid = s, !.kind = kind, !.pass = pass],
             IF pass = None THEN "save" ELSE "secret")
  /\ tmp' = IF pass = None THEN tmp ELSE tmp \cup {s}
  /\ UNCHANGED <<memory, disk, secret, device, active, inq, outq, supplicant>>

\* ... and renames it, or fails.
SetSecret ==
  /\ pc = "secret"
  /\ \/ /\ secret' = [secret EXCEPT ![req.ssid] = req.pass]
        /\ tmp' = tmp \ {req.ssid}
        /\ pc' = "save" /\ req' = [req EXCEPT !.pass = None]
     \/ Return /\ UNCHANGED <<secret, tmp>>
  /\ UNCHANGED <<served, memory, disk, device, active, inq, outq, supplicant>>

\* Faulty variant: only the list in memory is changed.
SaveInMemory ==
  /\ pc = "save"
  /\ memory' = [memory EXCEPT ![req.ssid] = req.kind]
  /\ pc' = "activate" /\ req' = req
  /\ UNCHANGED <<served, disk, secret, tmp, device, active, inq, outq, supplicant>>

\* profiles::save, atomically, and self.connections; or it fails.
SaveProfile ==
  /\ pc = "save"
  /\ \/ /\ disk' = [disk EXCEPT ![req.ssid] = req.kind]
        /\ memory' = [memory EXCEPT ![req.ssid] = req.kind]
        /\ pc' = "activate" /\ req' = req
     \/ Return /\ UNCHANGED <<memory, disk>>
  /\ UNCHANGED <<served, secret, tmp, device, active, inq, outq, supplicant>>

\* AddConnection with a profile for s.
AddConnection(s, kind) ==
  /\ pc = "idle" /\ served < MaxRequests
  /\ served' = served + 1
  /\ disk' = [disk EXCEPT ![s] = kind] /\ memory' = [memory EXCEPT ![s] = kind]
  /\ UNCHANGED <<pc, req, secret, tmp, device, active, inq, outq, supplicant>>
-----------------------------------------------------------------------------
(* The handlers: wifi::connect *)

ActivateConnection(s) ==
  /\ Receive([NoReq EXCEPT !.ssid = s], "activate")
  /\ UNCHANGED <<store, device, active, inq, outq, supplicant>>

\* activate_profile: the profile is known, the device is free, the secret is
\* read, and wifi::connect asks for the networks.
StartConnect ==
  /\ pc = "activate" /\ memory[req.ssid] # None /\ device = None
  /\ req' = [req EXCEPT !.kind = memory[req.ssid],
                        !.key = IF memory[req.ssid] = "open" THEN None
                                ELSE secret[req.ssid]]
  /\ OpenSocket(Cmd("LIST", 0))
  /\ pc' = "list"
  /\ UNCHANGED <<served, store, device, active, supplicant>>

StartConnectFails ==
  /\ pc = "activate" /\ (memory[req.ssid] = None \/ device # None)
  /\ Return
  /\ UNCHANGED <<served, store, device, active, inq, outq, supplicant>>

\* Faulty variant: nothing is removed.
AddOnly(ids) ==
  Send(Cmd("ADD", 0)) /\ pc' = "add" /\ req' = [req EXCEPT !.gone = {}]

\* The next network to remove, or ADD_NETWORK when there is none.
RemoveOrAdd(ids) ==
  IF ids = {} THEN /\ Send(Cmd("ADD", 0)) /\ pc' = "add" /\ req' = [req EXCEPT !.gone = {}]
  ELSE \E n \in ids : /\ Send(Cmd("REMOVE", n)) /\ pc' = "remove"
                      /\ req' = [req EXCEPT !.gone = ids \ {n}]

\* list_networks().unwrap_or_default(): a reply of another form, or none in
\* time, counts as an empty list.
ListNetworks ==
  /\ pc = "list"
  /\ IF Received
     THEN /\ outq' = Tail(outq)
          /\ RemoveOrAdd({e[1] : e \in {x \in Reply.ids : x[2] = req.ssid}})
     ELSE outq' = outq /\ RemoveOrAdd({})
  /\ UNCHANGED <<served, store, device, active, supplicant>>

\* let _ = remove_network(id)
RemoveNetwork ==
  /\ pc = "remove"
  /\ outq' = IF Received THEN Tail(outq) ELSE outq
  /\ RemoveOrAdd(req.gone)
  /\ UNCHANGED <<served, store, device, active, supplicant>>

\* What SET_NETWORK is sent, in order: configure_eap sets identity and
\* password (and paths that are treated alike), the others at most a psk.
Fields(kind) == CASE kind = "open" -> <<"ssid", "key_mgmt">>
                  [] kind = "psk" -> <<"ssid", "key_mgmt", "psk">>
                  [] OTHER -> <<"ssid", "key_mgmt", "identity", "password">>

\* `?` in wifi::connect: the socket is closed, activation has failed.
ConnectFails ==
  /\ CloseSocket /\ Return
  /\ UNCHANGED <<served, store, device, active, supplicant>>

\* Faulty variant: the reply is not looked at.
AddNetworkUnread ==
  /\ pc = "add" /\ Received
  /\ outq' = Tail(outq)
  /\ req' = [req EXCEPT !.id = NewId - 1, !.fields = Fields(req.kind)]
  /\ Send(SetCmd(NewId - 1, "ssid", req.ssid)) /\ pc' = "set"
  /\ UNCHANGED <<served, store, device, active, supplicant>>

\* add_network: the reply has to be a number, the id of the new network.
AddNetwork ==
  /\ pc = "add" /\ Reply.id # 0
  /\ outq' = Tail(outq)
  /\ req' = [req EXCEPT !.id = Reply.id, !.fields = Fields(req.kind)]
  /\ Send(SetCmd(Reply.id, "ssid", req.ssid)) /\ pc' = "set"
  /\ UNCHANGED <<served, store, device, active, supplicant>>

AddNetworkFails ==
  /\ pc = "add" /\ Reply.id = 0
  /\ ConnectFails

\* SET_NETWORK of the first of req.fields succeeded: the next field, which
\* needs a passphrase if it is one, or ENABLE_NETWORK.
SetNetwork ==
  /\ pc = "set" /\ Ok
  /\ outq' = Tail(outq)
  /\ LET rest == Tail(req.fields) IN
     IF rest = <<>>
     THEN Send(Cmd("ENABLE", req.id)) /\ pc' = "enable" /\ req' = [req EXCEPT !.fields = <<>>]
     ELSE /\ Head(rest) \in {"psk", "password"} => req.key # None
          /\ Head(rest) = "identity" => req.kind = "eap"
          /\ Send(SetCmd(req.id, Head(rest), req.key)) /\ pc' = "set"
          /\ req' = [req EXCEPT !.fields = rest]
  /\ UNCHANGED <<served, store, device, active, supplicant>>

\* It failed, or the next field is missing or is not valid.
SetNetworkFails ==
  /\ pc = "set"
  /\ \/ ~Ok
     \/ Len(req.fields) > 1 /\ req.fields[2] \in {"psk", "identity", "password"}
  /\ ConnectFails

EnableNetwork ==
  /\ pc = "enable" /\ Ok
  /\ outq' = Tail(outq)
  /\ Send(Cmd("SELECT", req.id)) /\ pc' = "select" /\ req' = req
  /\ UNCHANGED <<served, store, device, active, supplicant>>

SelectNetwork ==
  /\ pc = "select" /\ Ok
  /\ outq' = Tail(outq)
  /\ Send(Cmd("STATUS", 0)) /\ pc' = "status" /\ req' = req
  /\ UNCHANGED <<served, store, device, active, supplicant>>

EnableOrSelectFails ==
  /\ pc \in {"enable", "select"} /\ ~Ok
  /\ ConnectFails

\* wait_for_association: STATUS is asked until it shows the network.
AwaitAssociation ==
  /\ pc = "status" /\ Received /\ Reply.ssid # req.ssid
  /\ outq' = Tail(outq)
  /\ Send(Cmd("STATUS", 0))
  /\ UNCHANGED <<pc, req, served, store, device, active, supplicant>>

AwaitAssociationFails ==
  /\ pc = "status" /\ Reply.ssid # req.ssid
  /\ ConnectFails

\* It does: the rest of activate succeeds and profiles::touch truncates the
\* profile file; or the rest (addresses, DHCP, DNS) fails.
Associated ==
  /\ pc = "status" /\ Reply.ssid = req.ssid
  /\ CloseSocket
  /\ device' = req.ssid /\ active' = req.ssid
  /\ disk' = IF disk[req.ssid] = None THEN disk ELSE [disk EXCEPT ![req.ssid] = "torn"]
  /\ pc' = "touch" /\ req' = [req EXCEPT !.kind = disk[req.ssid]]
  /\ UNCHANGED <<served, memory, secret, tmp, supplicant>>

AssociatedInVain ==
  /\ pc = "status" /\ Reply.ssid = req.ssid
  /\ ConnectFails

\* touch writes the bytes back.
Touch ==
  /\ pc = "touch"
  /\ disk' = [disk EXCEPT ![req.ssid] = req.kind]
  /\ Return
  /\ UNCHANGED <<served, memory, secret, tmp, device, active, inq, outq, supplicant>>
-----------------------------------------------------------------------------
(* The handlers: deactivating and removing *)

\* deactivate_profile takes the entry out of self.active and asks
\* wpa_supplicant to disconnect.
Deactivate(s, at) ==
  /\ active = s /\ Receive([NoReq EXCEPT !.ssid = s], at)
  /\ active' = None
  /\ OpenSocket(Cmd("DISCONNECT", 0))
  /\ UNCHANGED <<store, device, supplicant>>

DeactivateConnection(s) == Deactivate(s, "disconnect")

\* DeleteConnection deactivates the profile first if it is active.
DeleteConnection(s) ==
  \/ Deactivate(s, "disconnect for delete")
  \/ /\ active # s /\ Receive([NoReq EXCEPT !.ssid = s], "delete")
     /\ UNCHANGED <<store, device, active, inq, outq, supplicant>>

\* The reply to DISCONNECT; without it the device keeps its connection.
Disconnected ==
  /\ pc \in {"disconnect", "disconnect for delete"}
  /\ device' = IF Ok THEN None ELSE device
  /\ CloseSocket
  /\ IF pc = "disconnect" THEN Return ELSE pc' = "delete" /\ req' = req
  /\ UNCHANGED <<served, store, active, supplicant>>

\* profiles::delete fails unless there is a file; then self.connections.
DeleteProfile ==
  /\ pc = "delete"
  /\ IF disk[req.ssid] = None
     THEN Return /\ UNCHANGED <<memory, disk>>
     ELSE /\ disk' = [disk EXCEPT ![req.ssid] = None]
          /\ memory' = [memory EXCEPT ![req.ssid] = None]
          /\ pc' = "delete secrets" /\ req' = req
  /\ UNCHANGED <<served, secret, tmp, device, active, inq, outq, supplicant>>

\* Files that secrets.delete_all(wifi-s) removes: those whose name starts
\* with "wifi-s.", the temporary one included.
Prefixed(s) == {t \in Ssids : t = s \/ <<s, t>> \in Dotted}

\* Faulty variant: the files of the keys only.
DeleteKeys ==
  /\ secret' = [t \in Ssids |-> IF t = req.ssid THEN None ELSE secret[t]]
  /\ UNCHANGED tmp

DeleteAll ==
  /\ secret' = [t \in Ssids |-> IF t \in Prefixed(req.ssid) THEN None ELSE secret[t]]
  /\ tmp' = tmp \ Prefixed(req.ssid)

DeleteSecrets ==
  /\ pc = "delete secrets"
  /\ DeleteAll /\ Return
  /\ UNCHANGED <<served, memory, disk, device, active, inq, outq, supplicant>>

\* ForgetWifi: wifi::forget asks for the networks ...
ForgetWifi(s) ==
  /\ Receive([NoReq EXCEPT !.ssid = s], "forget")
  /\ OpenSocket(Cmd("LIST", 0))
  /\ UNCHANGED <<store, device, active, supplicant>>

\* ... removes those of the ssid and saves; the first error ends it.
RemoveOrSave(ids) ==
  IF ids = {} THEN Send(Cmd("SAVE", 0)) /\ pc' = "forget save" /\ req' = [req EXCEPT !.gone = {}]
  ELSE \E n \in ids : /\ Send(Cmd("REMOVE", n)) /\ pc' = "forget remove"
                      /\ req' = [req EXCEPT !.gone = ids \ {n}]

ForgetListed ==
  /\ pc = "forget" /\ Received
  /\ outq' = Tail(outq)
  /\ RemoveOrSave({e[1] : e \in {x \in Reply.ids : x[2] = req.ssid}})
  /\ UNCHANGED <<served, store, device, active, supplicant>>

ForgetRemoved ==
  /\ pc = "forget remove" /\ Ok
  /\ outq' = Tail(outq)
  /\ RemoveOrSave(req.gone)
  /\ UNCHANGED <<served, store, device, active, supplicant>>

\* forget is over, one way or the other; secrets.delete_all.
ForgetSecrets ==
  /\ \/ pc = "forget save"
     \/ pc = "forget" /\ ~Received
     \/ pc = "forget remove" /\ ~Ok
  /\ CloseSocket
  /\ DeleteAll
  /\ pc' = "forget profile" /\ req' = req
  /\ UNCHANGED <<served, memory, disk, device, active, supplicant>>

\* profiles::delete, and self.connections.
ForgetProfile ==
  /\ pc = "forget profile"
  /\ disk' = [disk EXCEPT ![req.ssid] = None]
  /\ memory' = [memory EXCEPT ![req.ssid] = None]
  /\ Return
  /\ UNCHANGED <<served, secret, tmp, device, active, inq, outq, supplicant>>
-----------------------------------------------------------------------------
\* The daemon stops anywhere and starts again: load_all reads every profile
\* file it can parse.  wpa_supplicant runs on.
WifiRestart ==
  /\ memory' = [s \in Ssids |-> IF disk[s] \in Kinds THEN disk[s] ELSE None]
  /\ device' = None /\ active' = None
  /\ CloseSocket /\ Return
  /\ UNCHANGED <<served, disk, secret, tmp, supplicant>>

WifiRequest == \E s \in Ssids :
  \/ \E kind \in ConnectKinds, pass \in Passphrases \cup {None} : ConnectWifi(s, kind, pass)
  \/ \E kind \in AddKinds : AddConnection(s, kind)
  \/ ActivateConnection(s) \/ DeactivateConnection(s)
  \/ DeleteConnection(s) \/ ForgetWifi(s)

WifiManager ==
  \/ SetSecret \/ SaveProfile
  \/ StartConnect \/ StartConnectFails \/ ListNetworks \/ RemoveNetwork
  \/ AddNetwork \/ AddNetworkFails \/ SetNetwork \/ SetNetworkFails
  \/ EnableNetwork \/ SelectNetwork \/ EnableOrSelectFails
  \/ AwaitAssociation \/ AwaitAssociationFails \/ Associated \/ AssociatedInVain
  \/ Touch
  \/ Disconnected \/ DeleteProfile \/ DeleteSecrets
  \/ ForgetListed \/ ForgetRemoved \/ ForgetSecrets \/ ForgetProfile

Supplicant == Serve \/ Associate

WifiNext == WifiRequest \/ WifiManager \/ Supplicant
-----------------------------------------------------------------------------
(* Properties *)

\* Once ADD_NETWORK was answered there is one request of the manager's under
\* way or one reply in the socket, to what the manager waits for: replies to
\* LIST_NETWORKS and REMOVE_NETWORK that came late, whose errors wifi::connect
\* ignores, make add_network fail and are never taken for the success of a
\* later request (WpaCtrl::request).
RepliesMatch ==
  pc \in {"set", "enable", "select", "status"} =>
    /\ \/ outq = <<>> /\ \E i \in DOMAIN inq : \A j \in DOMAIN inq : inq[j].own <=> j = i
       \/ Len(outq) = 1 /\ \A i \in DOMAIN inq : ~inq[i].own
    /\ \A i \in DOMAIN outq : outq[i].cmd = (CASE pc = "set" -> "SET"
                                [] pc = "enable" -> "ENABLE"
                                [] pc = "select" -> "SELECT"
                                [] pc = "status" -> "STATUS")

\* When wifi::connect succeeds, wpa_supplicant has one network of the ssid,
\* that one is selected, and its key is the secret stored now: entries of
\* earlier connects, also of ones that failed half way or whose requests
\* wpa_supplicant served late, are gone.
ConnectedAsStored ==
  [][Associated =>
       /\ {n \in DOMAIN nets : nets[n].ssid = req.ssid} = {selected}
       /\ nets[selected].key = (IF memory[req.ssid] = "open" THEN None
                                ELSE secret[req.ssid])]_wifiVars

\* When ForgetWifi or a DeleteConnection that finds the profile is over,
\* nothing of the profile is left on disk, also not the temporary file of a
\* secret whose writing a crash cut short (secrets.delete_all,
\* profiles::delete).
NothingLeft ==
  [][ForgetProfile \/ DeleteSecrets =>
       /\ disk'[req.ssid] = None /\ memory'[req.ssid] = None
       /\ secret'[req.ssid] = None /\ req.ssid \notin tmp']_wifiVars
=============================================================================
