--------------------------- MODULE NetworkManager ---------------------------
(***************************************************************************)
(* The manager thread of mitos-network (manager/manager.rs) together with  *)
(* the device registry, connection activation and deactivation, and the    *)
(* kernel whose links it manages.                                          *)
(*                                                                         *)
(* One thread consumes Commands and runs each handler to completion, so a  *)
(* handler is one action.  Handlers that try autoconnect on every device   *)
(* leave the devices still to be tried in todo, and no other command is    *)
(* taken until it is empty: the kernel alone moves meanwhile.  Commands    *)
(* carry no state of their own except hotplug events, which describe a     *)
(* past state of the kernel: only those are queued here.                   *)
(***************************************************************************)
EXTENDS Integers, Sequences

CONSTANTS
  Devices,         \* interface names
  Profiles,        \* connection profile ids
  WifiIds,         \* the ids of the form "wifi-<ssid>"
  None,            \* Rust's Option::None
  Contents,        \* what AddConnection may write into a profile
  Kinds,           \* possible results of classify(), as functions on Devices
  Unmanageds,      \* what the configuration may list as unmanaged-devices
  VpnIf,           \* the interface a VPN session for a profile runs on
  Connectivities,  \* results of the connectivity probe
  MaxEvents,       \* bound on queued hotplug events (the channel has none)
  Lossy            \* may the netlink socket overrun and lose an event?

DeviceTypes == {"Ethernet", "WiFi", "Vpn"}

ProfileContent == [type: DeviceTypes, pin: Devices \cup {None},
                   auto: BOOLEAN, prio: Int]

ASSUME ConstantsAssumption ==
  /\ None \notin Devices /\ None \notin Profiles /\ None \notin ProfileContent
  /\ WifiIds \subseteq Profiles
  /\ Contents \subseteq ProfileContent
  /\ Kinds \subseteq [Devices -> DeviceTypes]
  /\ Unmanageds \subseteq SUBSET Devices
  /\ VpnIf \in [Profiles -> Devices]
  /\ \A k \in Kinds : (\E d \in Devices : k[d] = "Vpn")
                       => \A p \in Profiles : k[VpnIf[p]] = "Vpn"
  /\ "Unknown" \in Connectivities
  /\ MaxEvents \in Nat
  /\ Lossy \in BOOLEAN

VARIABLES
  kind,         \* [Devices -> DeviceTypes]: device_type, fixed by the hardware
  link,         \* [Devices -> LinkState]: the kernel's links
  addrs,        \* the profile whose addresses are on the link, or None
  events,       \* hotplug events sent to the manager and not yet handled
  phase,        \* "off", "new" (NetworkManager::new done) or "run"
  devices,      \* DeviceRegistry.devices
  active,       \* NetworkManager.active: device name -> profile id, or None
  connections,  \* NetworkManager.connections: id -> content, or None
  files,        \* the profile files under profiles_dir, in the same form
  unmanaged,    \* config.general.unmanaged_devices
  connectivity, \* NetworkManager.connectivity
  todo,         \* devices the running handler has still to try_autoconnect
  sessions,     \* vpn::ACTIVE: interfaces with a tracked VPN session
  told,         \* the last NetworkState broadcast to the clients
  lost          \* devices the monitor lost a notification of (history)

kernel  == <<kind, link, addrs, events, lost>>
config  == <<connections, files, unmanaged, connectivity>>
vars    == <<kind, link, addrs, events, phase, devices, active, connections,
             files, unmanaged, connectivity, todo, sessions, told, lost>>

LinkState == {"absent", "down", "up"}

DeviceState == {"Unmanaged", "Unavailable", "Disconnected", "Connecting",
                "IpConfiguring", "Activated", "Deactivating", "Failed"}

\* What overall_state returns: never Unknown.
NetworkState == {"Unavailable", "Disconnected", "Connecting", "ConnectedLocal",
                 "Connected", "Limited", "Portal", "Disconnecting"}

\* A name the registry does not hold.
Gone == [state |-> "Gone", conn |-> None, carrier |-> FALSE]

\* DeviceRegistry's map from names to NetworkDevice.
Registry == [Devices -> [state: DeviceState \cup {"Gone"},
                         conn: Profiles \cup {None}, carrier: BOOLEAN]]

HotplugEvent == [op: {"LinkAdded", "LinkRemoved"}, dev: Devices]

Registered(devs) == {d \in Devices : devs[d].state # "Gone"}

TypeOK ==
  /\ kind \in Kinds
  /\ link \in [Devices -> LinkState]
  /\ addrs \in [Devices -> Profiles \cup {None}]
  /\ events \in Seq(HotplugEvent)
  /\ phase \in {"off", "new", "run"}
  /\ devices \in Registry
  /\ active \in [Devices -> Profiles \cup {None}]
  /\ connections \in [Profiles -> ProfileContent \cup {None}]
  /\ files \in [Profiles -> ProfileContent \cup {None}]
  /\ unmanaged \in SUBSET Devices
  /\ connectivity \in Connectivities
  /\ todo \in SUBSET Devices
  /\ sessions \in SUBSET Devices
  /\ told \in NetworkState \cup {None}
  /\ lost \in SUBSET Devices
-----------------------------------------------------------------------------
\* manager::state::overall_state, and the broadcast that reports it.

SomeIn(devs, states) == \E d \in Devices : devs[d].state \in states

\* Faulty variant: passes on states that NetworkState does not have.
WithRawConnectivity(conn) == IF conn = "Full" THEN "Connected" ELSE conn

WithConnectivity(conn) ==
  CASE conn = "Full"                -> "Connected"
    [] conn \in {"Limited", "Portal"} -> conn
    [] OTHER                        -> "ConnectedLocal"

OverallState(devs, conn) ==
  IF SomeIn(devs, {"Connecting", "IpConfiguring"}) THEN "Connecting"
  ELSE IF SomeIn(devs, {"Deactivating"}) THEN "Disconnecting"
  ELSE IF SomeIn(devs, {"Activated"}) THEN WithConnectivity(conn)
  ELSE IF SomeIn(devs, {"Disconnected", "Failed"}) THEN "Disconnected"
  ELSE "Unavailable"

\* broadcast_state, when the handler reaches a call of it.
BroadcastState(reached) ==
  told' = IF reached THEN OverallState(devices', connectivity) ELSE told
-----------------------------------------------------------------------------
\* The kernel and its hotplug notifications.

\* The queue after the monitor thread forwarded an event.  Nothing listens
\* before the monitor is started.
Notified(queue, op, d) ==
  IF phase = "run" THEN Append(queue, [op |-> op, dev |-> d]) ELSE queue

\* A link appears, gains or loses carrier, or vanishes with its addresses.
\* The kernel sends RTM_NEWLINK for all but the last, and the monitor turns
\* every RTM_NEWLINK into LinkAdded.  When the socket overruns the
\* notification is lost: recv fails and the monitor thread logs the error.
KernelChange(d, to) ==
  /\ link[d] # to
  /\ Len(events) < MaxEvents
  /\ link' = [link EXCEPT ![d] = to]
  /\ addrs' = IF to = "absent" THEN [addrs EXCEPT ![d] = None] ELSE addrs
  /\ \/ /\ events' = Notified(events, IF to = "absent" THEN "LinkRemoved"
                                      ELSE "LinkAdded", d)
        /\ UNCHANGED lost
     \/ /\ Lossy /\ phase = "run"
        /\ lost' = lost \cup {d}
        /\ UNCHANGED events
  /\ UNCHANGED <<kind, phase, devices, active, config, todo, sessions, told>>
-----------------------------------------------------------------------------
\* device::manager::DeviceRegistry::refresh on top of discovery::scan.

Scanned(d) == IF link[d] = "up" THEN "Disconnected" ELSE "Unavailable"

\* Faulty variant: a device that becomes unmanaged keeps its connection.
RefreshedKeepsConn(d) ==
  [state   |-> IF d \in unmanaged THEN "Unmanaged"
               ELSE IF d \in Registered(devices) THEN devices[d].state
               ELSE Scanned(d),
   conn    |-> IF d \notin Registered(devices) THEN None ELSE devices[d].conn,
   carrier |-> link[d] = "up"]

RefreshedDevice(d) ==
  [state   |-> IF d \in unmanaged THEN "Unmanaged"
               ELSE IF d \in Registered(devices) THEN devices[d].state
               ELSE Scanned(d),
   conn    |-> IF d \in unmanaged \/ d \notin Registered(devices) THEN None
               ELSE devices[d].conn,
   carrier |-> link[d] = "up"]

Refreshed ==
  [d \in Devices |-> IF link[d] = "absent" THEN Gone ELSE RefreshedDevice(d)]

\* The callers ignore an error of scan(), which leaves the registry as it was.
RefreshOutcomes == {Refreshed, devices}
-----------------------------------------------------------------------------
\* connection::activation and connection::deactivation.

\* Faulty variant: takes a device that already carries a connection.
FindBusyDeviceToo(devs, content) ==
  {d \in Registered(devs) : kind[d] = content.type /\ content.pin \in {None, d}}

FindDeviceForProfile(devs, content) ==
  {d \in Registered(devs) : /\ kind[d] = content.type
                            /\ devs[d].conn = None
                            /\ content.pin \in {None, d}}

WithState(devs, d, state, conn) ==
  [devs EXCEPT ![d] = [@ EXCEPT !.state = state, !.conn = conn]]

\* The link comes up by bring_up, association or VPN setup, and the kernel says
\* so.
BroughtUp(queue, d) ==
  /\ link' = [link EXCEPT ![d] = "up"]
  /\ events' = IF link[d] = "up" THEN queue ELSE Notified(queue, "LinkAdded", d)

\* activate() returned Ok.  For a link that means carrier (or association),
\* a flush and the profile's own addresses; for a VPN a tracked session on the
\* interface its config names, created if it did not exist.
ActivateOk(devs, queue, d, p) ==
  LET s == IF kind[d] = "Vpn" THEN VpnIf[p] ELSE d IN
  /\ kind[d] = "Vpn" \/ link[d] # "absent"
  /\ BroughtUp(queue, s)
  /\ addrs' = [addrs EXCEPT ![s] = p]
  /\ sessions' = IF kind[d] = "Vpn" THEN sessions \cup {s} ELSE sessions
  /\ devices' = WithState(devs, d, "Activated", p)
  /\ active' = [active EXCEPT ![d] = p]
  /\ UNCHANGED <<kind, lost>>

\* activate() returned Err at one of its steps: nothing is rolled back.  The
\* old addresses may still be there, flushed, or replaced by the profile's;
\* a VPN interface may have been created.
ActivateErr(devs, queue, d, p) ==
  LET s == IF kind[d] = "Vpn" THEN VpnIf[p] ELSE d IN
  /\ \/ UNCHANGED <<link, addrs>> /\ events' = queue
     \/ /\ kind[d] # "Vpn" /\ link[d] # "absent"
        /\ \E left \in {addrs[d], None, p} : addrs' = [addrs EXCEPT ![d] = left]
        /\ BroughtUp(queue, d)
     \/ /\ kind[d] = "Vpn"
        /\ \E left \in {addrs[s], p} : addrs' = [addrs EXCEPT ![s] = left]
        /\ IF link[s] = "absent"
             THEN /\ link' = [link EXCEPT ![s] = "down"]
                  /\ events' = Notified(queue, "LinkAdded", s)
             ELSE UNCHANGED link /\ events' = queue
  /\ devices' = WithState(devs, d, "Failed", devs[d].conn)
  /\ UNCHANGED <<kind, active, sessions, lost>>

\* NetworkManager::activate_profile for profile p, whose entry in connections
\* is content; force says that the caller broadcasts the state in any case.
ActivateProfile(devs, queue, p, content, force) ==
  \/ /\ content # None
     /\ \E d \in FindDeviceForProfile(devs, content) :
          \/ ActivateOk(devs, queue, d, p) /\ BroadcastState(TRUE)
          \/ ActivateErr(devs, queue, d, p) /\ BroadcastState(force)
  \/ /\ content # None => FindDeviceForProfile(devs, content) = {}
     /\ devices' = devs
     /\ events' = queue
     /\ BroadcastState(force)
     /\ UNCHANGED <<kind, link, addrs, active, sessions, lost>>

\* deactivate() on the device of the active entry that was just removed.  A
\* VPN is disconnected by the device's own name; a link is flushed and, for
\* Wi-Fi, disassociated.
DeactivateOk(d) ==
  /\ IF kind[d] = "Vpn"
       THEN /\ d \in sessions /\ link[d] # "absent"
            /\ sessions' = sessions \ {d}
            /\ link' = [link EXCEPT ![d] = "absent"]
            /\ events' = Notified(events, "LinkRemoved", d)
       ELSE UNCHANGED <<sessions, link, events>>
  /\ addrs' = [addrs EXCEPT ![d] = None]
  /\ devices' = WithState(devices, d, "Disconnected", None)

\* Faulty variant: a failed deactivation puts the old state back.
DeactivateErrRestores(d) ==
  /\ \E left \in {addrs[d], None} : addrs' = [addrs EXCEPT ![d] = left]
  /\ UNCHANGED <<sessions, devices, link, events>>

\* deactivate() returned Err: the device stays Deactivating with its
\* connection.  The addresses may be gone already, and a VPN session whose
\* link could not be deleted is no longer tracked.
DeactivateErr(d) ==
  /\ sessions' = IF kind[d] = "Vpn" THEN sessions \ {d} ELSE sessions
  /\ \E left \in {addrs[d]} \cup (IF kind[d] = "Vpn" THEN {} ELSE {None}) :
       addrs' = [addrs EXCEPT ![d] = left]
  /\ devices' = WithState(devices, d, "Deactivating", devices[d].conn)
  /\ UNCHANGED <<link, events>>

ActiveOn(p) == {d \in Devices : active[d] = p}

\* NetworkManager::deactivate_profile: the first entry found, in the order of
\* a HashMap, and only that one.
DeactivateProfile(p) ==
  \/ /\ ActiveOn(p) = {}
     /\ UNCHANGED <<link, addrs, events, devices, active, sessions, told>>
  \/ \E d \in ActiveOn(p) :
       /\ active' = [active EXCEPT ![d] = None]
       /\ \/ /\ d \notin Registered(devices)
             /\ UNCHANGED <<link, addrs, events, devices, sessions, told>>
          \/ d \in Registered(devices) /\ DeactivateOk(d) /\ BroadcastState(TRUE)
          \/ d \in Registered(devices) /\ DeactivateErr(d) /\ UNCHANGED told
-----------------------------------------------------------------------------
\* connection::autoconnect and NetworkManager::try_autoconnect.

CanAutoconnect(devs, d) ==
  /\ devs[d].state \in {"Disconnected", "Unavailable"}
  /\ devs[d].conn = None
  /\ devs[d].carrier

\* What the last scan may have seen; a wired device needs no scan.
Visible(d) == IF kind[d] = "WiFi" THEN SUBSET Profiles ELSE {Profiles}

Eligible(d, visible) ==
  {p \in visible : /\ connections[p] # None
                   /\ connections[p].auto
                   /\ connections[p].type = kind[d]
                   /\ kind[d] = "WiFi" \/ connections[p].pin \in {None, d}}

Preferred(d, p, q) ==
  LET pinned(r) == kind[d] # "WiFi" /\ connections[r].pin = d IN
  \/ pinned(p) /\ ~pinned(q)
  \/ /\ pinned(p) = pinned(q)
     /\ connections[p].prio >= connections[q].prio

\* select and select_wifi.  Between equals the most recently used profile
\* wins; file times are not modelled, so any of the equals may.
Select(d, visible) ==
  {p \in Eligible(d, visible) :
     \A q \in Eligible(d, visible) : Preferred(d, p, q)}

TryAutoconnect(devs, queue, d, force) ==
  \/ /\ ~CanAutoconnect(devs, d) \/ \E v \in Visible(d) : Select(d, v) = {}
     /\ devices' = devs
     /\ events' = queue
     /\ BroadcastState(force)
     /\ UNCHANGED <<kind, link, addrs, active, sessions, lost>>
  \/ /\ CanAutoconnect(devs, d)
     /\ \E v \in Visible(d) : \E p \in Select(d, v) :
          ActivateProfile(devs, queue, p, connections[p], force)
-----------------------------------------------------------------------------
\* Start and stop of the daemon.

\* NetworkManager::new.  The registry is filled before the hotplug monitor
\* listens.
New ==
  /\ phase = "off"
  /\ phase' = "new"
  /\ \E u \in Unmanageds :
       /\ unmanaged' = u
       /\ devices' = [d \in Devices |->
            IF link[d] = "absent" THEN Gone
            ELSE [state   |-> IF d \in u THEN "Unmanaged" ELSE Scanned(d),
                  conn    |-> None,
                  carrier |-> link[d] = "up"]]
  /\ connections' = files
  /\ UNCHANGED <<kernel, active, files, connectivity, todo, sessions, told>>

\* main starts the monitor, and run() begins with try_autoconnect_all.
Run ==
  /\ phase = "new"
  /\ phase' = "run"
  /\ todo' = Registered(devices)
  /\ UNCHANGED <<kernel, devices, active, config, sessions, told>>

\* Shutdown breaks the command loop between two handlers; a crash may also
\* hit a handler that still has devices to try.  Neither touches the kernel.
Stop ==
  /\ phase # "off"
  /\ phase' = "off"
  /\ devices' = [d \in Devices |-> Gone]
  /\ active' = [d \in Devices |-> None]
  /\ connections' = [p \in Profiles |-> None]
  /\ unmanaged' = {}
  /\ connectivity' = "Unknown"
  /\ events' = << >>
  /\ todo' = {}
  /\ sessions' = {}
  /\ told' = None
  /\ lost' = {}
  /\ UNCHANGED <<kind, link, addrs, files>>
-----------------------------------------------------------------------------
\* The command loop of NetworkManager::run takes the next command.

Idle == phase = "run" /\ todo = {}

\* A handler's loop reaches its next device.
AutoconnectNext ==
  /\ phase = "run"
  /\ \E d \in todo :
       /\ todo' = todo \ {d}
       /\ TryAutoconnect(devices, events, d, FALSE)
  /\ UNCHANGED <<phase, config>>

HandleLinkAdded ==
  /\ Idle
  /\ events # << >> /\ Head(events).op = "LinkAdded"
  /\ \E devs \in RefreshOutcomes :
       TryAutoconnect(devs, Tail(events), Head(events).dev, TRUE)
  /\ UNCHANGED <<phase, todo, config>>

\* Faulty variant: ignores the removal of a link that is back already.
HandleLinkRemovedUnlessBack ==
  LET d == Head(events).dev IN
  /\ Idle
  /\ events # << >> /\ Head(events).op = "LinkRemoved"
  /\ active' = IF link[d] = "absent" THEN [active EXCEPT ![d] = None] ELSE active
  /\ devices' = IF link[d] = "absent" THEN [devices EXCEPT ![d] = Gone] ELSE devices
  /\ events' = Tail(events)
  /\ BroadcastState(TRUE)
  /\ UNCHANGED <<kind, link, addrs, lost, phase, config, todo, sessions>>

\* Faulty variant: forgets the device and keeps its active connection.
HandleLinkRemovedKeepsActive ==
  /\ Idle
  /\ events # << >> /\ Head(events).op = "LinkRemoved"
  /\ devices' = [devices EXCEPT ![Head(events).dev] = Gone]
  /\ events' = Tail(events)
  /\ BroadcastState(TRUE)
  /\ UNCHANGED <<kind, link, addrs, lost, phase, active, config, todo, sessions>>

HandleLinkRemoved ==
  /\ Idle
  /\ events # << >> /\ Head(events).op = "LinkRemoved"
  /\ active' = [active EXCEPT ![Head(events).dev] = None]
  /\ devices' = [devices EXCEPT ![Head(events).dev] = Gone]
  /\ events' = Tail(events)
  /\ BroadcastState(TRUE)
  /\ UNCHANGED <<kind, link, addrs, lost, phase, config, todo, sessions>>

\* AddressChanged names an interface index, which is no device's name; it
\* may arrive at any time, since anyone may change an address.
HandleAddressChanged ==
  /\ Idle
  /\ devices' \in RefreshOutcomes
  /\ BroadcastState(TRUE)
  /\ UNCHANGED <<kernel, phase, active, config, todo, sessions>>

TickConnectivity ==
  /\ Idle
  /\ connectivity' \in Connectivities \ {connectivity}
  /\ told' = OverallState(devices, connectivity')
  /\ UNCHANGED <<kernel, phase, devices, active, connections, files, unmanaged,
                 todo, sessions>>

\* The periodic Wi-Fi job does not scan: it retries autoconnect.
TickWifiScan ==
  /\ Idle
  /\ todo' = {d \in Registered(devices) : /\ kind[d] = "WiFi"
                                          /\ devices[d].state # "Unmanaged"}
  /\ UNCHANGED <<kernel, phase, devices, active, config, sessions, told>>

\* Faulty variant: refreshes the registry without retrying autoconnect.
TickDeviceRefreshOnly ==
  /\ Idle
  /\ devices' \in RefreshOutcomes
  /\ UNCHANGED <<kernel, phase, active, config, todo, sessions, told>>

TickDeviceRefresh ==
  /\ Idle
  /\ devices' \in RefreshOutcomes
  /\ todo' = Registered(devices')
  /\ UNCHANGED <<kernel, phase, active, config, sessions, told>>

\* Requests of the IPC clients.  A request is taken only while the queue of
\* hotplug events has room, which bounds the model and nothing else.
Serving == Idle /\ Len(events) < MaxEvents

AddConnection(p, content) ==
  /\ Serving
  /\ files' = [files EXCEPT ![p] = content]
  /\ connections' = [connections EXCEPT ![p] = content]
  /\ UNCHANGED <<kernel, phase, devices, active, unmanaged, connectivity, todo,
                 sessions, told>>

\* profiles::delete fails when there is no file, or with an I/O error.
DeleteConnection(p) ==
  /\ Serving
  /\ DeactivateProfile(p)
  /\ \/ /\ files[p] # None
        /\ files' = [files EXCEPT ![p] = None]
        /\ connections' = [connections EXCEPT ![p] = None]
     \/ UNCHANGED <<files, connections>>
  /\ UNCHANGED <<kind, lost, phase, unmanaged, connectivity, todo>>

ActivateConnection(p) ==
  /\ Serving
  /\ ActivateProfile(devices, events, p, connections[p], FALSE)
  /\ UNCHANGED <<phase, config, todo>>

DeactivateConnection(p) ==
  /\ Serving
  /\ DeactivateProfile(p)
  /\ UNCHANGED <<kind, lost, phase, config, todo>>

\* ConnectWifi writes a profile pinned to the device and activates it.
WifiContent(d) == [type |-> "WiFi", pin |-> d, auto |-> TRUE, prio |-> 0]

ConnectWifi(d, p) ==
  /\ Serving
  /\ files' = [files EXCEPT ![p] = WifiContent(d)]
  /\ connections' = [connections EXCEPT ![p] = WifiContent(d)]
  /\ ActivateProfile(devices, events, p, WifiContent(d), FALSE)
  /\ UNCHANGED <<phase, unmanaged, connectivity, todo>>

\* ForgetWifi drops the profile from memory whether or not its file could be
\* deleted, and deactivates nothing.
ForgetWifi(p) ==
  /\ Serving
  /\ files' \in {files, [files EXCEPT ![p] = None]}
  /\ connections' = [connections EXCEPT ![p] = None]
  /\ UNCHANGED <<kernel, phase, devices, active, unmanaged, connectivity, todo,
                 sessions, told>>

\* Reload replaces the configuration; the registry sees it at the next refresh.
Reload ==
  /\ Serving
  /\ unmanaged' \in Unmanageds
  /\ UNCHANGED <<kernel, phase, devices, active, connections, files,
                 connectivity, todo, sessions, told>>
-----------------------------------------------------------------------------
Init ==
  /\ kind \in Kinds
  /\ link \in [Devices -> LinkState]
  /\ addrs = [d \in Devices |-> None]
  /\ events = << >>
  /\ phase = "off"
  /\ devices = [d \in Devices |-> Gone]
  /\ active = [d \in Devices |-> None]
  /\ connections = [p \in Profiles |-> None]
  /\ files \in [Profiles -> Contents \cup {None}]
  /\ unmanaged = {}
  /\ connectivity = "Unknown"
  /\ todo = {}
  /\ sessions = {}
  /\ told = None
  /\ lost = {}

Handle ==
  \/ AutoconnectNext
  \/ HandleLinkAdded
  \/ HandleLinkRemoved

Tick ==
  \/ TickConnectivity
  \/ TickWifiScan
  \/ TickDeviceRefresh

Request ==
  \/ \E p \in Profiles :
       \/ \E content \in Contents : AddConnection(p, content)
       \/ DeleteConnection(p)
       \/ ActivateConnection(p)
       \/ DeactivateConnection(p)
  \/ \E p \in WifiIds :
       \/ \E d \in {x \in Devices : kind[x] = "WiFi"} : ConnectWifi(d, p)
       \/ ForgetWifi(p)
  \/ Reload

Next ==
  \/ \E d \in Devices, to \in LinkState : KernelChange(d, to)
  \/ New
  \/ Run
  \/ Stop
  \/ Handle
  \/ HandleAddressChanged
  \/ Tick
  \/ Request

Spec == Init /\ [][Next]_vars

\* Every handler ends (each wait in it has a timeout), the channel is first in
\* first out, and the scheduler thread sends a DeviceRefresh every 5 seconds:
\* a queued event and a tick are taken again and again, though other commands
\* are handled in between.  Scans of the kernel do not fail for ever.
Fairness ==
  /\ WF_vars(Run)
  /\ WF_vars(AutoconnectNext)
  /\ SF_vars(HandleLinkAdded \/ HandleLinkRemoved)
  /\ SF_vars(TickDeviceRefresh /\ devices' = Refreshed)

FairSpec == Spec /\ Fairness
-----------------------------------------------------------------------------
\* A device the registry shows as Activated is carried in `active` under the
\* same profile, and a device that carries a connection is Activated or was
\* left behind by a failed deactivation.  The two maps are updated by
\* different handlers (activate_profile, deactivate_profile, LinkRemoved,
\* refresh), so a missed update of one leaves a device that can neither be
\* used nor taken down.
ActivatedIsTracked ==
  \A d \in Devices :
    /\ devices[d].state = "Activated"
         => devices[d].conn # None /\ active[d] = devices[d].conn
    /\ devices[d].conn # None
         => devices[d].state \in {"Activated", "Deactivating"}

RemovalPending(d) ==
  \E i \in 1..Len(events) : events[i] = [op |-> "LinkRemoved", dev |-> d]

\* An Activated link device exists in the kernel and holds exactly the
\* addresses of its connection, unless the news that the link vanished is
\* still on its way or was lost (activate, refresh and the hotplug queue): a
\* link that vanishes and reappears between two refreshes looks unchanged to
\* the registry.
ActivatedIsConfigured ==
  \A d \in Devices \ lost :
    /\ devices[d].state = "Activated" /\ kind[d] # "Vpn" /\ ~RemovalPending(d)
    => link[d] # "absent" /\ addrs[d] = devices[d].conn

\* While a managed link device stays Activated, no handler gives it another
\* connection, drops it from `active` or touches its addresses: activation
\* and autoconnect of other profiles, ticks, reloads and hotplug events of
\* other devices leave it alone (find_device_for_profile, try_autoconnect).
\* A Reload that lists the device as unmanaged ends the guarantee: the next
\* refresh drops its connection, and the same handler may give it another.
ActivatedUndisturbed ==
  [][\A d \in Devices \ unmanaged :
       /\ kind[d] # "Vpn"
       /\ devices[d].state = "Activated"
       /\ devices'[d].state = "Activated"
       => /\ devices'[d].conn = devices[d].conn
          /\ active'[d] = active[d]
          /\ addrs'[d] = addrs[d] \/ link'[d] = "absent"]_vars

\* A managed device with carrier that some autoconnect profile fits.
Serveable(d) ==
  /\ phase = "run"
  /\ link[d] = "up" /\ d \notin unmanaged /\ kind[d] # "WiFi"
  /\ devices[d].state \in {"Gone", "Disconnected", "Unavailable"}
  /\ \E p \in Profiles : p \in Eligible(d, Profiles)

\* A device that could be autoconnected does not wait for ever: the hotplug
\* event or the 5 s refresh reaches try_autoconnect, which activates it or
\* marks it Failed.
AutoconnectServes == \A d \in Devices : []<>~Serveable(d)

\* Once a link is gone for good, both the registry and `active` forget it,
\* whatever order refreshes, LinkRemoved and late LinkAdded events come in.
\* The registry does so even when the notification is lost, by the refresh
\* tick; nothing but LinkRemoved clears `active`.
RemovedIsForgotten ==
  \A d \in Devices :
    <>[](link[d] = "absent")
      => <>[](d \notin Registered(devices) /\ (active[d] = None \/ d \in lost))

\* A device listed in unmanaged-devices, and known to the registry as
\* Unmanaged, keeps its addresses: the DeviceState::Unmanaged comment says that
\* the daemon is "deliberately not touching this device".
UnmanagedUntouched ==
  [][\A d \in unmanaged :
       devices[d].state = "Unmanaged"
         => addrs'[d] = addrs[d] \/ link'[d] = "absent"]_vars

\* Autoconnect of a device changes no other device.  autoconnect.rs says that
\* it decides which profile to activate "on a device that just became
\* available"; try_autoconnect hands on the profile only, and activate_profile
\* looks for a device anew.
AutoconnectsItsDevice ==
  [][\A d \in todo :
       todo' = todo \ {d} /\ phase' = phase
         => \A e \in Devices \ {d} : devices'[e] = devices[e]]_vars

\* Between two handlers, the state the clients were last told is the current
\* one: overall_state's comment says that the manager calls it "after anything
\* that could plausibly change it" (broadcast_state and its callers).
ClientsUpToDate ==
  Idle /\ told # None => told = OverallState(devices, connectivity)
=============================================================================
