------------------------ MODULE NetworkManagerProofs ------------------------
(***************************************************************************)
(* Proofs about NetworkManager for every set of devices, profiles and      *)
(* profile contents, and with or without lost notifications.               *)
(***************************************************************************)
EXTENDS NetworkManager, TLAPS

-----------------------------------------------------------------------------
\* What the operators of the model return.

\* overall_state returns one of the states it is declared to return.
LEMMA OverallStateType ==
  ASSUME NEW devs, NEW conn
  PROVE  OverallState(devs, conn) \in NetworkState
<1>1. WithConnectivity(conn) \in NetworkState
  BY DEF WithConnectivity, NetworkState
<1> QED
  BY <1>1 DEF OverallState, NetworkState

\* A broadcast leaves a state of the declared type with the clients.
LEMMA BroadcastType ==
  ASSUME TypeOK, NEW reached, BroadcastState(reached)
  PROVE  told' \in NetworkState \cup {None}
BY OverallStateType DEF BroadcastState, TypeOK

\* refresh() fills the registry with entries of the declared type, whether or
\* not the scan succeeded.
LEMMA RefreshType ==
  ASSUME TypeOK
  PROVE  RefreshOutcomes \subseteq Registry
<1>1. ASSUME NEW d \in Devices
      PROVE  RefreshedDevice(d) \in [state: DeviceState \cup {"Gone"},
                conn: Profiles \cup {None}, carrier: BOOLEAN]
  BY DEF RefreshedDevice, Scanned, Registered, Registry, DeviceState, TypeOK
<1>2. Gone \in [state: DeviceState \cup {"Gone"},
                conn: Profiles \cup {None}, carrier: BOOLEAN]
  BY DEF Gone
<1> QED
  BY <1>1, <1>2 DEF RefreshOutcomes, Refreshed, Registry, TypeOK

\* Giving a device a state and a connection keeps the registry well typed.
LEMMA WithStateType ==
  ASSUME NEW devs \in Registry, NEW d \in Devices,
         NEW state \in DeviceState, NEW conn \in Profiles \cup {None}
  PROVE  WithState(devs, d, state, conn) \in Registry
BY Zenon DEF WithState, Registry

\* The queue stays a sequence of events when the monitor adds one.
LEMMA NotifiedType ==
  ASSUME NEW queue \in Seq(HotplugEvent), NEW op \in {"LinkAdded", "LinkRemoved"},
         NEW d \in Devices
  PROVE  Notified(queue, op, d) \in Seq(HotplugEvent)
<1>1. [op |-> op, dev |-> d] \in HotplugEvent
  BY DEF HotplugEvent
<1>2. Append(queue, [op |-> op, dev |-> d]) \in Seq(HotplugEvent)
  BY <1>1
<1> QED
  BY <1>2 DEF Notified

\* An interface that is brought up leaves the kernel's links and the queue well
\* typed.
LEMMA BroughtUpType ==
  ASSUME TypeOK, NEW queue \in Seq(HotplugEvent), NEW d \in Devices,
         BroughtUp(queue, d)
  PROVE  link' \in [Devices -> LinkState] /\ events' \in Seq(HotplugEvent)
<1>1. Notified(queue, "LinkAdded", d) \in Seq(HotplugEvent)
  BY NotifiedType
<1> QED
  BY <1>1 DEF BroughtUp, TypeOK, LinkState

-----------------------------------------------------------------------------
\* The parts of the invariants, for a registry and a queue that a handler has
\* in hand before it stores them.

Pending(queue, d) ==
  \E i \in 1..Len(queue) : queue[i] = [op |-> "LinkRemoved", dev |-> d]

Tracked(devs, act) ==
  \A d \in Devices :
    /\ devs[d].state = "Activated" => devs[d].conn # None /\ act[d] = devs[d].conn
    /\ devs[d].conn # None => devs[d].state \in {"Activated", "Deactivating"}

Configured(devs, queue) ==
  \A d \in Devices \ lost :
    /\ devs[d].state = "Activated" /\ kind[d] # "Vpn" /\ ~Pending(queue, d)
    => link[d] # "absent" /\ addrs[d] = devs[d].conn

\* The daemon activates devices only once its command loop runs.
QuietBeforeRun ==
  phase # "run" => \A d \in Devices : devices[d].state # "Activated"

\* The inductive invariant.
IInv == TypeOK /\ ActivatedIsTracked /\ ActivatedIsConfigured /\ QuietBeforeRun

\* The part of TypeOK that an activation can change.
ActivationTypes ==
  /\ link \in [Devices -> LinkState]
  /\ addrs \in [Devices -> Profiles \cup {None}]
  /\ events \in Seq(HotplugEvent)
  /\ devices \in Registry
  /\ active \in [Devices -> Profiles \cup {None}]
  /\ sessions \in SUBSET Devices

\* A removal that is pending stays pending when an event is queued behind it.
LEMMA PendingAppend ==
  ASSUME NEW queue \in Seq(HotplugEvent), NEW op, NEW d, NEW e,
         Pending(queue, d)
  PROVE  Pending(Notified(queue, op, e), d)
<1>1. PICK i \in 1..Len(queue) : queue[i] = [op |-> "LinkRemoved", dev |-> d]
  BY DEF Pending
<1>2. CASE phase = "run"
  <2> DEFINE after == Append(queue, [op |-> op, dev |-> e])
  <2>1. Len(after) = Len(queue) + 1 /\ after[i] = queue[i]
    BY <1>1
  <2>2. i \in 1..Len(after)
    BY <1>1, <2>1
  <2>3. Pending(after, d)
    BY <1>1, <2>1, <2>2 DEF Pending
  <2> QED
    BY <1>2, <2>3 DEF Notified
<1> QED
  BY <1>2 DEF Notified

\* Taking the first event leaves every other pending removal in the queue.
LEMMA PendingTail ==
  ASSUME NEW queue \in Seq(HotplugEvent), queue # << >>, NEW d,
         Head(queue) # [op |-> "LinkRemoved", dev |-> d],
         Pending(queue, d)
  PROVE  Pending(Tail(queue), d)
<1>1. PICK i \in 1..Len(queue) : queue[i] = [op |-> "LinkRemoved", dev |-> d]
  BY DEF Pending
<1>2. i # 1
  BY <1>1
<1>3. /\ Len(Tail(queue)) = Len(queue) - 1
      /\ i - 1 \in 1..(Len(queue) - 1)
      /\ Tail(queue)[i - 1] = queue[i]
  BY <1>1, <1>2
<1> QED
  BY <1>1, <1>3 DEF Pending
-----------------------------------------------------------------------------
\* Activation and deactivation.

\* The interface of a VPN session is a VPN device, and one of the devices.
LEMMA SessionInterface ==
  ASSUME TypeOK, NEW d \in Devices, kind[d] = "Vpn", NEW p \in Profiles
  PROVE  VpnIf[p] \in Devices /\ kind[VpnIf[p]] = "Vpn"
BY ConstantsAssumption DEF TypeOK

\* An activation that succeeds tracks the device and configures its link; it
\* disturbs no other link device.
LEMMA ActivateOkStep ==
  ASSUME TypeOK, NEW devs \in Registry, NEW queue \in Seq(HotplugEvent),
         NEW d \in Devices, NEW p \in Profiles,
         Tracked(devs, active), Configured(devs, queue),
         ActivateOk(devs, queue, d, p)
  PROVE  ActivationTypes' /\ ActivatedIsTracked' /\ ActivatedIsConfigured'
<1> DEFINE s == IF kind[d] = "Vpn" THEN VpnIf[p] ELSE d
<1>1. s \in Devices /\ (s # d => kind[s] = "Vpn")
  BY SessionInterface
<1>2. /\ BroughtUp(queue, s)
      /\ addrs' = [addrs EXCEPT ![s] = p]
      /\ sessions' = IF kind[d] = "Vpn" THEN sessions \cup {s} ELSE sessions
      /\ devices' = WithState(devs, d, "Activated", p)
      /\ active' = [active EXCEPT ![d] = p]
      /\ kind' = kind /\ lost' = lost
  BY DEF ActivateOk
<1> HIDE DEF s
<1>3. ActivationTypes'
  <2>1. link' \in [Devices -> LinkState] /\ events' \in Seq(HotplugEvent)
    BY <1>1, <1>2, BroughtUpType
  <2>2. devices' \in Registry
    BY <1>2, WithStateType DEF DeviceState
  <2> QED
    BY <1>1, <1>2, <2>1, <2>2, Zenon DEF ActivationTypes, TypeOK
<1>4. ActivatedIsTracked'
  <2>1. \A e \in Devices : e # d => devices'[e] = devs[e] /\ active'[e] = active[e]
    BY <1>2 DEF WithState, Registry, TypeOK
  <2>2. devices'[d].state = "Activated" /\ devices'[d].conn = p /\ active'[d] = p
    BY <1>2 DEF WithState, Registry, TypeOK
  <2>3. p # None
    BY ConstantsAssumption
  <2> QED
    BY <2>1, <2>2, <2>3 DEF ActivatedIsTracked, Tracked
<1>5. ActivatedIsConfigured'
  <2> SUFFICES ASSUME NEW e \in Devices \ lost,
                      devices'[e].state = "Activated", kind[e] # "Vpn",
                      ~RemovalPending(e)'
               PROVE  link'[e] # "absent" /\ addrs'[e] = devices'[e].conn
    BY <1>2 DEF ActivatedIsConfigured
  <2>1. CASE e = d
    <3>1. s = d
      BY <1>1, <2>1 DEF s
    <3> QED
      BY <1>2, <2>1, <3>1 DEF BroughtUp, WithState, Registry, TypeOK
  <2>2. CASE e # d
    <3>1. s # e
      BY <1>1, <2>2
    <3>2. devices'[e] = devs[e] /\ link'[e] = link[e] /\ addrs'[e] = addrs[e]
      BY <1>1, <1>2, <2>2, <3>1 DEF BroughtUp, WithState, Registry, TypeOK
    <3>3. ~Pending(queue, e)
      <4>1. events' = queue \/ events' = Notified(queue, "LinkAdded", s)
        BY <1>2 DEF BroughtUp
      <4>2. ~Pending(events', e)
        BY DEF RemovalPending, Pending
      <4> QED
        BY <4>1, <4>2, PendingAppend
    <3> QED
      BY <3>2, <3>3 DEF Configured
  <2> QED
    BY <2>1, <2>2
<1> QED
  BY <1>3, <1>4, <1>5

\* An activation that fails leaves a device without connection, whatever it did
\* to its link; it disturbs no other link device.
LEMMA ActivateErrStep ==
  ASSUME TypeOK, NEW devs \in Registry, NEW queue \in Seq(HotplugEvent),
         NEW d \in Devices, NEW p \in Profiles, devs[d].conn = None,
         Tracked(devs, active), Configured(devs, queue),
         ActivateErr(devs, queue, d, p)
  PROVE  ActivationTypes' /\ ActivatedIsTracked' /\ ActivatedIsConfigured'
<1> DEFINE s == IF kind[d] = "Vpn" THEN VpnIf[p] ELSE d
<1>1. s \in Devices /\ (s # d => kind[s] = "Vpn")
  BY SessionInterface
<1>2. /\ devices' = WithState(devs, d, "Failed", None)
      /\ kind' = kind /\ active' = active /\ sessions' = sessions /\ lost' = lost
  BY DEF ActivateErr
<1>3. /\ link' = link \/ BroughtUp(queue, s) \/ link' = [link EXCEPT ![s] = "down"]
      /\ \/ addrs' = addrs
         \/ \E left \in Profiles \cup {None} : addrs' = [addrs EXCEPT ![s] = left]
      /\ events' = queue \/ events' = Notified(queue, "LinkAdded", s)
  <2>1. \A e \in Devices : addrs[e] \in Profiles \cup {None}
    BY DEF TypeOK
  <2>2. CASE UNCHANGED <<link, addrs>> /\ events' = queue
    BY <2>2
  <2>3. CASE /\ kind[d] # "Vpn" /\ link[d] # "absent"
             /\ \E left \in {addrs[d], None, p} : addrs' = [addrs EXCEPT ![d] = left]
             /\ BroughtUp(queue, d)
    BY <2>1, <2>3, Zenon DEF BroughtUp
  <2>4. CASE /\ kind[d] = "Vpn"
             /\ \E left \in {addrs[s], p} : addrs' = [addrs EXCEPT ![s] = left]
             /\ IF link[s] = "absent"
                  THEN /\ link' = [link EXCEPT ![s] = "down"]
                       /\ events' = Notified(queue, "LinkAdded", s)
                  ELSE UNCHANGED link /\ events' = queue
    BY <1>1, <2>1, <2>4, Zenon
  <2> QED
    BY <2>2, <2>3, <2>4, Zenon DEF ActivateErr
<1> HIDE DEF s
<1>4. ActivationTypes'
  <2>1. events' \in Seq(HotplugEvent)
    BY <1>1, <1>3, NotifiedType, Zenon
  <2>2. devices' \in Registry
    BY <1>2, WithStateType DEF DeviceState
  <2>3. link' \in [Devices -> LinkState]
    BY <1>1, <1>3 DEF BroughtUp, TypeOK, LinkState
  <2> QED
    BY <1>1, <1>2, <1>3, <2>1, <2>2, <2>3 DEF ActivationTypes, TypeOK
<1>5. ActivatedIsTracked'
  BY <1>2 DEF ActivatedIsTracked, Tracked, WithState, Registry, TypeOK
<1>6. ActivatedIsConfigured'
  <2> SUFFICES ASSUME NEW e \in Devices \ lost,
                      devices'[e].state = "Activated", kind[e] # "Vpn",
                      ~RemovalPending(e)'
               PROVE  link'[e] # "absent" /\ addrs'[e] = devices'[e].conn
    BY <1>2 DEF ActivatedIsConfigured
  <2>1. e # d /\ devices'[e] = devs[e]
    BY <1>2 DEF WithState, Registry
  <2>2. s # e
    BY <1>1, <2>1
  <2>3. link'[e] = link[e] /\ addrs'[e] = addrs[e]
    BY <1>1, <1>3, <2>2 DEF BroughtUp, TypeOK
  <2>4. ~Pending(events', e)
    BY DEF RemovalPending, Pending
  <2>5. ~Pending(queue, e)
    BY <1>3, <2>4, PendingAppend
  <2> QED
    BY <2>1, <2>3, <2>5 DEF Configured
<1> QED
  BY <1>4, <1>5, <1>6

\* A handler that activates nothing stores the registry and the queue it has.
LEMMA NoActivationStep ==
  ASSUME TypeOK, NEW devs \in Registry, NEW queue \in Seq(HotplugEvent), NEW force,
         Tracked(devs, active), Configured(devs, queue),
         devices' = devs, events' = queue, BroadcastState(force),
         UNCHANGED <<kind, link, addrs, active, sessions, lost>>
  PROVE  /\ ActivationTypes' /\ ActivatedIsTracked' /\ ActivatedIsConfigured'
         /\ told' \in NetworkState \cup {None}
         /\ kind' = kind /\ lost' = lost
<1>1. ActivationTypes'
  BY SMTT(30) DEF ActivationTypes, TypeOK
<1>2. ActivatedIsTracked'
  BY DEF ActivatedIsTracked, Tracked
<1>3. ActivatedIsConfigured'
  BY DEF ActivatedIsConfigured, Configured, RemovalPending, Pending
<1> QED
  BY <1>1, <1>2, <1>3, BroadcastType

\* activate_profile keeps the invariants, whatever device it finds.
LEMMA ActivateProfileStep ==
  ASSUME TypeOK, NEW devs \in Registry, NEW queue \in Seq(HotplugEvent),
         NEW p \in Profiles, NEW content, NEW force,
         Tracked(devs, active), Configured(devs, queue),
         ActivateProfile(devs, queue, p, content, force)
  PROVE  /\ ActivationTypes' /\ ActivatedIsTracked' /\ ActivatedIsConfigured'
         /\ told' \in NetworkState \cup {None}
         /\ kind' = kind /\ lost' = lost
<1>1. CASE \E d \in FindDeviceForProfile(devs, content) :
             \/ ActivateOk(devs, queue, d, p) /\ BroadcastState(TRUE)
             \/ ActivateErr(devs, queue, d, p) /\ BroadcastState(force)
  <2>1. PICK d \in FindDeviceForProfile(devs, content) :
             \/ ActivateOk(devs, queue, d, p) /\ BroadcastState(TRUE)
             \/ ActivateErr(devs, queue, d, p) /\ BroadcastState(force)
    BY <1>1, Zenon
  <2>2. d \in Devices /\ devs[d].conn = None
    BY DEF FindDeviceForProfile, Registered
  <2>3. CASE ActivateOk(devs, queue, d, p) /\ BroadcastState(TRUE)
    BY <2>2, <2>3, ActivateOkStep, BroadcastType, Zenon DEF ActivateOk
  <2>4. CASE ActivateErr(devs, queue, d, p) /\ BroadcastState(force)
    BY <2>2, <2>4, ActivateErrStep, BroadcastType DEF ActivateErr
  <2> QED
    BY <2>1, <2>3, <2>4, Zenon
<1>2. CASE /\ devices' = devs
           /\ events' = queue
           /\ BroadcastState(force)
           /\ UNCHANGED <<kind, link, addrs, active, sessions, lost>>
  BY <1>2, NoActivationStep
<1> QED
  BY <1>1, <1>2, Zenon DEF ActivateProfile

\* try_autoconnect keeps the invariants.
LEMMA TryAutoconnectStep ==
  ASSUME TypeOK, NEW devs \in Registry, NEW queue \in Seq(HotplugEvent),
         NEW d \in Devices, NEW force,
         Tracked(devs, active), Configured(devs, queue),
         TryAutoconnect(devs, queue, d, force)
  PROVE  /\ ActivationTypes' /\ ActivatedIsTracked' /\ ActivatedIsConfigured'
         /\ told' \in NetworkState \cup {None}
         /\ kind' = kind /\ lost' = lost
<1>1. CASE /\ devices' = devs
           /\ events' = queue
           /\ BroadcastState(force)
           /\ UNCHANGED <<kind, link, addrs, active, sessions, lost>>
  BY <1>1, NoActivationStep
<1>2. CASE \E v \in Visible(d) : \E p \in Select(d, v) :
             ActivateProfile(devs, queue, p, connections[p], force)
  <2>1. PICK v \in Visible(d) : \E p \in Select(d, v) :
             ActivateProfile(devs, queue, p, connections[p], force)
    BY <1>2
  <2>2. PICK p \in Select(d, v) :
             ActivateProfile(devs, queue, p, connections[p], force)
    BY <2>1, SMTT(30)
  <2>3. p \in Profiles
    BY <2>1, <2>2 DEF Visible, Select, Eligible
  <2> QED
    BY <2>2, <2>3, ActivateProfileStep
<1> QED
  BY <1>1, <1>2 DEF TryAutoconnect

\* A deactivation, successful or not, leaves the device no longer Activated and
\* disturbs no other device.
LEMMA DeactivateStep ==
  ASSUME IInv, NEW d \in Devices, DeactivateOk(d) \/ DeactivateErr(d),
         active' = [active EXCEPT ![d] = None], kind' = kind, lost' = lost
  PROVE  ActivationTypes' /\ ActivatedIsTracked' /\ ActivatedIsConfigured'
<1>1. /\ \/ devices' = WithState(devices, d, "Disconnected", None)
         \/ devices' = WithState(devices, d, "Deactivating", devices[d].conn)
      /\ \E left \in Profiles \cup {None} : addrs' = [addrs EXCEPT ![d] = left]
      /\ link' = link \/ link' = [link EXCEPT ![d] = "absent"]
      /\ events' = events \/ events' = Notified(events, "LinkRemoved", d)
      /\ sessions' = sessions \/ sessions' = sessions \ {d}
  BY DEF DeactivateOk, DeactivateErr, IInv, TypeOK
<1>2. ActivationTypes'
  <2> events \in Seq(HotplugEvent)
    BY SMTT(30) DEF IInv, TypeOK
  <2>1. events' \in Seq(HotplugEvent)
    BY <1>1, NotifiedType, Zenon
  <2>2. devices[d].conn \in Profiles \cup {None}
    BY DEF IInv, TypeOK, Registry
  <2>3. devices' \in Registry
    <3>1. devices \in Registry
      BY DEF IInv, TypeOK
    <3>2. "Disconnected" \in DeviceState /\ "Deactivating" \in DeviceState
      BY DEF DeviceState
    <3>3. WithState(devices, d, "Disconnected", None) \in Registry
      BY <3>1, <3>2, WithStateType
    <3>4. WithState(devices, d, "Deactivating", devices[d].conn) \in Registry
      BY <2>2, <3>1, <3>2, WithStateType
    <3> QED
      BY <1>1, <3>3, <3>4
  <2> QED
    BY <1>1, <2>1, <2>3 DEF ActivationTypes, IInv, TypeOK, LinkState
<1>3. /\ devices'[d].state # "Activated"
      /\ devices'[d].conn # None => devices'[d].state = "Deactivating"
      /\ \A e \in Devices \ {d} : devices'[e] = devices[e] /\ active'[e] = active[e]
  <2>1. devices \in Registry /\ active \in [Devices -> Profiles \cup {None}]
    BY DEF IInv, TypeOK
  <2>2. \A e \in Devices \ {d} : active'[e] = active[e]
    BY <2>1
  <2>3. CASE devices' = WithState(devices, d, "Disconnected", None)
    BY <2>1, <2>2, <2>3 DEF WithState, Registry
  <2>4. CASE devices' = WithState(devices, d, "Deactivating", devices[d].conn)
    BY <2>1, <2>2, <2>4 DEF WithState, Registry
  <2> QED
    BY <1>1, <2>3, <2>4
<1>4. ActivatedIsTracked'
  BY <1>3 DEF ActivatedIsTracked, IInv
<1>5. ActivatedIsConfigured'
  <2> SUFFICES ASSUME NEW e \in Devices \ lost,
                      devices'[e].state = "Activated", kind[e] # "Vpn",
                      ~RemovalPending(e)'
               PROVE  link'[e] # "absent" /\ addrs'[e] = devices'[e].conn
    BY DEF ActivatedIsConfigured
  <2>1. e # d /\ devices'[e] = devices[e]
    BY <1>3
  <2>2. link'[e] = link[e] /\ addrs'[e] = addrs[e]
    BY <1>1, <2>1 DEF IInv, TypeOK
  <2>3. ~Pending(events', e)
    BY DEF RemovalPending, Pending
  <2>4. ~Pending(events, e)
    <3>1. events \in Seq(HotplugEvent)
      BY DEF IInv, TypeOK
    <3>2. Pending(events, e) => Pending(Notified(events, "LinkRemoved", d), e)
      BY <3>1, PendingAppend
    <3> QED
      BY <1>1, <2>3, <3>2
  <2>5. ~RemovalPending(e)
    BY <2>4 DEF RemovalPending, Pending
  <2> QED
    BY <2>1, <2>2, <2>5 DEF IInv, ActivatedIsConfigured
<1> QED
  BY <1>2, <1>4, <1>5

\* deactivate_profile keeps the invariants.
LEMMA DeactivateProfileStep ==
  ASSUME IInv, NEW p \in Profiles, DeactivateProfile(p), kind' = kind, lost' = lost
  PROVE  /\ ActivationTypes' /\ ActivatedIsTracked' /\ ActivatedIsConfigured'
         /\ told' \in NetworkState \cup {None}
<1>1. CASE UNCHANGED <<link, addrs, events, devices, active, sessions, told>>
  BY <1>1, SMTT(30) DEF IInv, TypeOK, ActivationTypes, ActivatedIsTracked,
              ActivatedIsConfigured, RemovalPending
<1>2. ASSUME NEW d \in ActiveOn(p), active' = [active EXCEPT ![d] = None],
             d \notin Registered(devices),
             UNCHANGED <<link, addrs, events, devices, sessions, told>>
      PROVE  /\ ActivationTypes' /\ ActivatedIsTracked' /\ ActivatedIsConfigured'
             /\ told' \in NetworkState \cup {None}
  <2>1. d \in Devices /\ devices[d].state = "Gone"
    BY <1>2, SMTT(30) DEF ActiveOn, Registered
  <2>2. ActivatedIsTracked'
    BY <1>2, <2>1 DEF IInv, TypeOK, ActivatedIsTracked
  <2>3. ActivatedIsConfigured'
    BY <1>2, Zenon DEF IInv, ActivatedIsConfigured, RemovalPending
  <2> QED
    BY <1>2, <2>1, <2>2, <2>3 DEF IInv, TypeOK, ActivationTypes
<1>3. ASSUME NEW d \in ActiveOn(p), active' = [active EXCEPT ![d] = None],
             \/ DeactivateOk(d) /\ BroadcastState(TRUE)
             \/ DeactivateErr(d) /\ UNCHANGED told
      PROVE  /\ ActivationTypes' /\ ActivatedIsTracked' /\ ActivatedIsConfigured'
             /\ told' \in NetworkState \cup {None}
  <2>1. d \in Devices
    BY DEF ActiveOn
  <2>2. told' \in NetworkState \cup {None}
    BY <1>3, BroadcastType, Zenon DEF IInv, TypeOK
  <2> QED
    BY <1>3, <2>1, <2>2, DeactivateStep, Zenon
<1> QED
  BY <1>1, <1>2, <1>3, Zenon DEF DeactivateProfile
-----------------------------------------------------------------------------
\* Refreshing the registry.

\* A refresh keeps the connection of every device that stays Activated, so it
\* keeps the invariants over the same `active` and the same queue.
LEMMA RefreshKeeps ==
  ASSUME IInv, NEW devs \in RefreshOutcomes
  PROVE  Tracked(devs, active) /\ Configured(devs, events)
<1>1. CASE devs = devices
  BY <1>1 DEF IInv, ActivatedIsTracked, ActivatedIsConfigured, Tracked,
              Configured, RemovalPending, Pending
<1>2. CASE devs = Refreshed
  <2>1. ASSUME NEW d \in Devices
        PROVE  \/ devs[d].conn = None /\ devs[d].state # "Activated"
               \/ devs[d].conn = devices[d].conn /\ devs[d].state = devices[d].state
    BY <1>2 DEF Refreshed, RefreshedDevice, Gone, Scanned, Registered
  <2>2. Tracked(devs, active)
    BY <2>1, Zenon DEF IInv, ActivatedIsTracked, Tracked
  <2>3. Configured(devs, events)
    <3> SUFFICES ASSUME NEW d \in Devices \ lost,
                        devs[d].state = "Activated", kind[d] # "Vpn",
                        ~Pending(events, d)
                 PROVE  link[d] # "absent" /\ addrs[d] = devs[d].conn
      BY DEF Configured
    <3>1. ~RemovalPending(d)
      BY DEF RemovalPending, Pending
    <3> QED
      BY <2>1, <3>1 DEF IInv, ActivatedIsConfigured
  <2> QED
    BY <2>2, <2>3
<1> QED
  BY <1>1, <1>2 DEF RefreshOutcomes
-----------------------------------------------------------------------------
\* The inductive invariant.

\* Initially nothing is registered and nothing is queued.
LEMMA InitInvariant == Init => IInv
<1> SUFFICES ASSUME Init PROVE IInv
  OBVIOUS
<1>1. devices \in Registry
  BY DEF Init, Registry, Gone
<1>2. TypeOK
  BY <1>1, ConstantsAssumption DEF Init, TypeOK, NetworkState
<1>3. \A d \in Devices : devices[d].state = "Gone" /\ devices[d].conn = None
  BY Zenon DEF Init, Gone
<1> QED
  BY <1>2, <1>3 DEF IInv, ActivatedIsTracked, ActivatedIsConfigured, QuietBeforeRun

\* The rest of TypeOK: what an activation does not change.
ConfigTypes ==
  /\ connections \in [Profiles -> ProfileContent \cup {None}]
  /\ files \in [Profiles -> ProfileContent \cup {None}]
  /\ unmanaged \in SUBSET Devices
  /\ connectivity \in Connectivities
  /\ todo \in SUBSET Devices
  /\ told \in NetworkState \cup {None}

\* A handler of the running daemon keeps the invariant if it keeps the parts.
LEMMA HandlerKeeps ==
  ASSUME IInv, phase = "run", phase' = phase, kind' = kind, lost' = lost,
         ActivationTypes', ActivatedIsTracked', ActivatedIsConfigured',
         ConfigTypes'
  PROVE  IInv'
<1>1. TypeOK'
  BY DEF IInv, TypeOK, ActivationTypes, ConfigTypes
<1> QED
  BY <1>1 DEF IInv, QuietBeforeRun

\* A step of the running daemon that changes neither the registry, nor
\* `active`, nor the kernel keeps the invariant.
LEMMA ConfigStep ==
  ASSUME IInv, phase = "run",
         UNCHANGED <<kernel, phase, devices, active, sessions>>, ConfigTypes'
  PROVE  IInv'
<1>1. ActivationTypes' /\ ActivatedIsTracked' /\ ActivatedIsConfigured'
  BY DEF kernel, IInv, TypeOK, ActivationTypes, ActivatedIsTracked,
         ActivatedIsConfigured, RemovalPending
<1> QED
  BY <1>1, HandlerKeeps DEF kernel

\* A step that only stores a refreshed registry keeps the invariant.
LEMMA RefreshStep ==
  ASSUME IInv, phase = "run", devices' \in RefreshOutcomes,
         UNCHANGED <<kernel, phase, active, sessions>>, ConfigTypes'
  PROVE  IInv'
<1>1. devices' \in Registry
  BY RefreshType DEF IInv
<1>2. Tracked(devices', active) /\ Configured(devices', events)
  BY RefreshKeeps
<1>3. ActivationTypes'
  BY <1>1 DEF kernel, IInv, TypeOK, ActivationTypes
<1>4. ActivatedIsTracked'
  BY <1>2 DEF ActivatedIsTracked, Tracked
<1>5. ActivatedIsConfigured'
  BY <1>2 DEF kernel, ActivatedIsConfigured, Configured, RemovalPending, Pending
<1> QED
  BY <1>3, <1>4, <1>5, HandlerKeeps DEF kernel

\* A change of a link keeps the invariant: an Activated device whose link
\* vanishes has its removal queued, or counts as lost.
LEMMA KernelStep ==
  ASSUME IInv, NEW d \in Devices, NEW to \in LinkState, KernelChange(d, to)
  PROVE  IInv'
<1> DEFINE op == IF to = "absent" THEN "LinkRemoved" ELSE "LinkAdded"
<1>1. /\ link' = [link EXCEPT ![d] = to]
      /\ addrs' = IF to = "absent" THEN [addrs EXCEPT ![d] = None] ELSE addrs
      /\ \/ events' = Notified(events, op, d) /\ lost' = lost
         \/ events' = events /\ lost' = lost \cup {d}
      /\ kind' = kind /\ phase' = phase /\ devices' = devices /\ active' = active
      /\ connections' = connections /\ files' = files /\ unmanaged' = unmanaged
      /\ connectivity' = connectivity /\ todo' = todo /\ sessions' = sessions
      /\ told' = told
  BY DEF KernelChange, config
<1>2. events \in Seq(HotplugEvent) /\ op \in {"LinkAdded", "LinkRemoved"}
  BY DEF IInv, TypeOK
<1>3. TypeOK'
  <2>1. events' \in Seq(HotplugEvent)
    BY <1>1, <1>2, NotifiedType, Zenon
  <2> QED
    BY <1>1, <2>1 DEF IInv, TypeOK
<1>4. ActivatedIsTracked' /\ QuietBeforeRun'
  BY <1>1 DEF IInv, ActivatedIsTracked, QuietBeforeRun
<1>5. ActivatedIsConfigured'
  <2> SUFFICES ASSUME NEW e \in Devices \ lost',
                      devices[e].state = "Activated", kind[e] # "Vpn",
                      ~RemovalPending(e)'
               PROVE  link'[e] # "absent" /\ addrs'[e] = devices[e].conn
    BY <1>1 DEF ActivatedIsConfigured
  <2>1. phase = "run" /\ e \in Devices \ lost
    BY <1>1 DEF IInv, QuietBeforeRun
  <2>2. ~Pending(events', e)
    BY DEF RemovalPending, Pending
  <2>3. ~RemovalPending(e)
    <3>1. ~Pending(events, e)
      BY <1>1, <1>2, <2>2, PendingAppend
    <3> QED
      BY <3>1 DEF RemovalPending, Pending
  <2>4. link[e] # "absent" /\ addrs[e] = devices[e].conn
    BY <2>1, <2>3 DEF IInv, ActivatedIsConfigured
  <2>5. CASE e = d
    <3>1. to # "absent"
      <4> SUFFICES ASSUME to = "absent" PROVE FALSE
        OBVIOUS
      <4>1. events' = Append(events, [op |-> "LinkRemoved", dev |-> e])
        BY <1>1, <2>1, <2>5 DEF Notified
      <4>2. /\ Len(events') \in 1..Len(events')
            /\ events'[Len(events')] = [op |-> "LinkRemoved", dev |-> e]
        BY <1>2, <4>1
      <4> QED
        BY <2>2, <4>2 DEF Pending
    <3> QED
      BY <1>1, <2>4, <2>5, <3>1 DEF IInv, TypeOK
  <2>6. CASE e # d
    BY <1>1, <2>4, <2>6 DEF IInv, TypeOK
  <2> QED
    BY <2>5, <2>6
<1> QED
  BY <1>3, <1>4, <1>5 DEF IInv

\* Starting and stopping the daemon keeps the invariant: the registry it builds
\* or drops has no Activated device.
LEMMA LifecycleStep ==
  ASSUME IInv, New \/ Run \/ Stop
  PROVE  IInv'
<1>1. CASE New
  <2> DEFINE Found(d, u) == [state   |-> IF d \in u THEN "Unmanaged" ELSE Scanned(d),
                             conn    |-> None,
                             carrier |-> link[d] = "up"]
             Entry == [state: DeviceState \cup {"Gone"},
                       conn: Profiles \cup {None}, carrier: BOOLEAN]
  <2>a. PICK u \in Unmanageds :
          devices' = [d \in Devices |-> IF link[d] = "absent" THEN Gone ELSE Found(d, u)]
    BY <1>1 DEF New
  <2>b. \A d \in Devices : Found(d, u) \in Entry
    BY DEF Scanned, DeviceState
  <2>c. \A d \in Devices : Found(d, u).state # "Activated" /\ Found(d, u).conn = None
    BY DEF Scanned
  <2>d. Gone \in Entry /\ Gone.state # "Activated" /\ Gone.conn = None
    BY DEF Gone
  <2> HIDE DEF Found
  <2>1. devices' \in Registry
    BY <2>a, <2>b, <2>d DEF Registry
  <2>2. \A d \in Devices :
          devices'[d].state # "Activated" /\ devices'[d].conn = None
    BY <2>a, <2>c, <2>d
  <2>3. TypeOK'
    <3>1. /\ phase' = "new" /\ connections' = files /\ unmanaged' \in SUBSET Devices
          /\ kind' = kind /\ link' = link /\ addrs' = addrs /\ events' = events /\ lost' = lost
          /\ UNCHANGED <<active, files, connectivity, todo, sessions, told>>
      BY <1>1, ConstantsAssumption DEF New, kernel
    <3> QED
      BY <2>1, <3>1 DEF IInv, TypeOK
  <2> QED
    BY <2>2, <2>3 DEF IInv, ActivatedIsTracked, ActivatedIsConfigured, QuietBeforeRun
<1>2. CASE Run
  <2>1. todo' \in SUBSET Devices
    BY <1>2 DEF Run, Registered
  <2>2. TypeOK'
    BY <1>2, <2>1, Zenon DEF Run, kernel, config, IInv, TypeOK
  <2>3. ActivatedIsTracked' /\ ActivatedIsConfigured' /\ QuietBeforeRun'
    BY <1>2, Zenon DEF Run, kernel, IInv, ActivatedIsTracked, ActivatedIsConfigured,
                RemovalPending, QuietBeforeRun
  <2> QED
    BY <2>2, <2>3 DEF IInv
<1>3. CASE Stop
  <2>1. devices' \in Registry
    BY <1>3 DEF Stop, Registry, Gone
  <2>2. \A d \in Devices : devices'[d].state = "Gone" /\ devices'[d].conn = None
    BY <1>3 DEF Stop, Gone
  <2>3. TypeOK'
    BY <1>3, <2>1, ConstantsAssumption DEF Stop, IInv, TypeOK
  <2> QED
    BY <2>2, <2>3 DEF IInv, ActivatedIsTracked, ActivatedIsConfigured, QuietBeforeRun
<1> QED
  BY <1>1, <1>2, <1>3

\* Hotplug events keep the invariant: a removal drops the device from the
\* registry, `active` and the queue at once, however late it comes.
LEMMA HotplugStep ==
  ASSUME IInv, HandleLinkAdded \/ HandleLinkRemoved \/ HandleAddressChanged
  PROVE  IInv'
<1>1. events \in Seq(HotplugEvent) /\ devices \in Registry
  BY DEF IInv, TypeOK
<1>2. CASE HandleLinkAdded
  <2>1. /\ phase = "run" /\ events # << >> /\ Head(events).op = "LinkAdded"
        /\ UNCHANGED <<phase, todo, connections, files, unmanaged, connectivity>>
    BY <1>2 DEF HandleLinkAdded, Idle, config
  <2>2. PICK devs \in RefreshOutcomes :
          TryAutoconnect(devs, Tail(events), Head(events).dev, TRUE)
    BY <1>2, Zenon DEF HandleLinkAdded
  <2>3. devs \in Registry /\ Tracked(devs, active) /\ Configured(devs, events)
    BY <2>2, RefreshType, RefreshKeeps DEF IInv
  <2>4. Tail(events) \in Seq(HotplugEvent) /\ Head(events) \in HotplugEvent
    BY <1>1, <2>1
  <2>5. Head(events).dev \in Devices
    BY <2>4, Zenon DEF HotplugEvent
  <2>6. Configured(devs, Tail(events))
    <3>1. \A d \in Devices : Head(events) # [op |-> "LinkRemoved", dev |-> d]
      BY <2>1
    <3>2. \A d \in Devices : Pending(events, d) => Pending(Tail(events), d)
      BY <1>1, <2>1, <3>1, PendingTail, Zenon
    <3> QED
      BY <2>3, <3>2 DEF Configured
  <2>7. /\ ActivationTypes' /\ ActivatedIsTracked' /\ ActivatedIsConfigured'
        /\ told' \in NetworkState \cup {None} /\ kind' = kind /\ lost' = lost
    BY <2>2, <2>3, <2>4, <2>5, <2>6, TryAutoconnectStep, Zenon DEF IInv
  <2>8. ConfigTypes'
    BY <2>1, <2>7 DEF ConfigTypes, IInv, TypeOK
  <2> QED
    BY <2>1, <2>7, <2>8, HandlerKeeps, Zenon
<1>3. CASE HandleLinkRemoved
  <2> DEFINE d == Head(events).dev
  <2>1. /\ phase = "run" /\ events # << >> /\ Head(events).op = "LinkRemoved"
        /\ active' = [active EXCEPT ![d] = None]
        /\ devices' = [devices EXCEPT ![d] = Gone]
        /\ events' = Tail(events)
        /\ BroadcastState(TRUE)
        /\ UNCHANGED <<kind, link, addrs, lost, phase, todo, connections, files,
                       unmanaged, connectivity, sessions>>
    BY <1>3, Zenon DEF HandleLinkRemoved, Idle, config
  <2>2. Tail(events) \in Seq(HotplugEvent) /\ Head(events) \in HotplugEvent
    BY <1>1, <2>1
  <2>3. d \in Devices
    BY <2>2 DEF HotplugEvent
  <2> HIDE DEF d
  <2>4. Gone \in [state: DeviceState \cup {"Gone"},
                  conn: Profiles \cup {None}, carrier: BOOLEAN]
    BY DEF Gone
  <2>5. ActivationTypes'
    BY <2>1, <2>2, <2>3, <2>4, <1>1 DEF ActivationTypes, IInv, TypeOK, Registry
  <2>6. /\ devices'[d].state = "Gone" /\ devices'[d].conn = None
        /\ \A e \in Devices \ {d} : devices'[e] = devices[e] /\ active'[e] = active[e]
    BY <1>1, <2>1, <2>3 DEF Gone, Registry, IInv, TypeOK
  <2>7. ActivatedIsTracked'
    BY <2>6 DEF ActivatedIsTracked, IInv
  <2>8. ActivatedIsConfigured'
    <3> SUFFICES ASSUME NEW e \in Devices \ lost,
                        devices'[e].state = "Activated", kind[e] # "Vpn",
                        ~RemovalPending(e)'
                 PROVE  link[e] # "absent" /\ addrs[e] = devices'[e].conn
      BY <2>1 DEF ActivatedIsConfigured
    <3>1. e # d /\ devices'[e] = devices[e]
      BY <2>6
    <3>2. Head(events) # [op |-> "LinkRemoved", dev |-> e]
      BY <3>1 DEF d
    <3>3. ~Pending(Tail(events), e)
      BY <2>1 DEF RemovalPending, Pending
    <3>4. ~Pending(events, e)
      BY <1>1, <2>1, <3>2, <3>3, PendingTail
    <3>5. ~RemovalPending(e)
      BY <3>4 DEF RemovalPending, Pending
    <3> QED
      BY <3>1, <3>5 DEF IInv, ActivatedIsConfigured
  <2>9. ConfigTypes'
    <3>1. told' \in NetworkState \cup {None}
      BY <2>1, BroadcastType, Zenon DEF IInv
    <3> QED
      BY <2>1, <3>1 DEF ConfigTypes, IInv, TypeOK
  <2> QED
    BY <2>1, <2>5, <2>7, <2>8, <2>9, HandlerKeeps
<1>4. CASE HandleAddressChanged
  <2>1. told' \in NetworkState \cup {None}
    BY <1>4, BroadcastType, Zenon DEF HandleAddressChanged, IInv
  <2>2. ConfigTypes'
    BY <1>4, <2>1 DEF HandleAddressChanged, config, ConfigTypes, IInv, TypeOK
  <2> QED
    BY <1>4, <2>2, RefreshStep DEF HandleAddressChanged, Idle
<1> QED
  BY <1>2, <1>3, <1>4

\* The next device of an autoconnect loop keeps the invariant.
LEMMA AutoconnectStep ==
  ASSUME IInv, AutoconnectNext
  PROVE  IInv'
<1>1. PICK d \in todo : todo' = todo \ {d} /\ TryAutoconnect(devices, events, d, FALSE)
  BY Zenon DEF AutoconnectNext
<1>2. /\ phase = "run" /\ d \in Devices /\ devices \in Registry
      /\ events \in Seq(HotplugEvent)
      /\ UNCHANGED <<phase, connections, files, unmanaged, connectivity>>
  BY DEF AutoconnectNext, config, IInv, TypeOK
<1>3. Tracked(devices, active) /\ Configured(devices, events)
  BY RefreshKeeps DEF RefreshOutcomes
<1>4. /\ ActivationTypes' /\ ActivatedIsTracked' /\ ActivatedIsConfigured'
      /\ told' \in NetworkState \cup {None} /\ kind' = kind /\ lost' = lost
  BY <1>1, <1>2, <1>3, TryAutoconnectStep, Zenon DEF IInv
<1>5. ConfigTypes'
  BY <1>1, <1>2, <1>4 DEF ConfigTypes, IInv, TypeOK
<1> QED
  BY <1>2, <1>4, <1>5, HandlerKeeps

\* The scheduler's ticks keep the invariant.
LEMMA TickStep ==
  ASSUME IInv, Tick
  PROVE  IInv'
<1>1. CASE TickConnectivity
  <2>1. told' \in NetworkState
    BY <1>1, OverallStateType DEF TickConnectivity
  <2>2. ConfigTypes'
    BY <1>1, <2>1 DEF TickConnectivity, ConfigTypes, IInv, TypeOK
  <2> QED
    BY <1>1, <2>2, ConfigStep DEF TickConnectivity, Idle
<1>2. CASE TickWifiScan
  <2>1. ConfigTypes'
    BY <1>2 DEF TickWifiScan, config, Registered, ConfigTypes, IInv, TypeOK
  <2> QED
    BY <1>2, <2>1, ConfigStep DEF TickWifiScan, Idle
<1>3. CASE TickDeviceRefresh
  <2>1. ConfigTypes'
    BY <1>3 DEF TickDeviceRefresh, config, Registered, ConfigTypes, IInv, TypeOK
  <2> QED
    BY <1>3, <2>1, RefreshStep, Zenon DEF TickDeviceRefresh, Idle
<1> QED
  BY <1>1, <1>2, <1>3 DEF Tick

\* Every request of a client keeps the invariant.
LEMMA RequestStep ==
  ASSUME IInv, Request
  PROVE  IInv'
<1>1. /\ devices \in Registry /\ events \in Seq(HotplugEvent)
      /\ Tracked(devices, active) /\ Configured(devices, events)
  BY RefreshKeeps DEF RefreshOutcomes, IInv, TypeOK
<1>2. ASSUME NEW p \in Profiles, NEW content \in Contents, AddConnection(p, content)
      PROVE  IInv'
  <2>1. ConfigTypes'
    BY <1>2, ConstantsAssumption DEF AddConnection, ConfigTypes, IInv, TypeOK
  <2> QED
    BY <1>2, <2>1, ConfigStep DEF AddConnection, Serving, Idle
<1>3. ASSUME NEW p \in Profiles, DeleteConnection(p) \/ DeactivateConnection(p)
      PROVE  IInv'
  <2>1. /\ phase = "run" /\ DeactivateProfile(p)
        /\ UNCHANGED <<kind, lost, phase, unmanaged, connectivity, todo>>
        /\ \/ /\ files' = [files EXCEPT ![p] = None]
              /\ connections' = [connections EXCEPT ![p] = None]
           \/ UNCHANGED <<files, connections>>
    BY <1>3 DEF DeleteConnection, DeactivateConnection, Serving, Idle, config
  <2>2. /\ ActivationTypes' /\ ActivatedIsTracked' /\ ActivatedIsConfigured'
        /\ told' \in NetworkState \cup {None}
    BY <2>1, DeactivateProfileStep
  <2>3. ConfigTypes'
    BY <2>1, <2>2 DEF ConfigTypes, IInv, TypeOK
  <2> QED
    BY <2>1, <2>2, <2>3, HandlerKeeps
<1>4. ASSUME NEW p \in Profiles, ActivateConnection(p)
      PROVE  IInv'
  <2>1. /\ phase = "run" /\ ActivateProfile(devices, events, p, connections[p], FALSE)
        /\ UNCHANGED <<phase, connections, files, unmanaged, connectivity, todo>>
    BY <1>4, Zenon DEF ActivateConnection, Serving, Idle, config
  <2>2. /\ ActivationTypes' /\ ActivatedIsTracked' /\ ActivatedIsConfigured'
        /\ told' \in NetworkState \cup {None} /\ kind' = kind /\ lost' = lost
    BY <1>1, <2>1, ActivateProfileStep, Zenon DEF IInv
  <2>3. ConfigTypes'
    BY <2>1, <2>2 DEF ConfigTypes, IInv, TypeOK
  <2> QED
    BY <2>1, <2>2, <2>3, HandlerKeeps
<1>5. ASSUME NEW p \in WifiIds, NEW d \in Devices, ConnectWifi(d, p)
      PROVE  IInv'
  <2>1. p \in Profiles
    BY ConstantsAssumption
  <2>2. WifiContent(d) \in ProfileContent
    BY DEF WifiContent, ProfileContent, DeviceTypes
  <2>3. /\ phase = "run"
        /\ files' = [files EXCEPT ![p] = WifiContent(d)]
        /\ connections' = [connections EXCEPT ![p] = WifiContent(d)]
        /\ ActivateProfile(devices, events, p, WifiContent(d), FALSE)
        /\ UNCHANGED <<phase, unmanaged, connectivity, todo>>
    BY <1>5, Zenon DEF ConnectWifi, Serving, Idle
  <2>4. /\ ActivationTypes' /\ ActivatedIsTracked' /\ ActivatedIsConfigured'
        /\ told' \in NetworkState \cup {None} /\ kind' = kind /\ lost' = lost
    BY <1>1, <2>1, <2>3, ActivateProfileStep, Zenon DEF IInv
  <2>5. ConfigTypes'
    BY <2>1, <2>2, <2>3, <2>4 DEF ConfigTypes, IInv, TypeOK
  <2> QED
    BY <2>3, <2>4, <2>5, HandlerKeeps
<1>6. ASSUME NEW p \in WifiIds, ForgetWifi(p)
      PROVE  IInv'
  <2>1. p \in Profiles
    BY ConstantsAssumption
  <2>2. ConfigTypes'
    BY <1>6, <2>1 DEF ForgetWifi, ConfigTypes, IInv, TypeOK
  <2> QED
    BY <1>6, <2>2, ConfigStep DEF ForgetWifi, Serving, Idle
<1>7. CASE Reload
  <2>1. ConfigTypes'
    BY <1>7, ConstantsAssumption DEF Reload, ConfigTypes, IInv, TypeOK
  <2> QED
    BY <1>7, <2>1, ConfigStep DEF Reload, Serving, Idle
<1> QED
  BY <1>2, <1>3, <1>4, <1>5, <1>6, <1>7 DEF Request

\* Every step keeps the inductive invariant.
LEMMA NextInvariant == IInv /\ [Next]_vars => IInv'
<1> SUFFICES ASSUME IInv, [Next]_vars PROVE IInv'
  OBVIOUS
<1>1. CASE \E d \in Devices, to \in LinkState : KernelChange(d, to)
  BY <1>1, KernelStep
<1>2. CASE New \/ Run \/ Stop
  BY <1>2, LifecycleStep
<1>3. CASE Handle
  BY <1>3, AutoconnectStep, HotplugStep DEF Handle
<1>4. CASE HandleAddressChanged
  BY <1>4, HotplugStep
<1>5. CASE Tick
  BY <1>5, TickStep
<1>6. CASE Request
  BY <1>6, RequestStep, Zenon
<1>7. CASE UNCHANGED vars
  BY <1>7 DEF vars, IInv, TypeOK, ActivatedIsTracked, ActivatedIsConfigured,
              RemovalPending, QuietBeforeRun
<1> QED
  BY <1>1, <1>2, <1>3, <1>4, <1>5, <1>6, <1>7 DEF Next

\* The inductive invariant holds in every reachable state.
THEOREM InductiveInvariant == Spec => []IInv
BY InitInvariant, NextInvariant, PTL DEF Spec

\* Every variable of the manager keeps its type, for every set of devices and
\* profiles.
THEOREM TypeCorrect == Spec => []TypeOK
<1>1. IInv => TypeOK
  BY DEF IInv
<1> QED
  BY <1>1, InductiveInvariant, PTL

\* The registry's Activated devices and the `active` map of manager.rs agree in
\* every reachable state.
THEOREM TrackedAlways == Spec => []ActivatedIsTracked
<1>1. IInv => ActivatedIsTracked
  BY DEF IInv
<1> QED
  BY <1>1, InductiveInvariant, PTL

\* Every Activated link device exists and holds the addresses of its profile,
\* unless the removal of its link is queued or its notification was lost.
THEOREM ConfiguredAlways == Spec => []ActivatedIsConfigured
<1>1. IInv => ActivatedIsConfigured
  BY DEF IInv
<1> QED
  BY <1>1, InductiveInvariant, PTL
-----------------------------------------------------------------------------
\* Activated devices are left alone.

\* What ActivatedUndisturbed says of one device in one step.
Undisturbed(d) ==
  devices'[d].state = "Activated"
    => /\ devices'[d].conn = devices[d].conn
       /\ active'[d] = active[d]
       /\ addrs'[d] = addrs[d] \/ link'[d] = "absent"

\* activate_profile passes over a link device that is not registered or carries
\* a connection, even where it brings up the interface of a VPN session.
LEMMA ActivateProfileSpares ==
  ASSUME TypeOK, NEW devs \in Registry, NEW queue, NEW p \in Profiles,
         NEW content, NEW force, NEW d \in Devices, kind[d] # "Vpn",
         d \notin Registered(devs) \/ devs[d].conn # None,
         ActivateProfile(devs, queue, p, content, force)
  PROVE  devices'[d] = devs[d] /\ active'[d] = active[d] /\ addrs'[d] = addrs[d]
<1>1. ASSUME NEW e \in FindDeviceForProfile(devs, content),
             ActivateOk(devs, queue, e, p) \/ ActivateErr(devs, queue, e, p)
      PROVE  devices'[d] = devs[d] /\ active'[d] = active[d] /\ addrs'[d] = addrs[d]
  <2>1. e \in Devices /\ e # d
    BY DEF FindDeviceForProfile, Registered
  <2>2. kind[e] = "Vpn" => VpnIf[p] \in Devices /\ VpnIf[p] # d
    BY <2>1, SessionInterface
  <2>3. devices'[d] = devs[d]
    BY <1>1, <2>1 DEF ActivateOk, ActivateErr, WithState, Registry
  <2>4. active'[d] = active[d]
    BY <1>1, <2>1, Zenon DEF ActivateOk, ActivateErr, TypeOK
  <2>5. addrs'[d] = addrs[d]
    <3>1. CASE ActivateOk(devs, queue, e, p)
      <4>1. addrs' = [addrs EXCEPT ![IF kind[e] = "Vpn" THEN VpnIf[p] ELSE e] = p]
        BY <3>1, Zenon DEF ActivateOk
      <4>2. d # IF kind[e] = "Vpn" THEN VpnIf[p] ELSE e
        BY <2>1, <2>2, Zenon
      <4>3. addrs \in [Devices -> Profiles \cup {None}]
        BY Zenon DEF TypeOK
      <4> QED
        BY <4>1, <4>2, <4>3, Zenon
    <3>2. CASE ActivateErr(devs, queue, e, p)
      <4>1. \/ addrs' = addrs
            \/ \E left : addrs' = [addrs EXCEPT ![e] = left]
            \/ kind[e] = "Vpn" /\ \E left : addrs' = [addrs EXCEPT ![VpnIf[p]] = left]
        BY <3>2 DEF ActivateErr
      <4> QED
        BY <2>1, <2>2, <4>1, Zenon DEF TypeOK
    <3> QED
      BY <1>1, <3>1, <3>2, ZenonT(30)
  <2> QED
    BY <2>3, <2>4, <2>5, Zenon
<1> QED
  BY <1>1, Zenon DEF ActivateProfile

\* So does try_autoconnect, for whatever device it runs.
LEMMA TryAutoconnectSpares ==
  ASSUME TypeOK, NEW devs \in Registry, NEW queue, NEW a, NEW force,
         NEW d \in Devices, kind[d] # "Vpn",
         d \notin Registered(devs) \/ devs[d].conn # None,
         TryAutoconnect(devs, queue, a, force)
  PROVE  devices'[d] = devs[d] /\ active'[d] = active[d] /\ addrs'[d] = addrs[d]
<1>1. ASSUME NEW v \in Visible(a), NEW p \in Select(a, v),
             ActivateProfile(devs, queue, p, connections[p], force)
      PROVE  devices'[d] = devs[d] /\ active'[d] = active[d] /\ addrs'[d] = addrs[d]
  <2>1. p \in Profiles
    BY Zenon DEF Visible, Select, Eligible
  <2> QED
    BY <1>1, <2>1, ActivateProfileSpares, Zenon
<1> QED
  BY <1>1, Zenon DEF TryAutoconnect

\* deactivate_profile takes down one device and spares the others.
LEMMA DeactivateProfileSpares ==
  ASSUME TypeOK, NEW p, DeactivateProfile(p), NEW d \in Devices
  PROVE  Undisturbed(d)
<1>1. ASSUME NEW e \in ActiveOn(p), active' = [active EXCEPT ![e] = None],
             DeactivateOk(e) \/ DeactivateErr(e)
      PROVE  Undisturbed(d)
  <2>1. e \in Devices /\ devices \in Registry
    BY DEF ActiveOn, TypeOK
  <2>2. /\ \/ devices' = WithState(devices, e, "Disconnected", None)
           \/ devices' = WithState(devices, e, "Deactivating", devices[e].conn)
        /\ \E left : addrs' = [addrs EXCEPT ![e] = left]
    BY <1>1 DEF DeactivateOk, DeactivateErr
  <2>3. CASE e = d
    <3>1. \A state, conn : WithState(devices, d, state, conn)[d].state = state
      BY <2>1, Zenon DEF WithState, Registry
    <3>2. devices'[d].state \in {"Disconnected", "Deactivating"}
      BY <2>2, <2>3, <3>1, Zenon
    <3> QED
      BY <3>2 DEF Undisturbed
  <2>4. CASE e # d
    <3>1. devices'[d] = devices[d]
      BY <2>1, <2>2, <2>4, Zenon DEF WithState, Registry
    <3> QED
      BY <1>1, <2>1, <2>2, <2>4, <3>1 DEF Undisturbed, TypeOK
  <2> QED
    BY <2>3, <2>4
<1>2. ASSUME NEW e \in ActiveOn(p), active' = [active EXCEPT ![e] = None],
             e \notin Registered(devices), UNCHANGED <<addrs, devices>>
      PROVE  Undisturbed(d)
  BY <1>2 DEF ActiveOn, Registered, Undisturbed, TypeOK
<1>3. CASE UNCHANGED <<addrs, devices, active>>
  BY <1>3 DEF Undisturbed
<1> QED
  BY <1>1, <1>2, <1>3, ZenonT(30) DEF DeactivateProfile

\* A refresh keeps a managed device that carries a connection, or drops it.
LEMMA RefreshSpares ==
  ASSUME NEW d \in Devices \ unmanaged, d \in Registered(devices),
         devices[d].conn # None, NEW devs \in RefreshOutcomes
  PROVE  \/ devs[d].conn = devices[d].conn
         \/ d \notin Registered(devs) /\ devs[d].state = "Gone"
<1>1. CASE devs = devices
  BY <1>1
<1>2. CASE devs = Refreshed /\ link[d] = "absent"
  <2>1. devs[d] = Gone
    BY <1>2 DEF Refreshed
  <2>2. devs[d].state = "Gone"
    BY <2>1 DEF Gone
  <2> QED
    BY <2>2 DEF Registered
<1>3. CASE devs = Refreshed /\ link[d] # "absent"
  <2>1. devs[d] = RefreshedDevice(d)
    BY <1>3 DEF Refreshed
  <2>2. RefreshedDevice(d).conn = devices[d].conn
    BY DEF RefreshedDevice
  <2> QED
    BY <2>1, <2>2
<1> QED
  BY <1>1, <1>2, <1>3 DEF RefreshOutcomes

\* No step disturbs a managed, Activated link device.
LEMMA StepUndisturbed ==
  ASSUME IInv, [Next]_vars, NEW d \in Devices \ unmanaged, kind[d] # "Vpn",
         devices[d].state = "Activated"
  PROVE  Undisturbed(d)
<1>1. /\ devices[d].conn # None /\ active[d] = devices[d].conn
      /\ d \in Registered(devices) /\ devices \in Registry /\ TypeOK
  BY DEF IInv, ActivatedIsTracked, Registered, TypeOK
<1>2. CASE UNCHANGED <<addrs, devices, active>>
  BY <1>2, Zenon DEF Undisturbed
<1>3. ASSUME NEW e \in Devices, NEW to \in LinkState, KernelChange(e, to)
      PROVE  Undisturbed(d)
  BY <1>1, <1>3, Zenon DEF KernelChange, Undisturbed, TypeOK
<1>4. CASE New
  BY <1>4, Zenon DEF New, IInv, QuietBeforeRun
<1>5. CASE Stop
  BY <1>5, Zenon DEF Stop, Gone, Undisturbed
<1>6. CASE AutoconnectNext
  <2>1. PICK e \in todo : TryAutoconnect(devices, events, e, FALSE)
    BY <1>6, Zenon DEF AutoconnectNext
  <2>2. devices'[d] = devices[d] /\ active'[d] = active[d] /\ addrs'[d] = addrs[d]
    BY <1>1, <2>1, TryAutoconnectSpares, Zenon
  <2> QED
    BY <2>2 DEF Undisturbed
<1>7. CASE HandleLinkAdded
  <2>1. PICK devs \in RefreshOutcomes :
          TryAutoconnect(devs, Tail(events), Head(events).dev, TRUE)
    BY <1>7, Zenon DEF HandleLinkAdded
  <2>2. devs \in Registry
    BY <1>1, RefreshType
  <2>3. \/ devs[d].conn = devices[d].conn
        \/ d \notin Registered(devs) /\ devs[d].state = "Gone"
    BY <1>1, RefreshSpares
  <2>4. devices'[d] = devs[d] /\ active'[d] = active[d] /\ addrs'[d] = addrs[d]
    BY <1>1, <2>1, <2>2, <2>3, TryAutoconnectSpares, ZenonT(30)
  <2> QED
    BY <2>3, <2>4, Zenon DEF Undisturbed
<1>8. CASE HandleLinkRemoved
  <2>1. /\ active' = [active EXCEPT ![Head(events).dev] = None]
        /\ devices' = [devices EXCEPT ![Head(events).dev] = Gone]
        /\ addrs' = addrs
    BY <1>8, Zenon DEF HandleLinkRemoved
  <2>2. CASE Head(events).dev = d
    BY <1>1, <2>1, <2>2 DEF Undisturbed, Gone, Registry
  <2>3. CASE Head(events).dev # d
    BY <1>1, <2>1, <2>3, Zenon DEF Undisturbed, Registry, TypeOK
  <2> QED
    BY <2>2, <2>3
<1>9. CASE HandleAddressChanged \/ TickDeviceRefresh
  <2>1. devices' \in RefreshOutcomes /\ active' = active /\ addrs' = addrs
    BY <1>9, ZenonT(30) DEF HandleAddressChanged, TickDeviceRefresh, kernel
  <2>2. \/ devices'[d].conn = devices[d].conn
        \/ d \notin Registered(devices') /\ devices'[d].state = "Gone"
    BY <1>1, <2>1, RefreshSpares
  <2> QED
    BY <2>1, <2>2, Zenon DEF Undisturbed
<1>10. ASSUME NEW p \in Profiles, DeleteConnection(p) \/ DeactivateConnection(p)
       PROVE  Undisturbed(d)
  BY <1>1, <1>10, DeactivateProfileSpares DEF DeleteConnection, DeactivateConnection
<1>11. ASSUME NEW p \in Profiles, NEW content,
              ActivateProfile(devices, events, p, content, FALSE)
       PROVE  Undisturbed(d)
  <2>1. devices'[d] = devices[d] /\ active'[d] = active[d] /\ addrs'[d] = addrs[d]
    BY <1>1, <1>11, ActivateProfileSpares, Zenon
  <2> QED
    BY <2>1 DEF Undisturbed
<1>12. CASE Request
  <2>1. WifiIds \subseteq Profiles
    BY ConstantsAssumption
  <2> QED
    BY <1>2, <1>10, <1>11, <1>12, <2>1, Zenon
       DEF Request, AddConnection, ActivateConnection, ConnectWifi, ForgetWifi,
           Reload, kernel
<1>13. CASE Run \/ TickConnectivity \/ TickWifiScan \/ UNCHANGED vars
  BY <1>2, <1>13, Zenon DEF Run, TickConnectivity, TickWifiScan, vars, kernel
<1> QED
  BY <1>3, <1>4, <1>5, <1>6, <1>7, <1>8, <1>9, <1>12, <1>13, Zenon DEF Next, Handle, Tick

\* While a managed link device stays Activated, no handler of manager.rs gives
\* it another connection, drops it from `active` or touches its addresses.
THEOREM UndisturbedAlways == Spec => ActivatedUndisturbed
<1>1. IInv /\ [Next]_vars
        => [\A d \in Devices \ unmanaged :
              /\ kind[d] # "Vpn"
              /\ devices[d].state = "Activated"
              /\ devices'[d].state = "Activated"
              => /\ devices'[d].conn = devices[d].conn
                 /\ active'[d] = active[d]
                 /\ addrs'[d] = addrs[d] \/ link'[d] = "absent"]_vars
  BY StepUndisturbed, Zenon DEF Undisturbed
<1> QED
  BY <1>1, InductiveInvariant, PTL DEF Spec, ActivatedUndisturbed
=============================================================================
