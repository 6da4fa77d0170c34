-------------------------- MODULE MCNetworkManager --------------------------
(***************************************************************************)
(* Instances of NetworkManager for TLC.                                    *)
(***************************************************************************)
EXTENDS NetworkManager, TLC

CONSTANTS d1, d2, p1, p2

OneDevice   == {d1}
TwoDevices  == {d1, d2}
OneProfile  == {p1}
TwoProfiles == {p1, p2}

Content(type) == [type |-> type, pin |-> None, auto |-> TRUE, prio |-> 0]

WiredContents == {Content("Ethernet")}
AllContents   == {Content(t) : t \in DeviceTypes}

TwoWired  == {d1 :> "Ethernet" @@ d2 :> "Ethernet"}
OneOfEach == {d1 :> t : t \in DeviceTypes}

NoneOrFirst == {{}, {d1}}

\* Every VPN session runs on d1.
OnFirst == [p \in Profiles |-> d1]

\* told is written and never read: leaving it out merges states that no
\* property over the other variables tells apart.
Untold == <<kind, link, addrs, events, phase, devices, active, connections,
            files, unmanaged, connectivity, todo, sessions, lost>>

Symmetric == Permutations(TwoProfiles)
=============================================================================
