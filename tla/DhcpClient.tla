----------------------------- MODULE DhcpClient -----------------------------
(***************************************************************************)
(* The DHCP clients of one interface: DHCPv4 (dhcp/client.rs), stateful    *)
(* DHCPv6 (dhcp/dhcp6.rs), their use by an activation, a deactivation and  *)
(* the LeaseCheck tick (connection/activation.rs,                          *)
(* connection/deactivation.rs, manager/manager.rs), and the leases on disk *)
(* (persistence/state.rs).  All of it runs on the manager's thread, so at  *)
(* most one exchange is in progress; the daemon may crash between any two  *)
(* of its steps, and what is on disk and in the kernel then stays.         *)
(*                                                                         *)
(* The network loses, duplicates, delays and reorders: what was sent may   *)
(* arrive any number of times, or never, in this exchange or in a later    *)
(* one.  The servers are external and keep to the protocol: they grant     *)
(* addresses of their own pool to requests that name them.  Every exchange *)
(* draws a transaction id of its own.  An error of the socket, the kernel  *)
(* or the disk may end each step (Fail).                                   *)
(***************************************************************************)
EXTENDS Naturals

CONSTANTS
  Servers,          \* DHCP servers on the link
  Pool,             \* [Servers -> the addresses a server gives out]
  None,             \* no lease, no offer, no server id, no address
  MaxXid            \* bound: transaction ids drawn

VARIABLES
  pc,         \* what the manager's thread is doing
  family,     \* 4 or 6: the protocol of the exchange in progress
  profile,    \* method and ipv6_method of the profile last activated
  xid,        \* transaction id in use
  offer,      \* the offer or advertisement the client goes by
  lease,      \* the lease obtained and not yet recorded
  state,      \* device.state
  active,     \* the device has an entry in self.active
  addrs,      \* <<family, address>> configured by DHCP
  disk,       \* [Family -> the lease recorded, or None]
  due,        \* the families whose recorded lease has passed T1
  up, down,   \* messages sent by the client, and by the servers
  granted     \* <<family, server, address>> that a server has granted

exchange == <<family, xid, offer, lease>>
device   == <<profile, state, active, addrs>>
store    == <<disk, due>>
net      == <<up, down, granted>>
vars     == <<pc, exchange, device, store, net>>

Address == UNION {Pool[s] : s \in Servers}
Family  == {4, 6}
Lease   == [addr : Address, server : Servers]
Profile == [method : {"Auto", "Manual"}, ipv6 : {"Slaac", "Dhcp6"}]

ASSUME NoneAssumption == None \notin Servers /\ None \notin Lease
ASSUME MaxXidAssumption == MaxXid \in Nat

\* The parts of a message that the clients look at.
Message(f, t, x, s, a) ==
  [family |-> f, type |-> t, xid |-> x, server |-> s, addr |-> a]

Init ==
  /\ pc = "idle" /\ family = 4 /\ xid = 0 /\ offer = None /\ lease = None
  /\ profile = [method |-> "Manual", ipv6 |-> "Slaac"]
  /\ state = "Disconnected" /\ active = FALSE /\ addrs = {}
  /\ disk = [f \in Family |-> None] /\ due = {}
  /\ up = {} /\ down = {} /\ granted = {}
-----------------------------------------------------------------------------
\* External: the servers.  A server answers a message once; that the answer
\* may arrive twice is up to the network.

Answered(s, m) == \E r \in down : r.xid = m.xid /\ r.from = s

Reply(s, m, t, id, a) ==
  down' = down \cup {[family |-> m.family, type |-> t, xid |-> m.xid,
                      server |-> id, addr |-> a, from |-> s]}

\* DISCOVER and SOLICIT; with rapid commit the reply grants the address.
ServerOffers(s, m, a) ==
  /\ m.type = "Discover" /\ ~Answered(s, m)
  /\ \/ Reply(s, m, "Offer", s, a) /\ UNCHANGED granted
     \/ /\ m.family = 6 /\ Reply(s, m, "Ack", s, a)
        /\ granted' = granted \cup {<<6, s, a>>}

\* REQUEST, also to renew.  A DHCPv6 reply may leave the server's id out.
ServerGrants(s, m) ==
  /\ m.type = "Request" /\ m.server = s /\ m.addr \in Pool[s]
  /\ \E id \in {s} \cup (IF m.family = 6 THEN {None} ELSE {}) :
       Reply(s, m, "Ack", id, m.addr)
  /\ granted' = granted \cup {<<m.family, s, m.addr>>}

ServerStep ==
  /\ \E s \in Servers, m \in up :
       (\E a \in Pool[s] : ServerOffers(s, m, a)) \/ ServerGrants(s, m)
  /\ UNCHANGED <<pc, exchange, device, store, up>>
-----------------------------------------------------------------------------
\* The exchange of an activation: acquire and request_stateful_lease.

Send(t, x, s, a) == up' = up \cup {Message(family', t, x, s, a)}

Discover(f) ==
  /\ xid < MaxXid
  /\ pc' = "discover" /\ family' = f /\ xid' = xid + 1
  /\ offer' = None /\ lease' = None
  /\ Send("Discover", xid', None, None)

\* Faulty variant: the reply of an earlier exchange will do.
MatchesAnyXid(m, t) == m.family = family /\ m.type = t

Matches(m, t) == m.family = family /\ m.type = t /\ m.xid = xid

\* The DHCPv4 loop passes over any other datagram, and its REQUEST has the xid
\* of its DISCOVER; DHCPv6 reads one datagram and draws another xid.
ReceiveOffer ==
  /\ pc = "discover" /\ (family = 6 => xid < MaxXid)
  /\ xid' = IF family = 4 THEN xid ELSE xid + 1
  /\ family' = family
  /\ \E m \in down :
       /\ Matches(m, "Offer")
       /\ offer' = [addr |-> m.addr, server |-> m.server]
       /\ Send("Request", xid', m.server, m.addr)
  /\ pc' = "request"
  /\ UNCHANGED <<lease, device, store, down, granted>>

\* DHCPv6 rapid commit.
ReceiveRapidReply ==
  /\ pc = "discover" /\ family = 6
  /\ \E m \in down :
       /\ Matches(m, "Ack") /\ m.server # None
       /\ lease' = [addr |-> m.addr, server |-> m.server]
  /\ pc' = "address"
  /\ UNCHANGED <<family, xid, offer, device, store, net>>

\* Faulty variant: the id of the reply is taken without the fallback.
LeaseWithReplyId(m, l) == [addr |-> m.addr, server |-> m.server]

\* lease_from_ack is given the id of the OFFER, or when renewing that of the
\* old lease; lease_from_reply the id of the REPLY if it has one.
LeaseFrom(m, l) ==
  [addr |-> m.addr,
   server |-> IF family = 6 /\ m.server # None THEN m.server ELSE l.server]

ReceiveAck ==
  /\ pc = "request"
  /\ \E m \in down : Matches(m, "Ack") /\ lease' = LeaseFrom(m, offer)
  /\ pc' = "address"
  /\ UNCHANGED <<family, xid, offer, device, store, net>>
-----------------------------------------------------------------------------
\* activate, apply_dhcp and apply_dhcp6.  A device may be activated again
\* while it is active; a failure leaves its old entry in self.active.

\* The last step, the name servers of the profile, may fail too.
Configured ==
  /\ pc' = "idle"
  /\ \/ state' = "Activated" /\ active' = TRUE
     \/ state' = "Failed" /\ UNCHANGED active
  /\ offer' = None /\ lease' = None
  /\ UNCHANGED <<family, xid, up>>

\* What is done once IPv4 is configured: the ipv6_method of the profile.
Ipv6(p) ==
  \/ p.ipv6 = "Dhcp6" /\ Discover(6) /\ UNCHANGED <<state, active>>
  \/ p.ipv6 = "Slaac" /\ Configured

Activate(p) ==
  /\ pc = "idle" /\ xid < MaxXid
  /\ profile' = p
  /\ addrs' = {}
  /\ \/ /\ p.method = "Auto" /\ Discover(4)
        /\ state' = "IpConfiguring" /\ UNCHANGED active
     \/ /\ p.method = "Manual" /\ p.ipv6 = "Dhcp6" /\ Discover(6)
        /\ state' = "IpConfiguring" /\ UNCHANGED active
     \/ p.method = "Manual" /\ p.ipv6 = "Slaac" /\ Configured
  /\ UNCHANGED <<store, down, granted>>

AddAddress ==
  /\ pc = "address"
  /\ addrs' = addrs \cup {<<family, lease.addr>>}
  /\ pc' = "save"
  /\ UNCHANGED <<exchange, profile, state, active, store, net>>

\* Faulty variant: the activation goes on without recording the lease.
SaveLeaseSkipped ==
  /\ pc = "save"
  /\ IF family = 4 THEN Ipv6(profile) ELSE Configured
  /\ UNCHANGED <<profile, addrs, store, down, granted>>

\* Default route and resolv.conf come before the lease is recorded.
SaveLease ==
  /\ pc = "save"
  /\ disk' = [disk EXCEPT ![family] = lease]
  /\ due' = due \ {family}
  /\ IF family = 4 THEN Ipv6(profile) ELSE Configured
  /\ UNCHANGED <<profile, addrs, down, granted>>

\* The link does not come up, or its old addresses cannot be flushed.
ActivateFails ==
  /\ pc = "idle"
  /\ state' = "Failed"
  /\ UNCHANGED <<pc, exchange, profile, active, addrs, store, net>>

\* Timeout, DHCPNAK, or an error in any step, up to saving the lease.
Fail ==
  /\ pc \in {"discover", "request", "address", "save"}
  /\ pc' = "idle" /\ offer' = None /\ lease' = None
  /\ state' = "Failed"
  /\ UNCHANGED <<family, xid, profile, active, addrs, store, net>>
-----------------------------------------------------------------------------
\* LeaseCheck, deactivate, the passing of time and crashes.

PassT1(f) ==
  /\ disk[f] # None
  /\ due' = due \cup {f}
  /\ UNCHANGED <<pc, exchange, device, disk, net>>

\* LeaseCheck looks at DHCPv4 leases only, and at self.active, not the state.
Renew ==
  /\ pc = "idle" /\ active /\ disk[4] # None /\ 4 \in due /\ xid < MaxXid
  /\ pc' = "renew" /\ family' = 4 /\ xid' = xid + 1
  /\ Send("Request", xid', disk[4].server, disk[4].addr)
  /\ UNCHANGED <<offer, lease, device, store, down, granted>>

ReceiveRenewal ==
  /\ pc = "renew"
  /\ \E m \in down :
       /\ Matches(m, "Ack")
       /\ disk' = [disk EXCEPT ![4] = LeaseFrom(m, disk[4])]
  /\ due' = due \ {4}
  /\ pc' = "idle"
  /\ UNCHANGED <<exchange, device, net>>

\* Ten seconds without an ACK, a NAK included, or the lease cannot be saved.
RenewFails ==
  /\ pc = "renew"
  /\ pc' = "idle"
  /\ UNCHANGED <<exchange, device, store, net>>

\* release and release_persisted: the leases are released and removed, unless
\* an error, which is ignored, comes first; a RELEASE needs no answer.
Release ==
  \E cleared \in SUBSET {f \in Family : disk[f] # None} :
    /\ disk' = [f \in Family |-> IF f \in cleared THEN None ELSE disk[f]]
    /\ due' = due \ cleared

\* flush may fail, which leaves the addresses, and then the Wi-Fi disconnect.
Deactivate ==
  /\ pc = "idle" /\ active
  /\ Release
  /\ active' = FALSE
  /\ \/ addrs' = {} /\ state' \in {"Disconnected", "Deactivating"}
     \/ UNCHANGED addrs /\ state' = "Deactivating"
  /\ UNCHANGED <<pc, exchange, profile, net>>

Crash ==
  /\ pc' = "idle" /\ offer' = None /\ lease' = None
  /\ state' = "Disconnected" /\ active' = FALSE
  /\ UNCHANGED <<family, xid, profile, addrs, store, net>>

Next ==
  \/ ServerStep \/ ReceiveOffer \/ ReceiveRapidReply \/ ReceiveAck
  \/ AddAddress \/ SaveLease \/ ActivateFails \/ Fail \/ Renew \/ ReceiveRenewal
  \/ RenewFails \/ Deactivate \/ Crash
  \/ \E p \in Profile : Activate(p)
  \/ \E f \in Family : PassT1(f)

Spec == Init /\ [][Next]_vars
-----------------------------------------------------------------------------
\* Properties.

\* Every variable has its type: what is recorded is a lease of some server.
TypeOK ==
  /\ pc \in {"idle", "discover", "request", "address", "save", "renew"}
  /\ family \in Family /\ profile \in Profile /\ xid \in 0 .. MaxXid
  /\ offer \in Lease \cup {None} /\ lease \in Lease \cup {None}
  /\ state \in {"Disconnected", "IpConfiguring", "Activated", "Failed", "Deactivating"}
  /\ active \in BOOLEAN /\ addrs \subseteq Family \X Address
  /\ disk \in [Family -> Lease \cup {None}] /\ due \subseteq Family
  /\ granted \subseteq Family \X Servers \X Address

\* Whatever replies are lost, late or from another exchange: a lease on disk
\* names the server that granted its address, the one that a renewal and a
\* RELEASE are addressed to; and an address is configured only if granted.
LeasesGranted ==
  /\ \A f \in Family : disk[f] # None => <<f, disk[f].server, disk[f].addr>> \in granted
  /\ \A a \in addrs : \E s \in Servers : <<a[1], s, a[2]>> \in granted

\* While a device counts as activated by DHCP, the address it is configured
\* with is the one on record, so that it is renewed and in the end released:
\* activation records last, and renewals and crashes do not part the two.
ActivatedOnRecord ==
  state = "Activated" =>
    /\ profile.method = "Auto" =>
         disk[4] # None /\ <<4, disk[4].addr>> \in addrs
    /\ profile.ipv6 = "Dhcp6" =>
         disk[6] # None /\ <<6, disk[6].addr>> \in addrs

\* LeaseCheck changes how long a lease lasts, never whose or which it is.
RenewalKeepsLease == [][pc = "renew" => UNCHANGED disk]_vars
=============================================================================
