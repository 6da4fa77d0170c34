-------------------------- MODULE ActivationProofs --------------------------
(***************************************************************************)
(* Proofs about what an activation starts and the manager does not see:    *)
(* DHCP leases and VPN sessions.  Of DhcpClient, for any servers and pools *)
(* and any number of exchanges: types, leases are the ones granted, a      *)
(* renewal changes none, and an activated device is configured with what is*)
(* on record.  Of Vpn, for any profiles, interfaces and number of attempts:*)
(* types, and ACTIVE and SESSIONS name the same sessions, each of an       *)
(* openvpn that connected.                                                 *)
(***************************************************************************)
EXTENDS DhcpClient, Vpn, TLAPS

(* DHCP leases *)

Up == [family : Family, type : {"Discover", "Request"}, xid : Nat,
       server : Servers \cup {None}, addr : Address \cup {None}]
Down == [family : Family, type : {"Offer", "Ack"}, xid : Nat,
         server : Servers \cup {None}, addr : Address, from : Servers]

Types ==
  /\ pc \in {"idle", "discover", "request", "address", "save", "renew"}
  /\ family \in Family /\ xid \in Nat
  /\ offer \in Lease \cup {None} /\ lease \in Lease \cup {None}
  /\ disk \in [Family -> Lease \cup {None}]
  /\ up \subseteq Up /\ down \subseteq Down

\* What the client has sent: an exchange has at most one REQUEST, and a DHCPv6
\* REQUEST does not share its transaction id with a SOLICIT.
UpInv ==
  /\ \A m \in up : m.xid <= xid
  /\ \A m, n \in up : m.type = "Request" /\ n.type = "Request" /\ m.xid = n.xid => m = n
  /\ \A m, n \in up : m.type = "Request" /\ n.type = "Discover" /\ m.xid = n.xid
                        => n.family = 4 /\ m.family = 4
  /\ pc = "discover" => \A m \in up : m.xid = xid => m.type = "Discover" /\ m.family = family

\* What the servers have sent: an acknowledgement grants, and answers a REQUEST
\* to its sender or a DHCPv6 SOLICIT.
DownInv ==
  /\ \A r \in down : r.type = "Offer" => r.server = r.from
  /\ \A r \in down : r.type = "Ack" =>
       /\ <<r.family, r.from, r.addr>> \in granted
       /\ r.server = r.from \/ (r.family = 6 /\ r.server = None)
       /\ \/ \E m \in up : /\ m.type = "Request" /\ m.xid = r.xid /\ m.family = r.family
                           /\ m.server = r.from /\ m.addr = r.addr
          \/ /\ r.family = 6 /\ r.server = r.from
             /\ \E m \in up : m.type = "Discover" /\ m.xid = r.xid

\* Where the exchange in progress stands.
PcInv ==
  /\ pc = "request" => offer \in Lease /\ Message(family, "Request", xid, offer.server, offer.addr) \in up
  /\ pc \in {"address", "save"} => lease \in Lease /\ <<family, lease.server, lease.addr>> \in granted
  /\ pc = "renew" => /\ family = 4 /\ disk[4] \in Lease
                     /\ Message(4, "Request", xid, disk[4].server, disk[4].addr) \in up

LeaseInv == Types /\ UpInv /\ DownInv /\ PcInv /\ LeasesGranted
-----------------------------------------------------------------------------
\* The client sends one more message under a transaction id that is its own, or
\* the REQUEST that follows its DISCOVER.
LEMMA SendInv ==
  ASSUME Types, DownInv, UpInv, NEW m \in Up, up' = up \cup {m}, xid' \in Nat, xid <= xid',
         m.xid = xid', UNCHANGED <<down, granted>>,
         \/ xid' = xid + 1 /\ (pc' = "discover" => m.type = "Discover" /\ m.family = family')
         \/ /\ xid' = xid /\ pc = "discover" /\ pc' # "discover" /\ family = 4
            /\ m.type = "Request" /\ m.family = 4
  PROVE  UpInv' /\ DownInv'
<1>1. up \subseteq Up /\ \A n \in up : n.xid \in Nat /\ n.xid <= xid
  BY DEF Types, UpInv, Up
<1>2. CASE xid' = xid + 1 /\ (pc' = "discover" => m.type = "Discover" /\ m.family = family')
  <2>1. \A n \in up : n.xid # xid'
    BY <1>1, <1>2 DEF Types
  <2>2. UpInv'
    BY <1>1, <1>2, <2>1 DEF UpInv, Types
  <2> QED BY <2>2 DEF DownInv
<1>3. CASE /\ xid' = xid /\ pc = "discover" /\ pc' # "discover" /\ family = 4
           /\ m.type = "Request" /\ m.family = 4
  <2>1. \A n \in up : n.xid = xid => n.type = "Discover" /\ n.family = 4
    BY <1>3 DEF UpInv
  <2>2. UpInv'
    BY <1>1, <1>3, <2>1 DEF UpInv, Types
  <2> QED BY <2>2 DEF DownInv
<1> QED BY <1>2, <1>3

\* A lease taken from an acknowledgement of the exchange in progress has been
\* granted by the server it names.
LEMMA AckGranted ==
  ASSUME LeaseInv, NEW l \in Lease, NEW r \in down, Matches(r, "Ack"),
         Message(family, "Request", xid, l.server, l.addr) \in up
  PROVE  LeaseFrom(r, l) = l /\ <<family, l.server, l.addr>> \in granted
<1> DEFINE q == Message(family, "Request", xid, l.server, l.addr)
<1>1. q \in up /\ q.type = "Request" /\ q.xid = xid /\ q.server = l.server /\ q.addr = l.addr
      /\ q.family = family
  BY DEF Message
<1>2. r.type = "Ack" /\ r.xid = xid /\ r.family = family /\ r \in Down
  BY DEF Matches, LeaseInv, Types
<1> HIDE DEF q
<1>3. ~(family = 6 /\ \E m \in up : m.type = "Discover" /\ m.xid = xid)
  BY <1>1 DEF LeaseInv, UpInv
<1>4. PICK m \in up : m.type = "Request" /\ m.xid = xid /\ m.server = r.from /\ m.addr = r.addr
  BY <1>2, <1>3, Zenon DEF LeaseInv, DownInv
<1>5. m = q
  BY <1>1, <1>4 DEF LeaseInv, UpInv
<1>6. r.from = l.server /\ r.addr = l.addr
  BY <1>1, <1>4, <1>5
<1>7. <<family, l.server, l.addr>> \in granted
  BY <1>2, <1>6 DEF LeaseInv, DownInv
<1>8. LeaseFrom(r, l) = [addr |-> l.addr, server |-> l.server]
  BY <1>2, <1>6, Zenon DEF LeaseFrom, LeaseInv, DownInv
<1> QED BY <1>7, <1>8 DEF Lease

\* The servers answer and grant.
LEMMA ServerInv ==
  ASSUME LeaseInv, ServerStep
  PROVE  LeaseInv'
<1>1. UNCHANGED <<pc, family, xid, offer, lease, disk, up, addrs>>
  BY DEF ServerStep, exchange, device, store
<1>2. PICK s \in Servers, m \in up :
        (\E a \in Pool[s] : ServerOffers(s, m, a)) \/ ServerGrants(s, m)
  BY DEF ServerStep
<1>3. m \in Up /\ up \subseteq Up
  BY DEF LeaseInv, Types
<1>4. PICK r \in Down :
        /\ down' = down \cup {r} /\ granted \subseteq granted'
        /\ r.type = "Offer" => r.server = r.from
        /\ r.type = "Ack" =>
             /\ <<r.family, r.from, r.addr>> \in granted'
             /\ r.server = r.from \/ (r.family = 6 /\ r.server = None)
             /\ \/ \E q \in up : /\ q.type = "Request" /\ q.xid = r.xid /\ q.family = r.family
                                /\ q.server = r.from /\ q.addr = r.addr
                \/ /\ r.family = 6 /\ r.server = r.from
                   /\ \E q \in up : q.type = "Discover" /\ q.xid = r.xid
  <2> DEFINE rep(t, id, a) == [family |-> m.family, type |-> t, xid |-> m.xid,
                               server |-> id, addr |-> a, from |-> s]
  <2>0. /\ m.family \in Family /\ m.xid \in Nat
        /\ \A t \in {"Offer", "Ack"}, id \in Servers \cup {None}, a \in Address : rep(t, id, a) \in Down
    BY <1>3 DEF Up, Down
  <2>1. CASE \E a \in Pool[s] : ServerOffers(s, m, a)
    <3>1. PICK a \in Pool[s] : ServerOffers(s, m, a)
      BY <2>1
    <3>2. a \in Address /\ m.type = "Discover"
      BY <3>1 DEF Address, ServerOffers
    <3>3. CASE Reply(s, m, "Offer", s, a) /\ UNCHANGED granted
      <4>1. down' = down \cup {rep("Offer", s, a)}
        BY <3>3 DEF Reply
      <4>2. rep("Offer", s, a).type = "Offer" /\ rep("Offer", s, a).server = s
            /\ rep("Offer", s, a).from = s
        OBVIOUS
      <4>3. rep("Offer", s, a) \in Down
        BY <2>0, <3>2
      <4> HIDE DEF rep
      <4> QED BY <3>3, <4>1, <4>2, <4>3
    <3>4. CASE m.family = 6 /\ Reply(s, m, "Ack", s, a) /\ granted' = granted \cup {<<6, s, a>>}
      <4>1. down' = down \cup {rep("Ack", s, a)}
        BY <3>4 DEF Reply
      <4>2. /\ rep("Ack", s, a).type = "Ack" /\ rep("Ack", s, a).server = s
            /\ rep("Ack", s, a).from = s /\ rep("Ack", s, a).family = 6
            /\ rep("Ack", s, a).xid = m.xid /\ rep("Ack", s, a).addr = a
        BY <3>4
      <4>3. rep("Ack", s, a) \in Down
        BY <2>0, <3>2
      <4> HIDE DEF rep
      <4> QED BY <3>2, <3>4, <4>1, <4>2, <4>3
    <3> QED BY <3>1, <3>3, <3>4 DEF ServerOffers
  <2>2. CASE ServerGrants(s, m)
    <3>1. PICK id \in {s} \cup (IF m.family = 6 THEN {None} ELSE {}) : Reply(s, m, "Ack", id, m.addr)
      BY <2>2 DEF ServerGrants
    <3>2. /\ m.type = "Request" /\ m.server = s /\ m.addr \in Address
          /\ granted' = granted \cup {<<m.family, s, m.addr>>}
      BY <2>2 DEF ServerGrants, Address
    <3>3. down' = down \cup {rep("Ack", id, m.addr)}
      BY <3>1 DEF Reply
    <3>4. /\ rep("Ack", id, m.addr).type = "Ack" /\ rep("Ack", id, m.addr).server = id
          /\ rep("Ack", id, m.addr).from = s /\ rep("Ack", id, m.addr).family = m.family
          /\ rep("Ack", id, m.addr).xid = m.xid /\ rep("Ack", id, m.addr).addr = m.addr
      OBVIOUS
    <3>5. rep("Ack", id, m.addr) \in Down
      BY <2>0, <3>2
    <3> HIDE DEF rep
    <3> QED BY <3>1, <3>2, <3>3, <3>4, <3>5
  <2> QED BY <1>2, <2>1, <2>2
<1>5. Types' /\ UpInv'
  BY <1>1, <1>4 DEF LeaseInv, Types, UpInv
<1>6. DownInv'
  BY <1>1, <1>4 DEF LeaseInv, DownInv
<1>7. PcInv' /\ LeasesGranted'
  BY <1>1, <1>4 DEF LeaseInv, PcInv, LeasesGranted
<1> QED BY <1>5, <1>6, <1>7 DEF LeaseInv

\* A first message under a new transaction id.
LEMMA DiscoverInv ==
  ASSUME LeaseInv, NEW f \in Family, Discover(f), UNCHANGED <<down, granted>>,
         disk' \in [Family -> Lease \cup {None}], LeasesGranted'
  PROVE  LeaseInv'
<1> DEFINE m == Message(f, "Discover", xid + 1, None, None)
<1>1. /\ xid' = xid + 1 /\ family' = f /\ pc' = "discover" /\ offer' = None /\ lease' = None
      /\ up' = up \cup {m}
  BY DEF Discover, Send
<1>2. m \in Up /\ m.type = "Discover" /\ m.family = f /\ m.xid = xid + 1 /\ xid \in Nat
  BY DEF Message, Up, LeaseInv, Types
<1> HIDE DEF m
<1>3. UpInv' /\ DownInv'
  BY <1>1, <1>2, SendInv DEF LeaseInv
<1>4. Types'
  BY <1>1, <1>2 DEF LeaseInv, Types
<1> QED BY <1>1, <1>3, <1>4 DEF LeaseInv, PcInv

\* The thread of the manager leaves the exchange, whatever the reason.
LEMMA LeaveInv ==
  ASSUME LeaseInv, pc' = "idle", UNCHANGED <<family, xid, up, down, granted>>,
         offer' \in Lease \cup {None}, lease' \in Lease \cup {None},
         disk' \in [Family -> Lease \cup {None}], LeasesGranted'
  PROVE  LeaseInv'
<1>1. Types' /\ UpInv' /\ DownInv' /\ PcInv'
  BY DEF LeaseInv, Types, UpInv, DownInv, PcInv
<1> QED BY <1>1 DEF LeaseInv

\* An offer of this exchange is answered with a REQUEST to its sender.
LEMMA OfferInv ==
  ASSUME LeaseInv, ReceiveOffer
  PROVE  LeaseInv'
<1>1. PICK r \in down : /\ Matches(r, "Offer") /\ offer' = [addr |-> r.addr, server |-> r.server]
                        /\ Send("Request", xid', r.server, r.addr)
  BY DEF ReceiveOffer
<1>2. /\ r \in Down /\ r.server = r.from /\ r.server \in Servers /\ r.addr \in Address
  BY <1>1 DEF LeaseInv, Types, DownInv, Matches, Down
<1> DEFINE m == Message(family, "Request", xid', r.server, r.addr)
<1>3. /\ pc = "discover" /\ pc' = "request" /\ family' = family /\ up' = up \cup {m}
      /\ xid' = (IF family = 4 THEN xid ELSE xid + 1)
      /\ UNCHANGED <<lease, disk, addrs, down, granted>>
  BY <1>1 DEF ReceiveOffer, Send, device, store
<1>4. xid \in Nat /\ xid' \in Nat /\ xid <= xid' /\ family \in Family
  BY <1>3 DEF LeaseInv, Types
<1>5. m \in Up /\ m.type = "Request" /\ m.family = family /\ m.xid = xid'
  BY <1>2, <1>4 DEF Message, Up
<1>6. offer' \in Lease /\ offer'.server = r.server /\ offer'.addr = r.addr
  BY <1>1, <1>2 DEF Lease
<1>7. Message(family', "Request", xid', offer'.server, offer'.addr) \in up'
  BY <1>3, <1>6
<1> HIDE DEF m
<1>8. UpInv' /\ DownInv'
  BY <1>3, <1>4, <1>5, SendInv DEF LeaseInv
<1>9. Types'
  BY <1>3, <1>4, <1>5, <1>6 DEF LeaseInv, Types
<1>10. PcInv'
  BY <1>3, <1>6, <1>7 DEF PcInv
<1>11. LeasesGranted'
  BY <1>3 DEF LeaseInv, LeasesGranted
<1> QED BY <1>8, <1>9, <1>10, <1>11 DEF LeaseInv

\* The lease of an exchange has been granted.
LEMMA LeaseReceived ==
  ASSUME LeaseInv, ReceiveRapidReply \/ ReceiveAck
  PROVE  LeaseInv'
<1>1. /\ pc' = "address"
      /\ UNCHANGED <<family, xid, offer, disk, addrs, up, down, granted>>
  BY DEF ReceiveRapidReply, ReceiveAck, device, store, net
<1>2. lease' \in Lease /\ <<family, lease'.server, lease'.addr>> \in granted
  <2>1. CASE ReceiveRapidReply
    <3>1. PICK r \in down : /\ Matches(r, "Ack") /\ r.server # None
                            /\ lease' = [addr |-> r.addr, server |-> r.server]
      BY <2>1 DEF ReceiveRapidReply
    <3>2. r \in Down /\ r.server = r.from /\ <<family, r.from, r.addr>> \in granted
      BY <3>1 DEF LeaseInv, Types, DownInv, Matches
    <3> QED BY <3>1, <3>2 DEF Down, Lease
  <2>2. CASE ReceiveAck
    <3>1. offer \in Lease /\ Message(family, "Request", xid, offer.server, offer.addr) \in up
      BY <2>2 DEF ReceiveAck, LeaseInv, PcInv
    <3>2. lease' = offer /\ <<family, offer.server, offer.addr>> \in granted
      BY <2>2, <3>1, AckGranted DEF ReceiveAck
    <3> QED BY <3>1, <3>2
  <2> QED BY <2>1, <2>2
<1>3. Types' /\ UpInv' /\ DownInv'
  BY <1>1, <1>2 DEF LeaseInv, Types, UpInv, DownInv
<1>4. PcInv' /\ LeasesGranted'
  BY <1>1, <1>2 DEF LeaseInv, PcInv, LeasesGranted
<1> QED BY <1>3, <1>4 DEF LeaseInv

\* The rest of an activation.
LEMMA ActivationInv ==
  ASSUME LeaseInv, AddAddress \/ SaveLease \/ ActivateFails \/ Fail \/ \E p \in Profile : Activate(p)
  PROVE  LeaseInv'
<1>1. CASE AddAddress
  <2>1. /\ pc = "address" /\ pc' = "save" /\ addrs' = addrs \cup {<<family, lease.addr>>}
        /\ UNCHANGED <<family, xid, offer, lease, disk, up, down, granted>>
    BY <1>1 DEF AddAddress, exchange, store, net
  <2>2. lease \in Lease /\ <<family, lease.server, lease.addr>> \in granted /\ lease.server \in Servers
    BY <2>1 DEF LeaseInv, PcInv, Lease
  <2>3. LeasesGranted'
    <3>1. ASSUME NEW a \in addrs' PROVE \E s \in Servers : <<a[1], s, a[2]>> \in granted'
      <4>1. CASE a = <<family, lease.addr>>
        BY <2>1, <2>2, <4>1
      <4>2. CASE a \in addrs
        BY <2>1, <4>2 DEF LeaseInv, LeasesGranted
      <4> QED BY <2>1, <4>1, <4>2
    <3> QED BY <2>1, <3>1 DEF LeaseInv, LeasesGranted
  <2> QED BY <2>1, <2>3 DEF LeaseInv, Types, UpInv, DownInv, PcInv
<1>2. CASE SaveLease
  <2>1. /\ pc = "save" /\ disk' = [disk EXCEPT ![family] = lease]
        /\ UNCHANGED <<addrs, down, granted>>
        /\ IF family = 4 THEN Ipv6(profile) ELSE Configured
    BY <1>2 DEF SaveLease
  <2>2. /\ lease \in Lease /\ <<family, lease.server, lease.addr>> \in granted
        /\ disk \in [Family -> Lease \cup {None}] /\ family \in Family
    BY <2>1 DEF LeaseInv, PcInv, Types
  <2>3. disk' \in [Family -> Lease \cup {None}] /\ LeasesGranted'
    BY <2>1, <2>2 DEF LeaseInv, LeasesGranted
  <2>4. CASE Configured
    BY <2>1, <2>3, <2>4, LeaveInv DEF Configured
  <2>5. CASE Discover(6)
    BY <2>1, <2>3, <2>5, DiscoverInv DEF Family
  <2> QED BY <2>1, <2>4, <2>5 DEF Ipv6
<1>3. CASE Fail
  <2>1. /\ pc' = "idle" /\ offer' = None /\ lease' = None
        /\ UNCHANGED <<family, xid, addrs, disk, up, down, granted>>
    BY <1>3 DEF Fail, store, net
  <2>2. LeasesGranted' /\ disk' \in [Family -> Lease \cup {None}]
    BY <2>1 DEF LeaseInv, LeasesGranted, Types
  <2> QED BY <2>1, <2>2, LeaveInv
<1>4. ASSUME NEW p \in Profile, Activate(p) PROVE LeaseInv'
  <2>1. addrs' = {} /\ UNCHANGED <<disk, down, granted>> /\ (Discover(4) \/ Discover(6) \/ Configured)
    BY <1>4 DEF Activate, store
  <2>2. LeasesGranted' /\ disk' \in [Family -> Lease \cup {None}]
    BY <2>1 DEF LeaseInv, LeasesGranted, Types
  <2>3. CASE Configured
    BY <2>1, <2>2, <2>3, LeaveInv, Zenon DEF Configured
  <2> QED BY <2>1, <2>2, <2>3, DiscoverInv DEF Family
<1>5. CASE ActivateFails
  <2>1. UNCHANGED <<pc, family, xid, offer, lease, addrs, disk, up, down, granted>>
    BY <1>5 DEF ActivateFails, exchange, store, net
  <2> QED BY <2>1 DEF LeaseInv, Types, UpInv, DownInv, PcInv, LeasesGranted
<1> QED BY <1>1, <1>2, <1>3, <1>4, <1>5

\* A renewal ends with the lease it began with.
LEMMA RenewalSame ==
  ASSUME LeaseInv, ReceiveRenewal
  PROVE  disk' = disk
<1>1. PICK r \in down : Matches(r, "Ack") /\ disk' = [disk EXCEPT ![4] = LeaseFrom(r, disk[4])]
  BY Zenon DEF ReceiveRenewal
<1>2. /\ disk[4] \in Lease /\ family = 4
      /\ Message(family, "Request", xid, disk[4].server, disk[4].addr) \in up
  BY SMTT(30) DEF ReceiveRenewal, LeaseInv, PcInv
<1>3. LeaseFrom(r, disk[4]) = disk[4]
  BY <1>1, <1>2, AckGranted, Zenon
<1> QED BY <1>1, <1>3 DEF LeaseInv, Types

\* LeaseCheck, deactivation and crashes.
LEMMA RestInv ==
  ASSUME LeaseInv,
         Renew \/ ReceiveRenewal \/ RenewFails \/ Deactivate \/ Crash \/ \E f \in Family : PassT1(f)
  PROVE  LeaseInv'
<1>1. CASE Renew
  <2> DEFINE m == Message(4, "Request", xid + 1, disk[4].server, disk[4].addr)
  <2>1. /\ pc' = "renew" /\ family' = 4 /\ xid' = xid + 1 /\ disk[4] # None /\ up' = up \cup {m}
        /\ UNCHANGED <<offer, lease, addrs, disk, down, granted>>
    BY <1>1 DEF Renew, Send, device, store
  <2>2. disk[4] \in Lease /\ xid \in Nat /\ 4 \in Family
    BY <2>1 DEF LeaseInv, Types, Family
  <2>3. m \in Up /\ m.xid = xid + 1
    BY <2>2 DEF Up, Message, Lease
  <2>4. m = Message(4, "Request", xid', disk'[4].server, disk'[4].addr)
    BY <2>1
  <2> HIDE DEF m
  <2>5. UpInv' /\ DownInv'
    BY <2>1, <2>2, <2>3, SendInv DEF LeaseInv
  <2>6. Types'
    BY <2>1, <2>2, <2>3 DEF LeaseInv, Types
  <2>7. PcInv'
    BY <2>1, <2>2, <2>4 DEF PcInv
  <2>8. LeasesGranted'
    BY <2>1 DEF LeaseInv, LeasesGranted
  <2> QED BY <2>5, <2>6, <2>7, <2>8 DEF LeaseInv
<1>2. CASE ReceiveRenewal \/ RenewFails \/ Crash
  <2>1. /\ pc' = "idle" /\ UNCHANGED <<family, xid, addrs, disk, up, down, granted>>
        /\ offer' \in {offer, None} /\ lease' \in {lease, None}
    BY <1>2, RenewalSame DEF ReceiveRenewal, RenewFails, Crash, exchange, device, store, net
  <2>2. LeasesGranted' /\ disk' \in [Family -> Lease \cup {None}]
        /\ offer' \in Lease \cup {None} /\ lease' \in Lease \cup {None}
    BY <2>1 DEF LeaseInv, LeasesGranted, Types
  <2> QED BY <2>1, <2>2, LeaveInv
<1>3. CASE Deactivate
  <2>1. /\ pc = "idle" /\ UNCHANGED <<pc, family, xid, offer, lease, up, down, granted>>
        /\ addrs' = {} \/ addrs' = addrs
    BY <1>3 DEF Deactivate, exchange, net
  <2>2. PICK cleared : disk' = [f \in Family |-> IF f \in cleared THEN None ELSE disk[f]]
    BY <1>3 DEF Deactivate, Release
  <2>3. LeasesGranted' /\ disk' \in [Family -> Lease \cup {None}]
    BY <2>1, <2>2 DEF LeaseInv, LeasesGranted, Types
  <2>4. offer' \in Lease \cup {None} /\ lease' \in Lease \cup {None} /\ pc' = "idle"
    BY <2>1, Zenon DEF LeaseInv, Types
  <2> QED BY <2>1, <2>3, <2>4, LeaveInv
<1>4. CASE \E f \in Family : PassT1(f)
  <2>1. UNCHANGED <<pc, family, xid, offer, lease, addrs, disk, up, down, granted>>
    BY <1>4 DEF PassT1, exchange, device, net
  <2> QED BY <2>1, Zenon DEF LeaseInv, Types, UpInv, DownInv, PcInv, LeasesGranted
<1> QED BY <1>1, <1>2, <1>3, <1>4

\* No step of client, servers, device or crash breaks LeaseInv (acquire, renew,
\* release, activate, deactivate).
LEMMA LeaseNext == LeaseInv /\ [Next]_vars => LeaseInv'
<1> SUFFICES ASSUME LeaseInv, [Next]_vars PROVE LeaseInv'
  BY SMTT(30)
<1>1. CASE UNCHANGED vars
  <2>1. UNCHANGED <<pc, family, xid, offer, lease, addrs, disk, up, down, granted>>
    BY <1>1 DEF vars, exchange, device, store, net
  <2> QED BY <2>1, ZenonT(30) DEF LeaseInv, Types, UpInv, DownInv, PcInv, LeasesGranted
<1> QED BY <1>1, ServerInv, OfferInv, LeaseReceived, ActivationInv, RestInv DEF Next

\* The daemon starts with no exchange under way and no lease granted (client.rs).
LEMMA LeaseInit == Init => LeaseInv
BY DEF Init, LeaseInv, Types, UpInv, DownInv, PcInv, LeasesGranted, Family

\* Whatever is lost, repeated or late, a lease on disk names the server that
\* granted its address, and only granted addresses are configured
\* (client::acquire and renew, dhcp6::request_stateful_lease).
THEOREM OnlyGrantedLeases == Spec => []LeasesGranted
<1>1. LeaseInv => LeasesGranted
  BY DEF LeaseInv
<1> QED BY <1>1, LeaseInit, LeaseNext, PTL DEF Spec

\* LeaseCheck never changes the server or the address of a lease
\* (client::renew).
THEOREM RenewalsKeepLeases == Spec => RenewalKeepsLease
<1>1. LeaseInv /\ [Next]_vars => [pc = "renew" => UNCHANGED disk]_vars
  <2> SUFFICES ASSUME LeaseInv, Next, pc = "renew" PROVE disk' = disk
    BY DEF vars, store
  <2>1. CASE ReceiveRenewal
    BY <2>1, RenewalSame
  <2>2. CASE ServerStep \/ RenewFails \/ Crash \/ \E f \in Family : PassT1(f)
    BY <2>2 DEF ServerStep, RenewFails, Crash, PassT1, store
  <2> QED BY <2>1, <2>2 DEF Next, ReceiveOffer, ReceiveRapidReply, ReceiveAck, AddAddress, SaveLease,
                            ActivateFails, Fail, Renew, Deactivate, Activate
<1> QED BY <1>1, LeaseInit, LeaseNext, PTL DEF Spec, RenewalKeepsLease
-----------------------------------------------------------------------------
(* What an activated device is configured with *)

OnRecord(f) == disk[f] \in Lease /\ <<f, disk[f].addr>> \in addrs

\* An exchange is the profile's; once it is the one for IPv6, IPv4 is on
\* record; and a device is not activated before its exchanges are over.
RecordInv ==
  /\ pc \in {"discover", "request", "address", "save"} =>
       /\ state = "IpConfiguring"
       /\ family = 6 /\ profile.method = "Auto" => OnRecord(4)
  /\ pc = "save" => <<family, lease.addr>> \in addrs
  /\ state = "Activated" => /\ profile.method = "Auto" => OnRecord(4)
                            /\ profile.ipv6 = "Dhcp6" => OnRecord(6)

\* No step breaks RecordInv: activate configures IPv4 first, saves each lease
\* and only then activates the device (activation.rs).
LEMMA RecordNext == LeaseInv /\ RecordInv /\ [Next]_vars => RecordInv'
<1> SUFFICES ASSUME LeaseInv, RecordInv, [Next]_vars PROVE RecordInv'
  OBVIOUS
<1>1. ASSUME UNCHANGED <<family, profile, state, addrs, disk>>,
             \/ UNCHANGED <<pc, lease>>
             \/ pc' \in {"idle", "renew"}
             \/ pc \in {"discover", "request"} /\ pc' \in {"request", "address"}
      PROVE  RecordInv'
  BY <1>1 DEF RecordInv, OnRecord
<1>2. CASE ServerStep \/ UNCHANGED vars \/ \E f \in Family : PassT1(f)
  BY <1>1, <1>2 DEF ServerStep, PassT1, vars, exchange, device, store
<1>3. CASE ReceiveOffer \/ ReceiveRapidReply \/ ReceiveAck
  BY <1>1, <1>3 DEF ReceiveOffer, ReceiveRapidReply, ReceiveAck, device, store
<1>4. CASE ReceiveRenewal \/ RenewFails
  BY <1>1, <1>4, RenewalSame DEF ReceiveRenewal, RenewFails, exchange, device, store
<1>5. CASE Renew
  BY <1>5 DEF Renew, device, store, RecordInv, OnRecord
<1>6. CASE AddAddress
  BY <1>6 DEF AddAddress, exchange, store, RecordInv, OnRecord
<1>7. CASE SaveLease
  <2>1. /\ pc = "save" /\ disk' = [disk EXCEPT ![family] = lease] /\ UNCHANGED <<profile, addrs>>
        /\ IF family = 4 THEN Ipv6(profile) ELSE Configured
    BY <1>7 DEF SaveLease
  <2>2. lease \in Lease /\ disk \in [Family -> Lease \cup {None}] /\ family \in {4, 6}
    BY <2>1 DEF LeaseInv, PcInv, Types, Family
  <2>3. disk'[family] = lease /\ \A f \in Family : f # family => disk'[f] = disk[f]
    BY <2>1, <2>2 DEF Family
  <2>4. state = "IpConfiguring" /\ <<family, lease.addr>> \in addrs
        /\ (family = 6 /\ profile.method = "Auto" => OnRecord(4))
    BY <2>1 DEF RecordInv
  <2>5. CASE family = 6
    <3>1. pc' = "idle" /\ family' = 6
      BY <2>1, <2>5 DEF Configured
    <3>2. disk'[6] \in Lease /\ <<6, disk'[6].addr>> \in addrs'
      BY <2>1, <2>2, <2>3, <2>4, <2>5
    <3>3. profile'.method = "Auto" => disk'[4] \in Lease /\ <<4, disk'[4].addr>> \in addrs'
      BY <2>1, <2>3, <2>4, <2>5 DEF OnRecord, Family
    <3> QED BY <3>1, <3>2, <3>3 DEF RecordInv, OnRecord
  <2>6. CASE family = 4
    <3>1. disk'[4] \in Lease /\ <<4, disk'[4].addr>> \in addrs'
      BY <2>1, <2>2, <2>3, <2>4, <2>6
    <3>2. CASE profile.ipv6 = "Dhcp6" /\ Discover(6) /\ UNCHANGED <<state, active>>
      BY <2>4, <3>1, <3>2 DEF Discover, RecordInv, OnRecord
    <3>3. CASE profile.ipv6 = "Slaac" /\ Configured
      BY <2>1, <3>1, <3>3 DEF Configured, RecordInv, OnRecord
    <3> QED BY <2>1, <2>6, <3>2, <3>3 DEF Ipv6
  <2> QED BY <2>2, <2>5, <2>6
<1>8. CASE ActivateFails \/ Fail \/ Crash
  BY <1>8 DEF ActivateFails, Fail, Crash, RecordInv
<1>9. CASE Deactivate
  BY <1>9 DEF Deactivate, RecordInv
<1>10. ASSUME NEW p \in Profile, Activate(p) PROVE RecordInv'
  BY <1>10 DEF Activate, Discover, Configured, RecordInv
<1> QED BY <1>2, <1>3, <1>4, <1>5, <1>6, <1>7, <1>8, <1>9, <1>10 DEF Next

\* A device that counts as activated by DHCP has the address that is on record
\* (activation::apply_dhcp and apply_dhcp6 record before the state is set).
THEOREM ActivatedIsOnRecord == Spec => []ActivatedOnRecord
<1>1. RecordInv => ActivatedOnRecord
  BY NoneAssumption DEF RecordInv, OnRecord, ActivatedOnRecord
<1>2. Init => RecordInv
  BY DEF Init, RecordInv
<1> QED BY <1>1, <1>2, LeaseInit, LeaseNext, RecordNext, PTL DEF Spec
-----------------------------------------------------------------------------
(* Type correctness *)

\* The types that LeaseInv does not need.
RestTypes ==
  /\ profile \in Profile /\ xid <= MaxXid
  /\ state \in {"Disconnected", "IpConfiguring", "Activated", "Failed", "Deactivating"}
  /\ addrs \subseteq Family \X Address /\ due \subseteq Family
  /\ granted \subseteq Family \X Servers \X Address

\* No step breaks RestTypes: an address comes from the pool of the server that
\* offers it, and an exchange draws an id only below the bound.
LEMMA RestTypesNext == LeaseInv /\ RestTypes /\ [Next]_vars => RestTypes'
<1> SUFFICES ASSUME LeaseInv, RestTypes, [Next]_vars PROVE RestTypes'
  OBVIOUS
<1>0. xid \in Nat /\ MaxXid \in Nat /\ family \in Family /\ 4 \in Family /\ 6 \in Family
  BY MaxXidAssumption DEF LeaseInv, Types, Family
<1>1. CASE ServerStep
  <2>1. UNCHANGED <<profile, state, xid, addrs, due>>
    BY <1>1 DEF ServerStep, exchange, device, store
  <2>2. PICK s \in Servers, m \in up :
          (\E a \in Pool[s] : ServerOffers(s, m, a)) \/ ServerGrants(s, m)
    BY <1>1 DEF ServerStep
  <2>3. m.family \in Family
    BY <2>2 DEF LeaseInv, Types, Up
  <2>4. PICK f \in Family, a \in Pool[s] : granted' \in {granted, granted \cup {<<f, s, a>>}}
    BY <1>0, <2>2, <2>3 DEF ServerOffers, ServerGrants
  <2>5. <<f, s, a>> \in Family \X Servers \X Address
    BY <2>2, <2>4 DEF Address
  <2> QED BY <2>1, <2>4, <2>5 DEF RestTypes
<1>2. CASE ReceiveOffer
  <2>1. xid' = (IF family = 4 THEN xid ELSE xid + 1) /\ (family = 6 => xid < MaxXid)
        /\ UNCHANGED <<profile, state, addrs, due, granted>>
    BY <1>2 DEF ReceiveOffer, device, store
  <2>2. xid' <= MaxXid
    BY <1>0, <2>1 DEF RestTypes, Family
  <2> QED BY <2>1, <2>2 DEF RestTypes
<1>3. CASE ReceiveRapidReply \/ ReceiveAck \/ ReceiveRenewal \/ RenewFails \/ ActivateFails \/ Fail \/ Crash
           \/ UNCHANGED vars
  <2>1. UNCHANGED <<profile, xid, addrs, granted>> /\ due' \in {due, due \ {4}}
        /\ state' \in {state, "Failed", "Disconnected"}
    BY <1>3, Zenon DEF ReceiveRapidReply, ReceiveAck, ReceiveRenewal, RenewFails, ActivateFails, Fail, Crash,
                vars, exchange, device, store, net
  <2> QED BY <2>1, Zenon DEF RestTypes
<1>4. CASE AddAddress
  <2>1. UNCHANGED <<profile, xid, state, due, granted>> /\ addrs' = addrs \cup {<<family, lease.addr>>}
    BY <1>4 DEF AddAddress, exchange, store, net
  <2>2. lease.addr \in Address
    BY <1>4 DEF AddAddress, LeaseInv, PcInv, Lease
  <2> QED BY <1>0, <2>1, <2>2 DEF RestTypes
<1>5. ASSUME Discover(4) \/ Discover(6) PROVE xid' <= MaxXid
  BY <1>0, <1>5 DEF Discover
<1>6. CASE SaveLease
  <2>1. UNCHANGED <<profile, addrs, granted>> /\ due' = due \ {family}
        /\ \/ Discover(6) /\ UNCHANGED state
           \/ xid' = xid /\ state' \in {"Activated", "Failed"}
    BY <1>6 DEF SaveLease, Ipv6, Configured
  <2> QED BY <1>5, <2>1 DEF RestTypes
<1>7. ASSUME NEW p \in Profile, Activate(p) PROVE RestTypes'
  <2>1. profile' = p /\ addrs' = {} /\ UNCHANGED <<due, granted>>
        /\ \/ (Discover(4) \/ Discover(6)) /\ state' = "IpConfiguring"
           \/ xid' = xid /\ state' \in {"Activated", "Failed"}
    BY <1>7 DEF Activate, Configured, store
  <2> QED BY <1>5, <2>1 DEF RestTypes
<1>8. CASE Renew
  <2>1. xid < MaxXid /\ xid' = xid + 1 /\ UNCHANGED <<profile, state, addrs, due, granted>>
    BY <1>8 DEF Renew, device, store
  <2>2. xid' <= MaxXid
    BY <1>0, <2>1
  <2> QED BY <2>1, <2>2 DEF RestTypes
<1>9. CASE Deactivate
  <2>1. UNCHANGED <<profile, xid, granted>> /\ state' \in {"Disconnected", "Deactivating"}
        /\ addrs' \in {{}, addrs} /\ due' \subseteq due
    BY <1>9 DEF Deactivate, Release, exchange, net
  <2> QED BY <2>1 DEF RestTypes
<1>10. ASSUME NEW f \in Family, PassT1(f) PROVE RestTypes'
  BY <1>10 DEF PassT1, exchange, device, net, RestTypes
<1> QED BY <1>1, <1>2, <1>3, <1>4, <1>6, <1>7, <1>8, <1>9, <1>10 DEF Next

\* The device is in self.active or it is not.
ActiveType == active \in BOOLEAN

\* No step gives the device any other entry (the active map of the manager).
LEMMA ActiveNext == ActiveType /\ [Next]_vars => ActiveType'
<1> SUFFICES ASSUME active \in BOOLEAN, [Next]_vars PROVE active' \in BOOLEAN
  BY DEF ActiveType
<1>1. active' = active \/ active' = TRUE \/ active' = FALSE
  <2>1. CASE ServerStep \/ ReceiveOffer \/ ReceiveRapidReply \/ ReceiveAck \/ AddAddress \/ ActivateFails
    BY <2>1 DEF ServerStep, ReceiveOffer, ReceiveRapidReply, ReceiveAck, AddAddress, ActivateFails, device
  <2>4. CASE Fail \/ Renew \/ ReceiveRenewal \/ RenewFails \/ UNCHANGED vars \/ \E f \in Family : PassT1(f)
    BY <2>4 DEF Fail, Renew, ReceiveRenewal, RenewFails, PassT1, vars, device
  <2>2. CASE SaveLease \/ \E p \in Profile : Activate(p)
    BY <2>2, Zenon DEF SaveLease, Ipv6, Configured, Activate
  <2>3. CASE Deactivate \/ Crash
    BY <2>3 DEF Deactivate, Crash
  <2> QED BY <2>1, <2>2, <2>3, <2>4, Zenon DEF Next
<1> QED BY <1>1, Zenon

\* Every variable has its type: what the clients record and configure is a
\* lease, an address of some server's pool (Lease in dhcp/client.rs).
THEOREM TypeCorrect == Spec => []TypeOK
<1>1. Init => RestTypes /\ ActiveType
  <2>1. Init => RestTypes
    BY MaxXidAssumption DEF Init, RestTypes, Profile
  <2>2. Init => ActiveType
    BY Zenon DEF Init, ActiveType
  <2> QED BY <2>1, <2>2
<1>2. LeaseInv /\ RestTypes /\ ActiveType => TypeOK
  <2> SUFFICES ASSUME LeaseInv, RestTypes, active \in BOOLEAN PROVE TypeOK
    BY DEF ActiveType
  <2>1. xid \in 0 .. MaxXid
    BY MaxXidAssumption DEF LeaseInv, Types, RestTypes
  <2>2. Types /\ RestTypes
    BY Zenon DEF LeaseInv
  <2> QED BY <2>1, <2>2, Zenon DEF Types, RestTypes, TypeOK
<1> QED BY <1>1, <1>2, LeaseInit, LeaseNext, RestTypesNext, ActiveNext, PTL DEF Spec
-----------------------------------------------------------------------------
(* VPN sessions *)

\* One attempt: at most one line is unread, nothing was said before the
\* management connection was accepted, a reader that still has to report has
\* read no CONNECTED and no fatal state, and connect is told of a device only
\* if CONNECTED came first.
Good(r) ==
  /\ r \in Attempt
  /\ Len(r.lines) <= 1
  /\ r.daemon \in {"none", "starting", "dialed"} =>
       r.lines = <<>> /\ r.first = "none" /\ r.report = "none"
  /\ r.tx /\ r.lines = <<>> => r.first = "none"
  /\ r.tx /\ r.lines # <<>> =>
       \/ r.lines[1] = "RECONNECTING" /\ r.first = "none"
       \/ r.first = r.lines[1]
  /\ r.report \notin {"none", "failed"} => r.first = "CONNECTED"

AttInv ==
  /\ att \in [Attempts -> Attempt]
  /\ \A a \in Attempts : Good(att[a])

\* What a step may do to the attempts: one of them at most changes, stays
\* good, keeps its profile and does not forget that CONNECTED came first.
Advances(a) ==
  /\ att' \in [Attempts -> Attempt]
  /\ \A b \in Attempts \ {a} : att'[b] = att[b]
  /\ Good(att'[a])
  /\ att[a].first = "CONNECTED" => att'[a].first = "CONNECTED"
  /\ att[a].profile \in OpenVpnProfiles => att'[a].profile = att[a].profile

\* An attempt that was not made is good.
LEMMA NotMadeGood == Good(NotMade)
BY DEF Good, NotMade, Attempt, NoName, States

\* connect starts an attempt, or fails to (openvpn::connect).
LEMMA MadeAdvances ==
  ASSUME AttInv, NEW a \in Attempts, att[a] = NotMade, NoName \notin OpenVpnProfiles,
         NEW p \in OpenVpnProfiles, NEW d \in {"starting", "exited"},
         att' = [att EXCEPT ![a].profile = p, ![a].daemon = d]
  PROVE  Advances(a)
BY SMTT(30) DEF Advances, AttInv, Good, Attempt, NotMade

\* A step that replaces attempt a by a good one that remembers.
LEMMA ChangeAdvances ==
  ASSUME AttInv, NEW a \in Attempts, NEW new \in Attempt,
         att' = [att EXCEPT ![a] = new], Good(new),
         att[a].first = "CONNECTED" => new.first = "CONNECTED", new.profile = att[a].profile
  PROVE  Advances(a)
BY DEF Advances, AttInv

\* The management connection is accepted (openvpn::connect).
LEMMA AcceptAdvances ==
  ASSUME AttInv, NEW a \in Attempts, att[a].daemon = "dialed",
         att' = [att EXCEPT ![a].daemon = "up", ![a].reader = TRUE, ![a].tx = TRUE]
  PROVE  Advances(a)
<1>1. att \in [Attempts -> Attempt] /\ Good(att[a]) /\ att[a] \in Attempt
  BY DEF AttInv
<1>2. PICK new : new = [att[a] EXCEPT !.daemon = "up", !.reader = TRUE, !.tx = TRUE]
  OBVIOUS
<1>3. att' = [att EXCEPT ![a] = new]
  BY <1>1, <1>2, Zenon
<1>4. new \in Attempt
  BY <1>1, <1>2, Zenon DEF Attempt
<1>5. /\ new.daemon = "up" /\ new.lines = att[a].lines /\ new.tx = TRUE
      /\ new.report = att[a].report /\ new.first = att[a].first /\ new.profile = att[a].profile
  BY <1>1, <1>2 DEF Attempt
<1>6. Good(new)
  BY <1>1, <1>4, <1>5 DEF Good
<1> QED BY <1>3, <1>4, <1>5, <1>6, ChangeAdvances, Zenon

\* openvpn connects to the management socket, or ends.
LEMMA DaemonAdvances ==
  ASSUME AttInv, NEW a \in Attempts, NEW d \in {"dialed", "exited"},
         d = "dialed" => att[a].daemon = "starting",
         att' = [att EXCEPT ![a].daemon = d]
  PROVE  Advances(a)
<1>1. att \in [Attempts -> Attempt] /\ Good(att[a]) /\ att[a] \in Attempt
  BY DEF AttInv
<1>2. PICK new : new = [att[a] EXCEPT !.daemon = d]
  BY Zenon
<1>3. att' = [att EXCEPT ![a] = new]
  BY <1>1, <1>2
<1>4. new \in Attempt
  BY <1>1, <1>2, Zenon DEF Attempt
<1>5. /\ new.daemon = d /\ new.lines = att[a].lines /\ new.tx = att[a].tx
      /\ new.report = att[a].report /\ new.first = att[a].first /\ new.profile = att[a].profile
  BY <1>1, <1>2 DEF Attempt
<1>6. Good(new)
  BY <1>1, <1>4, <1>5 DEF Good
<1> QED BY <1>3, <1>4, <1>5, <1>6, ChangeAdvances, Zenon

\* connect has taken the report.
LEMMA TakenAdvances ==
  ASSUME AttInv, NEW a \in Attempts, att' = [att EXCEPT ![a].report = "none"]
  PROVE  Advances(a)
<1>1. att \in [Attempts -> Attempt] /\ Good(att[a]) /\ att[a] \in Attempt
  BY DEF AttInv
<1>2. PICK new : new = [att[a] EXCEPT !.report = "none"]
  BY Zenon
<1>3. att' = [att EXCEPT ![a] = new]
  BY <1>1, <1>2
<1>4. new \in Attempt
  BY <1>1, <1>2, Zenon DEF Attempt
<1>5. /\ new.daemon = att[a].daemon /\ new.lines = att[a].lines /\ new.tx = att[a].tx
      /\ new.report = "none" /\ new.first = att[a].first /\ new.profile = att[a].profile
  BY <1>1, <1>2 DEF Attempt
<1>6. Good(new)
  BY <1>1, <1>4, <1>5 DEF Good
<1> QED BY <1>3, <1>4, <1>5, <1>6, ChangeAdvances, Zenon

\* disconnect has asked for the end.
LEMMA SigtermAdvances ==
  ASSUME AttInv, NEW a \in Attempts, att' = [att EXCEPT ![a].sigterm = TRUE]
  PROVE  Advances(a)
<1>1. att \in [Attempts -> Attempt] /\ Good(att[a]) /\ att[a] \in Attempt
  BY DEF AttInv
<1>2. PICK new : new = [att[a] EXCEPT !.sigterm = TRUE]
  BY Zenon
<1>3. att' = [att EXCEPT ![a] = new]
  BY <1>1, <1>2
<1>4. new \in Attempt
  BY <1>1, <1>2, Zenon DEF Attempt
<1>5. /\ new.daemon = att[a].daemon /\ new.lines = att[a].lines /\ new.tx = att[a].tx
      /\ new.report = att[a].report /\ new.first = att[a].first /\ new.profile = att[a].profile
  BY <1>1, <1>2 DEF Attempt
<1>6. Good(new)
  BY <1>1, <1>4, <1>5 DEF Good
<1> QED BY <1>3, <1>4, <1>5, <1>6, ChangeAdvances, Zenon

\* openvpn obeys it.
LEMMA TerminateAdvances ==
  ASSUME AttInv, NEW a \in Attempts,
         att' = [att EXCEPT ![a].daemon = "exited", ![a].dev = NoName]
  PROVE  Advances(a)
<1>1. att \in [Attempts -> Attempt] /\ Good(att[a]) /\ att[a] \in Attempt
  BY DEF AttInv
<1>2. PICK new : new = [att[a] EXCEPT !.daemon = "exited", !.dev = NoName]
  OBVIOUS
<1>3. att' = [att EXCEPT ![a] = new]
  BY <1>1, <1>2, Zenon
<1>4. new \in Attempt
  BY <1>1, <1>2, Zenon DEF Attempt
<1>5. /\ new.daemon = "exited" /\ new.lines = att[a].lines /\ new.tx = att[a].tx
      /\ new.report = att[a].report /\ new.first = att[a].first /\ new.profile = att[a].profile
  BY <1>1, <1>2 DEF Attempt
<1>6. Good(new)
  BY <1>1, <1>4, <1>5 DEF Good
<1> QED BY <1>3, <1>4, <1>5, <1>6, ChangeAdvances, Zenon

\* background_reader takes a line.
LEMMA ReadStateAdvances ==
  ASSUME AttInv, NEW a \in Attempts, ReadState(a)
  PROVE  Advances(a)
<1> DEFINE r == att[a]
           s == Head(r.lines)
           known == s = "CONNECTED" /\ a \in workdirs /\ r.dev # NoName
           named == IF known THEN r.dev ELSE "unnamed"
           ifname == IF known THEN named ELSE r.ifname
           tx == r.tx /\ s = "RECONNECTING"
           report == CASE s = "CONNECTED" -> Reported(a, named)
                       [] s = "FATAL" -> Reported(a, "failed")
                       [] OTHER -> r.report
<1>1. Good(r) /\ att \in [Attempts -> Attempt] /\ r \in Attempt
  BY DEF AttInv, Good
<1>2. r.lines \in Seq(States) /\ r.lines # <<>> /\ Len(r.lines) <= 1
  BY <1>1 DEF Good, Attempt, ReadState
<1>3. s \in States /\ s = r.lines[1] /\ Tail(r.lines) = <<>>
  BY <1>2
<1>4. att' = [att EXCEPT ![a].lines = Tail(r.lines), ![a].state = s, ![a].ifname = ifname,
                         ![a].tx = tx, ![a].report = report]
  BY <1>1 DEF ReadState, Attempt
<1>5. /\ report \in {"none", "failed", "unnamed"} \cup Tuns
      /\ report \notin {"none", "failed"} => r.report = report \/ (r.tx /\ s = "CONNECTED")
  BY <1>1, <1>3, Zenon DEF Reported, Attempt, States
<1>6. ifname \in Tuns \cup {NoName} /\ tx \in BOOLEAN /\ (tx => r.tx /\ s = "RECONNECTING")
  BY <1>1 DEF Attempt
<1> HIDE DEF report, ifname, tx, s
<1>7. PICK new : new = [r EXCEPT !.lines = <<>>, !.state = s, !.ifname = ifname,
                                 !.tx = tx, !.report = report]
  OBVIOUS
<1>8. att' = [att EXCEPT ![a] = new]
  BY <1>1, <1>3, <1>4, <1>7, Zenon
<1>9. new \in Attempt
  <2>1. <<>> \in Seq(States) /\ s \in States \cup {NoName}
    BY <1>3
  <2>2. PICK half : half = [r EXCEPT !.lines = <<>>, !.state = s, !.ifname = ifname]
    OBVIOUS
  <2>3. half \in Attempt
    BY <1>1, <1>6, <2>1, <2>2, Zenon DEF Attempt
  <2>4. new = [half EXCEPT !.tx = tx, !.report = report]
    BY <1>7, <2>2
  <2>5. tx \in BOOLEAN /\ report \in {"none", "failed", "unnamed"} \cup Tuns
    BY <1>5, <1>6
  <2> QED BY <2>3, <2>4, <2>5, ZenonT(60) DEF Attempt
<1>10. /\ new.daemon = r.daemon /\ new.lines = <<>> /\ new.tx = tx
       /\ new.report = report /\ new.first = r.first /\ new.profile = r.profile
  BY <1>1, <1>7 DEF Attempt
<1>11. Good(new)
  <2>1. r.daemon \notin {"none", "starting", "dialed"} /\ Len(<<>>) = 0
    BY <1>1, <1>2, Zenon DEF Good
  <2>2. r.tx => (s = "RECONNECTING" /\ r.first = "none") \/ r.first = s
    BY <1>1, <1>2, <1>3, Zenon DEF Good
  <2>3. tx => r.first = "none"
    BY <1>3, <1>6, <2>2, <1>1, Zenon DEF Attempt
  <2>4. report \notin {"none", "failed"} => r.first = "CONNECTED"
    BY <1>1, <1>5, <2>2 DEF Good
  <2> QED BY <1>9, <1>10, <2>1, <2>3, <2>4 DEF Good
<1> QED BY <1>8, <1>9, <1>10, <1>11, ChangeAdvances, Zenon

\* The management connection ends.
LEMMA ReadEndAdvances ==
  ASSUME AttInv, NEW a \in Attempts, ReadEnd(a)
  PROVE  Advances(a)
<1>1. att \in [Attempts -> Attempt] /\ Good(att[a]) /\ att[a] \in Attempt
  BY DEF AttInv
<1>2. Reported(a, "failed") \in {"failed", att[a].report}
  BY DEF Reported
<1>3. PICK new : new = [att[a] EXCEPT !.reader = FALSE, !.tx = FALSE,
                                      !.report = Reported(a, "failed")]
  OBVIOUS
<1>4. att' = [att EXCEPT ![a] = new]
  BY <1>1, <1>3, Zenon DEF ReadEnd
<1>5. new \in Attempt
  BY <1>1, <1>2, <1>3, Zenon DEF Attempt
<1>6. /\ new.daemon = att[a].daemon /\ new.lines = att[a].lines /\ new.tx = FALSE
      /\ new.report \in {"failed", att[a].report} /\ new.first = att[a].first
      /\ new.profile = att[a].profile
  BY <1>1, <1>2, <1>3 DEF Attempt
<1>7. att[a].daemon = "exited"
  BY Zenon DEF ReadEnd
<1>8. Good(new)
  BY <1>1, <1>5, <1>6, <1>7 DEF Good
<1> QED BY <1>4, <1>5, <1>6, <1>8, ChangeAdvances, Zenon

\* What openvpn's saying s makes of the attempt.
LEMMA SaidGood ==
  ASSUME NEW r \in Attempt, Good(r), r.lines = <<>>, r.daemon = "up",
         NEW s \in States, NEW new \in Attempt,
         new.daemon \in {"up", "exited"}, new.lines = <<s>>,
         new.tx = r.tx, new.report = r.report,
         new.first = IF r.first = "none" /\ s # "RECONNECTING" THEN s ELSE r.first
  PROVE  Good(new)
<1>1. <<s>> # <<>> /\ Len(<<s>>) = 1 /\ <<s>>[1] = s
  OBVIOUS
<1> QED BY <1>1 DEF Good, States

\* The tunnel comes up, has to be set up again, or openvpn gives up.
LEMMA SayAdvances ==
  ASSUME AttInv, NEW a \in Attempts, TunnelUp(a) \/ Reconnect(a) \/ Fatal(a)
  PROVE  Advances(a)
<1> DEFINE r == att[a]
<1>1. Good(r) /\ att \in [Attempts -> Attempt] /\ r \in Attempt /\ r.lines = <<>> /\ r.daemon = "up"
  BY Zenon DEF AttInv, TunnelUp, Reconnect, Fatal
<1>2. ASSUME NEW s \in States
      PROVE  /\ Append(r.lines, s) = <<s>> /\ <<s>> \in Seq(States)
             /\ (IF r.first = "none" /\ s # "RECONNECTING" THEN s ELSE r.first)
                  \in {"none", "CONNECTED", "FATAL"}
  BY <1>1 DEF Attempt, States
<1> DEFINE First(s) == IF r.first = "none" /\ s # "RECONNECTING" THEN s ELSE r.first
<1>3. CASE TunnelUp(a)
  <2>1. PICK dev \in {NoName} \cup Tuns : att' = [Say(a, "CONNECTED") EXCEPT ![a].dev = dev]
    BY <1>3 DEF TunnelUp
  <2>2. PICK new : new = [r EXCEPT !.lines = <<"CONNECTED">>, !.first = First("CONNECTED"), !.dev = dev]
    OBVIOUS
  <2>3. att' = [att EXCEPT ![a] = new]
    BY <1>1, <1>2, <2>1, <2>2, Zenon DEF Say, States
  <2>4. new \in Attempt
    <3>1. <<"CONNECTED">> \in Seq(States) /\ First("CONNECTED") \in {"none", "CONNECTED", "FATAL"}
      BY <1>2 DEF States
    <3> HIDE DEF First
    <3> QED BY <1>1, <2>1, <2>2, <3>1, Zenon DEF Attempt
  <2>5. /\ new.daemon = r.daemon /\ new.lines = <<"CONNECTED">> /\ new.tx = r.tx
        /\ new.report = r.report /\ new.first = First("CONNECTED") /\ new.profile = r.profile
    BY <1>1, <2>2, Zenon DEF Attempt
  <2>6. Good(new)
    BY <1>1, <2>4, <2>5, SaidGood DEF States
  <2> QED BY <2>3, <2>4, <2>5, <2>6, ChangeAdvances, Zenon
<1>4. CASE Reconnect(a)
  <2>2. PICK new : new = [r EXCEPT !.lines = <<"RECONNECTING">>, !.first = First("RECONNECTING")]
    OBVIOUS
  <2>3. att' = [att EXCEPT ![a] = new]
    BY <1>1, <1>2, <1>4, <2>2, Zenon DEF Reconnect, Say, States
  <2>4. new \in Attempt
    <3>1. <<"RECONNECTING">> \in Seq(States) /\ First("RECONNECTING") \in {"none", "CONNECTED", "FATAL"}
      BY <1>2 DEF States
    <3> HIDE DEF First
    <3> QED BY <1>1, <2>2, <3>1, Zenon DEF Attempt
  <2>5. /\ new.daemon = r.daemon /\ new.lines = <<"RECONNECTING">> /\ new.tx = r.tx
        /\ new.report = r.report /\ new.first = First("RECONNECTING") /\ new.profile = r.profile
    BY <1>1, <2>2, Zenon DEF Attempt
  <2>6. Good(new)
    BY <1>1, <2>4, <2>5, SaidGood, Zenon DEF States
  <2> QED BY <2>3, <2>4, <2>5, <2>6, ChangeAdvances, Zenon
<1>5. CASE Fatal(a)
  <2>2. PICK new : new = [r EXCEPT !.lines = <<"FATAL">>, !.first = First("FATAL"),
                                   !.daemon = "exited", !.dev = NoName]
    OBVIOUS
  <2>3. att' = [att EXCEPT ![a] = new]
    BY <1>1, <1>2, <1>5, <2>2, Zenon DEF Fatal, Say, States
  <2>4. new \in Attempt
    <3>1. <<"FATAL">> \in Seq(States) /\ First("FATAL") \in {"none", "CONNECTED", "FATAL"}
      BY <1>2 DEF States
    <3> HIDE DEF First
    <3> QED BY <1>1, <2>2, <3>1, Zenon DEF Attempt
  <2>5. /\ new.daemon = "exited" /\ new.lines = <<"FATAL">> /\ new.tx = r.tx
        /\ new.report = r.report /\ new.first = First("FATAL") /\ new.profile = r.profile
    BY <1>1, <2>2, Zenon DEF Attempt
  <2>6. Good(new)
    BY <1>1, <2>4, <2>5, SaidGood DEF States
  <2> QED BY <2>3, <2>4, <2>5, <2>6, ChangeAdvances, Zenon
<1> QED BY <1>3, <1>4, <1>5
-----------------------------------------------------------------------------
(* The sessions *)

\* Inductive: beside SessionsTracked, the attempt connect or disconnect is
\* busy with has its work directory and is not a session.
SessionInv ==
  /\ AttInv
  /\ stage \in {"idle", "accept", "await", "killing"}
  /\ stage # "idle" => cur \in Attempts /\ \A n \in DOMAIN SESSIONS : SESSIONS[n] # cur
  /\ stage \in {"accept", "await"} => cur \in workdirs /\ att[cur].profile \in OpenVpnProfiles
  /\ DOMAIN SESSIONS \subseteq Names
  /\ \A n \in DOMAIN SESSIONS : SESSIONS[n] \in Attempts
  /\ links \in [WireGuards -> {"absent", "bare", "configured"}]
  /\ SessionsTracked

\* Attempts that advance stay good.
LEMMA AttInvKept ==
  ASSUME AttInv, NEW a \in Attempts, Advances(a)
  PROVE  AttInv' /\ \A b \in Attempts : /\ att[b].first = "CONNECTED" => att'[b].first = "CONNECTED"
                                        /\ att[b].profile \in OpenVpnProfiles =>
                                             att'[b].profile \in OpenVpnProfiles
BY DEF AttInv, Advances

\* The threads and openvpn change the attempts only.
LEMMA BesideInv ==
  ASSUME SessionInv, Beside
  PROVE  SessionInv'
<1>1. PICK a \in Attempts : Thread(a) \/ Daemon(a)
  BY DEF Beside
<1>2. UNCHANGED <<stage, cur, workdirs, SESSIONS, ACTIVE, links>>
  BY <1>1, Zenon DEF Thread, Daemon, RemoveUserpass, ReadState, ReadEnd, Dial, TunnelUp, Reconnect,
              Fatal, Terminate
<1>3. AttInv
  BY DEF SessionInv
<1>4. att' = att \/ Advances(a)
  <2>1. CASE Dial(a)
    BY <1>3, <2>1, DaemonAdvances, Zenon DEF Dial
  <2>2. CASE Terminate(a)
    BY <1>3, <2>2, TerminateAdvances, Zenon DEF Terminate
  <2> QED BY <1>1, <1>3, <2>1, <2>2, ReadStateAdvances, ReadEndAdvances, SayAdvances
          DEF Thread, Daemon, RemoveUserpass
<1>5. CASE att' = att
  BY <1>2, <1>5 DEF SessionInv, AttInv, SessionsTracked
<1>6. CASE Advances(a)
  <2>1. AttInv' /\ \A b \in Attempts : /\ att[b].first = "CONNECTED" => att'[b].first = "CONNECTED"
                                       /\ att[b].profile \in OpenVpnProfiles =>
                                            att'[b].profile \in OpenVpnProfiles
    BY <1>3, <1>6, AttInvKept
  <2> QED BY <1>2, <2>1 DEF SessionInv, SessionsTracked
<1> QED BY <1>4, <1>5, <1>6

\* connect starts openvpn, or fails to (openvpn::connect).
LEMMA LaunchInv ==
  ASSUME SessionInv, NEW p \in OpenVpnProfiles, Launch(p) \/ LaunchFailsEarly(p) \/ LaunchFails(p)
  PROVE  SessionInv'
<1>1. PICK a \in Attempts :
        /\ stage = "idle" /\ att[a] = NotMade /\ UNCHANGED <<SESSIONS, ACTIVE, links>>
        /\ workdirs \subseteq workdirs'
        /\ \/ att' = [att EXCEPT ![a].profile = p, ![a].daemon = "starting"]
              /\ stage' = "accept" /\ cur' = a /\ a \in workdirs'
           \/ att' = [att EXCEPT ![a].profile = p, ![a].daemon = "exited"] /\ stage' = "idle"
  BY DEF Launch, LaunchFailsEarly, LaunchFails, Unmade
<1>2. AttInv
  BY DEF SessionInv
<1>3. Advances(a)
  BY <1>1, <1>2, MadeAdvances, NamesAssumption, Zenon DEF NoName
<1>4. AttInv' /\ \A b \in Attempts : att[b].first = "CONNECTED" => att'[b].first = "CONNECTED"
  BY <1>2, <1>3, AttInvKept
<1>5. att'[a].profile = p
  BY <1>1, <1>2 DEF AttInv, NotMade
<1>6. \A n \in DOMAIN SESSIONS : SESSIONS[n] # a
  BY <1>1 DEF SessionInv, SessionsTracked, NotMade
<1> QED BY <1>1, <1>4, <1>5, <1>6 DEF SessionInv, SessionsTracked

\* connect goes on to wait for openvpn, or gives up (openvpn::connect).
LEMMA WaitInv ==
  ASSUME SessionInv, Accept \/ AcceptFails \/ ConnectFails \/ Kill
  PROVE  SessionInv'
<1>1. /\ stage \in {"accept", "await", "killing"} /\ UNCHANGED <<SESSIONS, ACTIVE, links>>
      /\ \/ stage = "accept" /\ stage' = "await" /\ UNCHANGED <<cur, workdirs>>
         \/ stage' = "idle" /\ workdirs' = workdirs \ {cur}
  BY DEF Accept, AcceptFails, ConnectFails, Kill
<1>2. AttInv /\ cur \in Attempts /\ \A n \in DOMAIN SESSIONS : SESSIONS[n] # cur
  BY <1>1 DEF SessionInv
<1>3. att' = att \/ Advances(cur)
  BY <1>2, AcceptAdvances, DaemonAdvances, TakenAdvances, Zenon DEF Accept, AcceptFails, ConnectFails, Kill
<1>4. AttInv' /\ \A b \in Attempts : /\ att[b].first = "CONNECTED" => att'[b].first = "CONNECTED"
                                     /\ att[b].profile \in OpenVpnProfiles =>
                                          att'[b].profile \in OpenVpnProfiles
  <2>1. CASE att' = att
    BY <1>2, <2>1 DEF AttInv
  <2> QED BY <1>2, <1>3, <2>1, AttInvKept
<1> QED BY <1>1, <1>2, <1>4, Zenon DEF SessionInv, SessionsTracked

\* The session is entered under its name (openvpn::connect, vpn::connect).
LEMMA ConnectedInv ==
  ASSUME SessionInv, Connected
  PROVE  SessionInv'
<1> DEFINE name == IF att[cur].report = "unnamed" THEN Fallback[att[cur].profile]
                   ELSE att[cur].report
<1>1. /\ stage = "await" /\ stage' = "idle" /\ UNCHANGED <<workdirs, links>>
      /\ att[cur].report \notin {"none", "failed"}
      /\ SESSIONS' = Put(SESSIONS, name, cur) /\ ACTIVE' = Put(ACTIVE, name, "OpenVpn")
      /\ att' = [att EXCEPT ![cur].report = "none"]
  BY DEF Connected
<1>2. /\ AttInv /\ cur \in Attempts /\ cur \in workdirs /\ att[cur].profile \in OpenVpnProfiles
      /\ \A n \in DOMAIN SESSIONS : SESSIONS[n] # cur
  BY <1>1, Zenon DEF SessionInv
<1>3. Good(att[cur]) /\ att[cur].report \in {"none", "failed", "unnamed"} \cup Tuns
  BY <1>2, Zenon DEF AttInv, Good, Attempt
<1>4. att[cur].first = "CONNECTED"
  BY <1>1, <1>3 DEF Good
<1>5. name \in Names /\ name \notin WireGuards
  BY <1>1, <1>2, <1>3, NamesAssumption DEF Names
<1> HIDE DEF name
<1>6. AttInv' /\ \A b \in Attempts : att[b].first = "CONNECTED" => att'[b].first = "CONNECTED"
  BY <1>1, <1>2, TakenAdvances, AttInvKept, Zenon
<1>7. /\ DOMAIN SESSIONS' = DOMAIN SESSIONS \cup {name} /\ SESSIONS'[name] = cur
      /\ \A n \in DOMAIN SESSIONS \ {name} : SESSIONS'[n] = SESSIONS[n]
      /\ DOMAIN ACTIVE' = DOMAIN ACTIVE \cup {name} /\ ACTIVE'[name] = "OpenVpn"
      /\ \A n \in DOMAIN ACTIVE \ {name} : ACTIVE'[n] = ACTIVE[n]
  BY <1>1, Zenon DEF Put
<1>8. \A n \in Names : n \in DOMAIN SESSIONS' <=> (n \in DOMAIN ACTIVE' /\ ACTIVE'[n] = "OpenVpn")
  BY <1>7 DEF SessionInv, SessionsTracked
<1>9. \A n \in DOMAIN SESSIONS' :
        /\ SESSIONS'[n] \in Attempts /\ att'[SESSIONS'[n]].first = "CONNECTED"
        /\ SESSIONS'[n] \in workdirs'
        /\ \A m \in DOMAIN SESSIONS' : SESSIONS'[m] = SESSIONS'[n] => m = n
  BY <1>1, <1>2, <1>4, <1>6, <1>7 DEF SessionInv, SessionsTracked
<1>10. \A i \in WireGuards : i \in DOMAIN ACTIVE' => ACTIVE'[i] = "WireGuard" /\ links'[i] = "configured"
  BY <1>1, <1>5, <1>7 DEF SessionInv, SessionsTracked
<1> QED BY <1>1, <1>5, <1>6, <1>7, <1>8, <1>9, <1>10 DEF SessionInv, SessionsTracked

\* The session leaves both maps (openvpn::disconnect, vpn::disconnect).
LEMMA DisconnectInv ==
  ASSUME SessionInv, NEW name \in Names, DisconnectOpenVpn(name)
  PROVE  SessionInv'
<1>1. name \in DOMAIN SESSIONS
  BY DEF DisconnectOpenVpn, SessionInv, SessionsTracked
<1>2. /\ stage' = "killing" /\ cur' = SESSIONS[name] /\ UNCHANGED <<workdirs, links>>
      /\ SESSIONS' = Remove(SESSIONS, name) /\ ACTIVE' = Remove(ACTIVE, name)
      /\ att' = [att EXCEPT ![SESSIONS[name]].sigterm = TRUE]
  BY <1>1 DEF DisconnectOpenVpn
<1>3. AttInv /\ SESSIONS[name] \in Attempts
  BY <1>1 DEF SessionInv
<1>4. AttInv' /\ \A b \in Attempts : att[b].first = "CONNECTED" => att'[b].first = "CONNECTED"
  BY <1>2, <1>3, SigtermAdvances, AttInvKept, Zenon
<1>5. /\ DOMAIN SESSIONS' = DOMAIN SESSIONS \ {name} /\ DOMAIN ACTIVE' = DOMAIN ACTIVE \ {name}
      /\ \A n \in DOMAIN SESSIONS' : SESSIONS'[n] = SESSIONS[n]
      /\ \A n \in DOMAIN ACTIVE' : ACTIVE'[n] = ACTIVE[n]
  BY <1>2, Zenon DEF Remove
<1> QED BY <1>1, <1>2, <1>3, <1>4, <1>5 DEF SessionInv, SessionsTracked

\* WireGuard interfaces (wireguard::connect, wireguard::disconnect).
LEMMA WireGuardInv ==
  ASSUME SessionInv, NEW i \in WireGuards,
         ConnectWireGuard(i) \/ ConnectWireGuardFails(i) \/ DisconnectWireGuard(i)
  PROVE  SessionInv'
<1>1. UNCHANGED <<stage, cur, att, workdirs, SESSIONS>> /\ i \in Names
  BY Zenon DEF ConnectWireGuard, ConnectWireGuardFails, DisconnectWireGuard, Names
<1>2. i \notin DOMAIN SESSIONS
  BY <1>1, Zenon DEF SessionInv, SessionsTracked
<1>3. AttInv'
  BY <1>1, Zenon DEF SessionInv, AttInv
<1>4. links' \in [WireGuards -> {"absent", "bare", "configured"}]
  BY DEF ConnectWireGuard, ConnectWireGuardFails, DisconnectWireGuard, SessionInv
<1>5. SessionsTracked'
  <2>1. CASE ConnectWireGuard(i)
    BY <1>1, <1>2, <2>1, Zenon DEF ConnectWireGuard, Put, SessionInv, SessionsTracked
  <2>2. CASE ConnectWireGuardFails(i)
    BY <1>1, <1>2, <2>2, Zenon DEF ConnectWireGuardFails, SessionInv, SessionsTracked
  <2>3. CASE DisconnectWireGuard(i)
    BY <1>1, <1>2, <2>3, Zenon DEF DisconnectWireGuard, Remove, SessionInv, SessionsTracked
  <2> QED BY <2>1, <2>2, <2>3, Zenon
<1> QED BY <1>1, <1>3, <1>4, <1>5 DEF SessionInv

\* Every step of the manager, the threads and openvpn.
LEMMA SessionNext == SessionInv /\ [VpnNext]_vpnVars => SessionInv'
<1> SUFFICES ASSUME SessionInv, [VpnNext]_vpnVars PROVE SessionInv'
  OBVIOUS
<1>1. CASE UNCHANGED vpnVars
  <2>1. AttInv' /\ SessionsTracked'
    BY <1>1, Zenon DEF vpnVars, SessionInv, AttInv, SessionsTracked
  <2> QED BY <1>1, <2>1, Zenon DEF vpnVars, SessionInv
<1>2. CASE Request
  BY <1>2, LaunchInv, DisconnectInv, WireGuardInv DEF Request
<1>3. CASE Manager
  BY <1>3, WaitInv, ConnectedInv DEF Manager
<1> QED BY <1>1, <1>2, <1>3, BesideInv, Zenon DEF VpnNext

\* The invariant holds in every reachable state.
THEOREM SessionInvariance == VpnSpec => []SessionInv
<1>1. VpnInit => SessionInv
  <2> SUFFICES ASSUME VpnInit PROVE SessionInv
    OBVIOUS
  <2>1. AttInv
    BY NotMadeGood DEF VpnInit, AttInv, Good
  <2> QED BY <2>1 DEF VpnInit, SessionInv, SessionsTracked
<1> QED BY <1>1, SessionNext, PTL DEF VpnSpec

\* ACTIVE and SESSIONS agree; a session is of an openvpn that connected and
\* has its work directory, under one name; a tracked WireGuard interface is
\* configured (vpn::connect and disconnect, openvpn.rs, wireguard.rs).
THEOREM SessionsAreTracked == VpnSpec => []SessionsTracked
<1>1. SessionInv => SessionsTracked
  BY DEF SessionInv
<1> QED BY <1>1, SessionInvariance, PTL
-----------------------------------------------------------------------------
(* The files and the names *)

\* What the other variables hold; a remover thread has its file.
FilesInv ==
  /\ cur \in Attempts \cup {0}
  /\ workdirs \subseteq Attempts
  /\ removers \subseteq userpass /\ userpass \subseteq Attempts
  /\ DOMAIN ACTIVE \subseteq Names
  /\ \A n \in DOMAIN ACTIVE : ACTIVE[n] \in {"OpenVpn", "WireGuard"}

\* openvpn::connect makes the directory and the file before the thread that
\* removes the file.
LEMMA LaunchFiles ==
  ASSUME FilesInv, NEW p \in OpenVpnProfiles, Launch(p) \/ LaunchFailsEarly(p) \/ LaunchFails(p)
  PROVE  FilesInv'
<1>1. CASE Launch(p)
  BY <1>1 DEF FilesInv, Launch
<1>2. CASE LaunchFailsEarly(p)
  <2>1. PICK a \in Attempts :
          /\ workdirs' \in {workdirs, workdirs \cup {a}}
          /\ userpass' \in {userpass, userpass \cup {a}}
          /\ UNCHANGED <<cur, removers, ACTIVE>>
    BY <1>2 DEF LaunchFailsEarly
  <2> QED BY <2>1 DEF FilesInv
<1>3. CASE LaunchFails(p)
  BY <1>3 DEF FilesInv, LaunchFails
<1> QED BY <1>1, <1>2, <1>3

\* Every step of the manager, the threads and openvpn.
LEMMA FilesNext == SessionInv /\ SessionInv' /\ FilesInv /\ [VpnNext]_vpnVars => FilesInv'
<1> SUFFICES ASSUME SessionInv, SessionInv', FilesInv, [VpnNext]_vpnVars PROVE FilesInv'
  OBVIOUS
<1>1. ASSUME NEW name \in Names, DisconnectOpenVpn(name)
      PROVE  FilesInv'
  <2>1. ACTIVE' = Remove(ACTIVE, name) /\ UNCHANGED <<workdirs, userpass, removers>>
    BY <1>1 DEF DisconnectOpenVpn
  <2>2. cur' \in Attempts \cup {0}
    BY <1>1 DEF DisconnectOpenVpn, SessionInv, FilesInv
  <2> QED BY <2>1, <2>2 DEF FilesInv, Remove
<1>2. ASSUME NEW i \in WireGuards,
             ConnectWireGuard(i) \/ ConnectWireGuardFails(i) \/ DisconnectWireGuard(i)
      PROVE  FilesInv'
  <2>1. i \in Names /\ UNCHANGED <<cur, workdirs, userpass, removers>>
    BY <1>2 DEF Names, ConnectWireGuard, ConnectWireGuardFails, DisconnectWireGuard
  <2>2. \/ ACTIVE' = ACTIVE \/ ACTIVE' = Put(ACTIVE, i, "WireGuard")
        \/ ACTIVE' = Remove(ACTIVE, i)
    BY <1>2 DEF ConnectWireGuard, ConnectWireGuardFails, DisconnectWireGuard
  <2> QED BY <2>1, <2>2 DEF FilesInv, Put, Remove
<1>3. CASE Connected
  <2>1. PICK name : SESSIONS' = Put(SESSIONS, name, cur) /\ ACTIVE' = Put(ACTIVE, name, "OpenVpn")
    BY <1>3 DEF Connected
  <2>2. name \in Names
    BY <2>1 DEF SessionInv, Put
  <2>3. UNCHANGED <<workdirs, userpass, removers>> /\ cur' = 0
    BY <1>3 DEF Connected
  <2> QED BY <2>1, <2>2, <2>3 DEF FilesInv, Put
<1>4. CASE Accept \/ AcceptFails \/ ConnectFails \/ Kill
  <2>1. /\ cur' \in {cur, 0} /\ workdirs' \in {workdirs, workdirs \ {cur}}
        /\ UNCHANGED <<userpass, removers, ACTIVE>>
    BY <1>4 DEF Accept, AcceptFails, ConnectFails, Kill
  <2> QED BY <2>1 DEF FilesInv
<1>5. CASE Beside
  <2>1. PICK a \in Attempts : Thread(a) \/ Daemon(a)
    BY <1>5 DEF Beside
  <2>2. CASE RemoveUserpass(a)
    BY <2>2 DEF RemoveUserpass, FilesInv
  <2>3. CASE ~RemoveUserpass(a)
    BY <2>1, <2>3, Zenon DEF Thread, Daemon, ReadState, ReadEnd, Dial, TunnelUp, Reconnect, Fatal,
                      Terminate, FilesInv
  <2> QED BY <2>2, <2>3
<1>6. CASE UNCHANGED vpnVars
  BY <1>6 DEF vpnVars, FilesInv
<1> QED BY <1>1, <1>2, <1>3, <1>4, <1>5, <1>6, LaunchFiles DEF VpnNext, Request, Manager

\* The types hold, and the thread that removes a credentials file always finds
\* the file it was started for (openvpn::connect).
THEOREM VpnTypeCorrect == VpnSpec => []VpnTypeOK
<1>1. VpnInit => FilesInv
  BY DEF VpnInit, FilesInv
<1>2. SessionInv /\ FilesInv => VpnTypeOK
  BY DEF SessionInv, AttInv, FilesInv, VpnTypeOK
<1> QED BY <1>1, <1>2, FilesNext, SessionInvariance, PTL DEF VpnSpec
=============================================================================
