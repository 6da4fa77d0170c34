------------------------------- MODULE Sharing -------------------------------
(***************************************************************************)
(* The firewall (firewall/firewall.rs, zones.rs, nftables.rs) and what     *)
(* drives it: firewall requests and hotplug (manager/manager.rs), hotspots *)
(* with their hostapd process and DHCP server (sharing/hotspot.rs,         *)
(* wifi/hotspot.rs), and internet sharing (sharing/internet_sharing.rs,    *)
(* nat.rs).                                                                *)
(*                                                                         *)
(* The firewall has a state in memory, and the kernel has the table that   *)
(* was last rendered from it.  Running nft may fail: not at all started,   *)
(* it leaves the old table; a load that fails leaves none, because the     *)
(* table has been deleted first.  All operations run on the manager's      *)
(* thread; a crash ends the daemon and leaves the kernel's table and the   *)
(* hostapd processes behind.                                               *)
(***************************************************************************)
EXTENDS Integers, Sequences, FiniteSets, Filters

CONSTANTS
  Interfaces,       \* network interfaces
  Radios, Uplinks,  \* those that may be a hotspot, and those that may be shared
  RequestedZones,   \* the zones that requests name
  Rules,            \* rules that may be added: [id, zone, direction, action]
  MaxFailures,      \* bound: failing runs of nft and crashes
  MaxServers        \* bound: DHCP server threads per interface

VARIABLES
  fw,         \* the Firewall in memory: [zones, rules, masquerade, pairs]
  table,      \* the kernel's table: rendered rules, or Absent
  ok,         \* the last apply succeeded
  children,   \* CHILDREN: interfaces with a hostapd process to stop
  hostapd,    \* [Interfaces -> hostapd processes this daemon has started]
  dhcpd,      \* [Interfaces -> DHCP server threads]
  sessions,   \* SharingSessions: <<lan, wan>>
  failures    \* nft runs that failed, and crashes

vars == <<fw, table, ok, children, hostapd, dhcpd, sessions, failures>>

Absent == "Absent"
Zones  == <<"public", "home", "trusted", "block">>
ZoneNames == {Zones[n] : n \in DOMAIN Zones}
DefaultZone == "public"
AcceptZones == {"trusted"}
AnyPacket   == "any"   \* in place of a rule's id: the line fits every packet

\* assign_zone refuses a zone that does not exist before it changes anything.
ASSUME ConstantsAssumption ==
  /\ Radios \subseteq Interfaces /\ Uplinks \subseteq Interfaces
  /\ RequestedZones \subseteq ZoneNames
  /\ \A r \in Rules : r.id # AnyPacket
  /\ MaxFailures \in Nat /\ MaxServers \in Nat
-----------------------------------------------------------------------------
\* render: the table for a firewall state.

\* Interfaces of a zone; fw.zones[i] is the set of zones that list i.
Members(f, z) == {i \in Interfaces : z \in f.zones[i]}

Line(is, id, action) == [ifaces |-> is, rule |-> id, action |-> action]

\* Faulty variant: outbound rules are rendered into the input chain as well.
ZoneLinesBoth(f, z) ==
  LET rules == Filter(f.rules, {r \in Rules : r.zone = z})
  IN  IF Members(f, z) = {} THEN <<>>
      ELSE (IF z \in AcceptZones THEN <<Line(Members(f, z), AnyPacket, "Accept")>> ELSE <<>>)
           \o [n \in DOMAIN rules |-> Line(Members(f, z), rules[n].id, rules[n].action)]

ZoneLines(f, z) ==
  LET rules == Filter(f.rules, {r \in Rules : r.zone = z /\ r.direction = "Inbound"})
  IN  IF Members(f, z) = {} THEN <<>>
      ELSE (IF z \in AcceptZones THEN <<Line(Members(f, z), AnyPacket, "Accept")>> ELSE <<>>)
           \o [n \in DOMAIN rules |-> Line(Members(f, z), rules[n].id, rules[n].action)]

Render(f) ==
  [input |-> ZoneLines(f, "public") \o ZoneLines(f, "home")
             \o ZoneLines(f, "trusted") \o ZoneLines(f, "block"),
   forward |-> f.pairs,
   output |-> Filter(f.rules, {r \in Rules : r.direction = "Outbound"}),
   postrouting |-> f.masquerade]
-----------------------------------------------------------------------------
\* Firewall: the changes in memory.

\* Faulty variant: the interface stays in the zones it was in.
AddToZone(f, i, z) == [f EXCEPT !.zones[i] = @ \cup {z}]

AssignZone(f, i, z) == [f EXCEPT !.zones[i] = {z}]

AddRule(f, r) ==
  [f EXCEPT !.rules = Append(Filter(@, {q \in Rules : q.id # r.id}), r)]

RemoveRule(f, id) == [f EXCEPT !.rules = Filter(@, {q \in Rules : q.id # id})]

WithSharing(f, masquerade, pairs) ==
  [zones |-> f.zones, rules |-> f.rules, masquerade |-> masquerade, pairs |-> pairs]

EnableSharing(f, lan, wan) ==
  WithSharing(f, f.masquerade \cup {wan}, f.pairs \cup {<<lan, wan>>})

\* Faulty variant: masquerading ends with the first of several sharings.
DisableSharingAll(f, lan, wan) ==
  WithSharing(f, f.masquerade \ {wan}, f.pairs \ {<<lan, wan>>})

DisableSharing(f, lan, wan) ==
  LET pairs == f.pairs \ {<<lan, wan>>}
  IN  WithSharing(f, IF \E p \in pairs : p[2] = wan THEN f.masquerade
                     ELSE f.masquerade \ {wan}, pairs)

\* The state after NetworkManager::new: the devices present are in the default
\* zone.
Started(present) ==
  [zones |-> [i \in Interfaces |-> IF i \in present THEN {DefaultZone} ELSE {}],
   rules |-> <<>>, masquerade |-> {}, pairs |-> {}]
-----------------------------------------------------------------------------
\* nftables::apply: the table is deleted, then loaded.  The memory has been
\* changed before and keeps the change if nft fails.

Applied(f) == fw' = f /\ table' = Render(f) /\ ok' = TRUE /\ UNCHANGED failures

NotApplied(f) ==
  /\ failures < MaxFailures
  /\ failures' = failures + 1
  /\ fw' = f /\ ok' = FALSE /\ (UNCHANGED table \/ table' = Absent)

Apply(f) == Applied(f) \/ NotApplied(f)

Init ==
  /\ fw \in {Started(present) : present \in SUBSET Interfaces}
  /\ table = Render(fw) /\ ok = TRUE
  /\ children = {} /\ hostapd = [i \in Interfaces |-> 0]
  /\ dhcpd = [i \in Interfaces |-> 0] /\ sessions = {} /\ failures = 0

services == <<children, hostapd, dhcpd, sessions>>

SetFirewallZone(i, z) == Apply(AssignZone(fw, i, z)) /\ UNCHANGED services

AddFirewallRule(r) == Apply(AddRule(fw, r)) /\ UNCHANGED services

\* Faulty variant: the rule is gone from memory but not from the kernel.
RemoveWithoutApply(id) ==
  fw' = RemoveRule(fw, id) /\ UNCHANGED <<table, ok, failures, services>>

RemoveFirewallRule(id) == Apply(RemoveRule(fw, id)) /\ UNCHANGED services

\* LinkAdded: ensure_default_zone, for an interface that is in no zone yet.
LinkAdded(i) ==
  /\ fw.zones[i] = {}
  /\ Apply(AssignZone(fw, i, DefaultZone))
  /\ UNCHANGED services
-----------------------------------------------------------------------------
\* Hotspots.  The session that sharing::hotspot::start returns is dropped by
\* the manager, so its DHCP server thread is never told to stop.

\* Faulty variant: hostapd is started over the one that runs.
RadioUpOver(i) ==
  /\ children' = children \cup {i}
  /\ hostapd' = [hostapd EXCEPT ![i] = @ + 1]

\* wifi::hotspot::start stops the old process before it spawns the new one.
RadioUp(i) ==
  /\ children' = children \cup {i}
  /\ hostapd' = [hostapd EXCEPT ![i] = IF i \in children THEN @ ELSE @ + 1]

\* Faulty variant: a process is counted as killed where none was running.
RadioDownAnyway(i) ==
  /\ children' = children \ {i}
  /\ hostapd' = [hostapd EXCEPT ![i] = @ - 1]

RadioDown(i) ==
  /\ children' = children \ {i}
  /\ hostapd' = [hostapd EXCEPT ![i] = IF i \in children THEN @ - 1 ELSE @]

ServerUp(i) ==
  dhcpd[i] < MaxServers /\ dhcpd' = [dhcpd EXCEPT ![i] = @ + 1]

StartHotspot(i) ==
  /\ RadioUp(i) /\ ServerUp(i)
  /\ Apply(AssignZone(fw, i, "home"))
  /\ UNCHANGED sessions

\* The zone has been applied and ip_forward set; a failure before that is one
\* of StartHotspot.
StartHotspotWithUplink(i, wan) ==
  /\ RadioUp(i) /\ ServerUp(i)
  /\ Apply(EnableSharing(AssignZone(fw, i, "home"), i, wan))
  /\ UNCHANGED sessions

\* An error after hostapd is up, or before the new one is: the request is
\* answered with it, and what was started stays.
StartHotspotFails(i) ==
  /\ \/ RadioDown(i) /\ UNCHANGED dhcpd
     \/ RadioUp(i) /\ (ServerUp(i) \/ UNCHANGED dhcpd)
  /\ UNCHANGED <<fw, table, ok, failures, sessions>>

StopHotspot(i) ==
  /\ RadioDown(i)
  /\ UNCHANGED <<fw, table, ok, failures, dhcpd, sessions>>

\* internet_sharing::start and stop; an error leaves no session to stop.
StartSharing(lan, wan) ==
  /\ <<lan, wan>> \notin sessions /\ ServerUp(lan)
  /\ LET zoned  == AssignZone(fw, lan, "home")
         shared == EnableSharing(zoned, lan, wan)
     IN  \/ Applied(shared) /\ sessions' = sessions \cup {<<lan, wan>>}
         \/ NotApplied(shared) /\ UNCHANGED sessions
         \/ Apply(zoned) /\ UNCHANGED sessions
  /\ UNCHANGED <<children, hostapd>>

StopSharing(lan, wan) ==
  /\ <<lan, wan>> \in sessions
  /\ sessions' = sessions \ {<<lan, wan>>}
  /\ dhcpd' = [dhcpd EXCEPT ![lan] = @ - 1]
  /\ Apply(DisableSharing(fw, lan, wan))
  /\ UNCHANGED <<children, hostapd>>

\* The daemon crashes and starts again; hostapd processes go on unattended.
Restart ==
  /\ failures < MaxFailures
  /\ failures' = failures + 1
  /\ fw' \in {Started(present) : present \in SUBSET Interfaces}
  /\ \/ table' = Render(fw') /\ ok' = TRUE
     \/ (UNCHANGED table \/ table' = Absent) /\ ok' = FALSE
  /\ children' = {} /\ hostapd' = [i \in Interfaces |-> 0]
  /\ dhcpd' = [i \in Interfaces |-> 0] /\ sessions' = {}

Next ==
  \/ Restart
  \/ \E r \in Rules : AddFirewallRule(r) \/ RemoveFirewallRule(r.id)
  \/ \E i \in Interfaces : LinkAdded(i) \/ \E z \in RequestedZones : SetFirewallZone(i, z)
  \/ \E i \in Radios :
       \/ StartHotspot(i) \/ StartHotspotFails(i) \/ StopHotspot(i)
       \/ \E wan \in Uplinks : StartHotspotWithUplink(i, wan)
  \/ \E lan \in Interfaces \ Uplinks, wan \in Uplinks :
       StartSharing(lan, wan) \/ StopSharing(lan, wan)

Spec == Init /\ [][Next]_vars
-----------------------------------------------------------------------------
\* Properties.

\* Every variable has its type.
TypeOK ==
  /\ fw.zones \in [Interfaces -> SUBSET ZoneNames] /\ fw.rules \in Seq(Rules)
  /\ fw.masquerade \subseteq Interfaces /\ fw.pairs \subseteq Interfaces \X Interfaces
  /\ ok \in BOOLEAN /\ failures \in 0 .. MaxFailures
  /\ children \subseteq Interfaces /\ hostapd \in [Interfaces -> Nat]
  /\ dhcpd \in [Interfaces -> 0 .. MaxServers]
  /\ sessions \subseteq Interfaces \X Interfaces

\* An interface is never listed by two zones, nor two rules by one id: moving
\* an interface and replacing a rule take the old entry out first.
OneZoneOneRule ==
  /\ \A i \in Interfaces : Cardinality(fw.zones[i]) <= 1
  /\ \A m, n \in DOMAIN fw.rules : fw.rules[m].id = fw.rules[n].id => m = n

\* An interface masquerades as long as something is forwarded to it, and no
\* longer: sharings of one uplink do not end each other's.
MasqueradeIffForwarded ==
  fw.masquerade = {p[2] : p \in fw.pairs}

\* After a change that was answered with Ok the kernel has the rules that are
\* in memory, also if changes before it had failed.
TableFaithful == ok => table = Render(fw)

\* What the input chain does with a packet that comes in on interface i and
\* fits the rules in ids: the first line that fits decides, the policy is drop.
Verdict(chain, i, ids) ==
  LET hits == {n \in DOMAIN chain : i \in chain[n].ifaces /\ chain[n].rule \in ids \cup {AnyPacket}}
  IN  IF hits = {} THEN "Drop"
      ELSE chain[CHOOSE n \in hits : \A m \in hits : n <= m].action

\* Deny by default: what is let in is let in by the zone of the interface, or
\* by an inbound rule for that zone.
DenyByDefault ==
  ok => \A i \in Interfaces, ids \in SUBSET {r.id : r \in Rules} :
    Verdict(table.input, i, ids) = "Accept" =>
      \/ fw.zones[i] \cap AcceptZones # {}
      \/ \E n \in DOMAIN fw.rules :
           LET r == fw.rules[n] IN
             /\ r.id \in ids /\ r.direction = "Inbound" /\ r.action = "Accept"
             /\ r.zone \in fw.zones[i]

\* No hostapd process is lost sight of: at most one runs per interface, and
\* StopHotspot has it in its table.
RadiosTracked ==
  \A i \in Interfaces : hostapd[i] = IF i \in children THEN 1 ELSE 0
=============================================================================
