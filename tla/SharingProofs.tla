--------------------------- MODULE SharingProofs ---------------------------
(***************************************************************************)
(* Proofs about Sharing, for any interfaces, rules and bounds: the types,  *)
(* one zone per interface and one rule per id, the kernel's table is the   *)
(* one in memory after a change answered with Ok and lets in only what a   *)
(* zone or an inbound rule lets in, masquerading follows the forwarded     *)
(* pairs, and no hostapd process is lost sight of.  Then proofs about      *)
(* DhcpServer, the DHCP servers of hotspots, for every set of clients and  *)
(* servers and every pool.                                                 *)
(***************************************************************************)
EXTENDS Sharing, DhcpServer, DataInduction, FiniteSetTheorems, TLAPS

\* No two rules of a list have one id.
OneRulePerId(rules) ==
  \A m, n \in DOMAIN rules : rules[m].id = rules[n].id => m = n

\* A Firewall is a record of four fields with at most one zone per interface,
\* one rule per id, and whose masquerading interfaces are the uplinks of its
\* forwarded pairs.
GoodFirewall(f) ==
  /\ f = [zones |-> f.zones, rules |-> f.rules, masquerade |-> f.masquerade, pairs |-> f.pairs]
  /\ f.zones \in [Interfaces -> SUBSET ZoneNames]
  /\ \A i \in Interfaces : \A y, z \in f.zones[i] : y = z
  /\ f.rules \in Seq(Rules) /\ OneRulePerId(f.rules)
  /\ f.pairs \subseteq Interfaces \X Interfaces
  /\ f.masquerade = {p[2] : p \in f.pairs}

\* One hostapd process per entry of CHILDREN, whether the hotspot is started,
\* started again or stopped (wifi::hotspot::start and stop).
Tracked ==
  /\ children \subseteq Interfaces
  /\ hostapd = [i \in Interfaces |-> IF i \in children THEN 1 ELSE 0]

\* The uplinks that an interface shares in a session of its own.
SharedBy(lan) == {wan \in Interfaces : <<lan, wan>> \in sessions}

\* Every session of an interface has a DHCP server thread, so that stopping one
\* never stops a thread that is not there.
Served ==
  /\ sessions \subseteq Interfaces \X Interfaces
  /\ dhcpd \in [Interfaces -> 0..MaxServers]
  /\ \A lan \in Interfaces :
       IsFiniteSet(SharedBy(lan)) /\ Cardinality(SharedBy(lan)) <= dhcpd[lan]

\* The results of nft that are counted.
Counted == ok \in BOOLEAN /\ failures \in 0..MaxFailures

\* The inductive invariant.
Inv == GoodFirewall(fw) /\ TableFaithful /\ Tracked /\ Served /\ Counted
-----------------------------------------------------------------------------
(* Changes in memory keep a firewall good *)

\* The default zone and the zone of a hotspot are zones of the firewall.
LEMMA KnownZones == DefaultZone \in ZoneNames /\ "home" \in ZoneNames
<1>1. Zones[1] = "public" /\ Zones[2] = "home" /\ DOMAIN Zones = 1..4
  BY DEF Zones
<1> QED BY <1>1 DEF ZoneNames, DefaultZone

\* firewall::assign_zone moves an interface and touches nothing else.
LEMMA AssignZoneGood ==
  ASSUME NEW f, GoodFirewall(f), NEW i \in Interfaces, NEW z \in ZoneNames
  PROVE  GoodFirewall(AssignZone(f, i, z))
<1> DEFINE zs == [f.zones EXCEPT ![i] = {z}]
<1>1. AssignZone(f, i, z) = [zones |-> zs, rules |-> f.rules, masquerade |-> f.masquerade,
                             pairs |-> f.pairs]
  <2>1. PICK a, b, c, d : f = [zones |-> a, rules |-> b, masquerade |-> c, pairs |-> d]
    BY DEF GoodFirewall
  <2> QED BY <2>1 DEF AssignZone
<1>2. f.zones \in [Interfaces -> SUBSET ZoneNames]
  BY DEF GoodFirewall
<1>3. zs \in [Interfaces -> SUBSET ZoneNames]
  BY <1>2
<1>4. ASSUME NEW j \in Interfaces, NEW x \in zs[j], NEW y \in zs[j] PROVE x = y
  BY <1>2 DEF GoodFirewall
<1> HIDE DEF zs
<1> QED BY <1>1, <1>3, <1>4 DEF GoodFirewall

\* A change of the rules leaves masquerading alone.
LEMMA RulesGood ==
  ASSUME NEW f, GoodFirewall(f), NEW rs \in Seq(Rules), OneRulePerId(rs)
  PROVE  GoodFirewall([f EXCEPT !.rules = rs])
<1>1. [f EXCEPT !.rules = rs]
        = [zones |-> f.zones, rules |-> rs, masquerade |-> f.masquerade, pairs |-> f.pairs]
  <2>1. PICK a, b, c, d : f = [zones |-> a, rules |-> b, masquerade |-> c, pairs |-> d]
    BY DEF GoodFirewall
  <2> QED BY <2>1
<1> QED BY <1>1 DEF GoodFirewall

\* What is left of a list of rules when some are taken out still has one rule
\* per id.
LEMMA FilterRules ==
  ASSUME NEW rules \in Seq(Rules), OneRulePerId(rules), NEW keep
  PROVE  LET rs == Filter(rules, keep) IN
           /\ rs \in Seq(Rules) /\ OneRulePerId(rs)
           /\ \A n \in DOMAIN rs : rs[n] \in keep /\ \E m \in DOMAIN rules : rs[n] = rules[m]
<1> DEFINE rs == Filter(rules, keep)
<1>1. rs \in Seq(Rules \cap keep)
  BY FilterType
<1>2. rs \in Seq(Rules) /\ DOMAIN rs = 1..Len(rs) /\ DOMAIN rules = 1..Len(rules)
  BY <1>1
<1>3. PICK h : Selects(h, rs, rules, Len(rules), keep)
  BY FilterSelects
<1> HIDE DEF rs
<1>4. \A n \in DOMAIN rs : /\ h[n] \in DOMAIN rules /\ rs[n] = rules[h[n]]
                           /\ rs[n] \in keep
  BY <1>2, <1>3 DEF Selects
<1>5. ASSUME NEW m \in DOMAIN rs, NEW n \in DOMAIN rs, rs[m].id = rs[n].id
      PROVE  m = n
  <2>1. h[m] = h[n]
    BY <1>4, <1>5 DEF OneRulePerId
  <2>2. m \in 1..Len(rs) /\ n \in 1..Len(rs)
    BY <1>2
  <2>3. (m < n => h[m] < h[n]) /\ (n < m => h[n] < h[m]) /\ h[m] \in Int
    BY <1>2, <1>3, <1>4, <2>2 DEF Selects
  <2> QED BY <2>1, <2>2, <2>3
<1> QED BY <1>2, <1>4, <1>5 DEF OneRulePerId, rs

\* firewall::add_rule replaces the rule that had the id.
LEMMA AddRuleGood ==
  ASSUME NEW f, GoodFirewall(f), NEW r \in Rules
  PROVE  GoodFirewall(AddRule(f, r))
<1> DEFINE keep == {q \in Rules : q.id # r.id}
           rest == Filter(f.rules, keep)
           rs   == Append(rest, r)
<1>1. f.rules \in Seq(Rules) /\ OneRulePerId(f.rules)
  BY DEF GoodFirewall
<1>2. rest \in Seq(Rules) /\ OneRulePerId(rest) /\ \A n \in DOMAIN rest : rest[n] \in keep
  BY <1>1, FilterRules
<1>3. AddRule(f, r) = [f EXCEPT !.rules = rs]
  BY DEF AddRule
<1> HIDE DEF rest
<1>4. /\ rs \in Seq(Rules) /\ DOMAIN rs = 1..(Len(rest) + 1) /\ rs[Len(rest) + 1] = r
      /\ Len(rest) \in Nat /\ DOMAIN rest = 1..Len(rest)
      /\ \A n \in 1..Len(rest) : rs[n] = rest[n]
  BY <1>2
<1> HIDE DEF rs
<1>5. ASSUME NEW m \in DOMAIN rs, NEW n \in DOMAIN rs, rs[m].id = rs[n].id
      PROVE  m = n
  <2>1. \A k \in DOMAIN rs : k \in 1..Len(rest) \/ k = Len(rest) + 1
    BY <1>4
  <2>2. \A k \in 1..Len(rest) : rs[k].id # r.id
    BY <1>2, <1>4
  <2>3. CASE m \in 1..Len(rest) /\ n \in 1..Len(rest)
    BY <1>2, <1>4, <1>5, <2>3 DEF OneRulePerId
  <2> QED BY <1>4, <1>5, <2>1, <2>2, <2>3
<1>6. OneRulePerId(rs)
  BY <1>5 DEF OneRulePerId
<1> QED BY <1>3, <1>4, <1>6, RulesGood

\* firewall::remove_rule
LEMMA RemoveRuleGood ==
  ASSUME NEW f, GoodFirewall(f), NEW id
  PROVE  GoodFirewall(RemoveRule(f, id))
<1> DEFINE rs == Filter(f.rules, {q \in Rules : q.id # id})
<1>1. rs \in Seq(Rules) /\ OneRulePerId(rs)
  BY FilterRules DEF GoodFirewall
<1>2. RemoveRule(f, id) = [f EXCEPT !.rules = rs]
  BY DEF RemoveRule
<1> QED BY <1>1, <1>2, RulesGood

\* firewall::enable_sharing adds the pair and its uplink together.
LEMMA EnableSharingGood ==
  ASSUME NEW f, GoodFirewall(f), NEW lan \in Interfaces, NEW wan \in Interfaces
  PROVE  GoodFirewall(EnableSharing(f, lan, wan))
<1> DEFINE more == f.pairs \cup {<<lan, wan>>}
           masquerade == f.masquerade \cup {wan}
<1>1. EnableSharing(f, lan, wan)
        = [zones |-> f.zones, rules |-> f.rules, masquerade |-> masquerade, pairs |-> more]
  BY DEF EnableSharing, WithSharing
<1>2. masquerade = {p[2] : p \in more}
  <2>1. f.masquerade = {p[2] : p \in f.pairs}
    BY DEF GoodFirewall
  <2>2. ASSUME NEW x PROVE x \in masquerade <=> \E p \in more : x = p[2]
    <3>1. <<lan, wan>>[2] = wan
      OBVIOUS
    <3> QED BY <2>1, <3>1, Zenon
  <2> QED BY <2>2
<1>3. more \subseteq Interfaces \X Interfaces
  BY DEF GoodFirewall
<1> HIDE DEF masquerade, more
<1> QED BY <1>1, <1>2, <1>3 DEF GoodFirewall

\* firewall::disable_sharing keeps the uplink while another pair uses it.
LEMMA DisableSharingGood ==
  ASSUME NEW f, GoodFirewall(f), NEW lan, NEW wan
  PROVE  GoodFirewall(DisableSharing(f, lan, wan))
<1> DEFINE rest == f.pairs \ {<<lan, wan>>}
           masquerade == IF \E p \in rest : p[2] = wan THEN f.masquerade ELSE f.masquerade \ {wan}
<1>1. DisableSharing(f, lan, wan)
        = [zones |-> f.zones, rules |-> f.rules, masquerade |-> masquerade, pairs |-> rest]
  BY DEF DisableSharing, WithSharing
<1>2. masquerade = {p[2] : p \in rest}
  <2>1. f.masquerade = {p[2] : p \in f.pairs}
    BY DEF GoodFirewall
  <2>2. ASSUME NEW x PROVE x \in masquerade <=> \E p \in rest : x = p[2]
    <3>1. <<lan, wan>>[2] = wan
      OBVIOUS
    <3> QED BY <2>1, <3>1
  <2> QED BY <2>2
<1>3. rest \subseteq Interfaces \X Interfaces
  BY DEF GoodFirewall
<1> HIDE DEF masquerade, rest
<1> QED BY <1>1, <1>2, <1>3 DEF GoodFirewall

\* NetworkManager::new starts without sharing and without rules.
LEMMA StartedGood ==
  ASSUME NEW present
  PROVE  GoodFirewall(Started(present))
<1> DEFINE zs == [i \in Interfaces |-> IF i \in present THEN {DefaultZone} ELSE {}]
           f  == [zones |-> zs, rules |-> <<>>, masquerade |-> {}, pairs |-> {}]
<1>1. Started(present) = f
  BY DEF Started
<1>2. /\ zs \in [Interfaces -> SUBSET ZoneNames]
      /\ \A i \in Interfaces : \A y, z \in zs[i] : y = z
  BY KnownZones
<1>3. <<>> \in Seq(Rules) /\ OneRulePerId(<<>>)
  BY DEF OneRulePerId
<1> HIDE DEF zs
<1>4. {} = {p[2] : p \in {}}
  OBVIOUS
<1>5. GoodFirewall(f)
  BY <1>2, <1>3, <1>4 DEF GoodFirewall
<1> QED BY <1>1, <1>5
-----------------------------------------------------------------------------
(* Steps keep the invariant *)

\* nftables::apply leaves the firewall it was given in memory, and its table in
\* the kernel when it reports no error.
LEMMA ApplyGood ==
  ASSUME Counted, NEW f, GoodFirewall(f), Apply(f)
  PROVE  GoodFirewall(fw') /\ TableFaithful' /\ Counted'
<1>1. GoodFirewall(fw') /\ TableFaithful'
  BY DEF Apply, Applied, NotApplied, TableFaithful
<1>2. failures' \in 0..MaxFailures
  BY ConstantsAssumption DEF Apply, Applied, NotApplied, Counted
<1>3. ok' \in BOOLEAN
  BY Zenon DEF Apply, Applied, NotApplied
<1> QED BY <1>1, <1>2, <1>3 DEF Counted

\* start replaces the process it had, stop ends it (wifi::hotspot).
LEMMA RadioTracked ==
  ASSUME Tracked, NEW i \in Interfaces, RadioUp(i) \/ RadioDown(i)
  PROVE  Tracked'
<1>1. CASE RadioUp(i)
  BY <1>1 DEF Tracked, RadioUp
<1>2. CASE RadioDown(i)
  BY <1>2 DEF Tracked, RadioDown
<1> QED BY <1>1, <1>2

\* A server thread more serves the sessions there were, and one more.
LEMMA ServerUpServed ==
  ASSUME Served, NEW lan \in Interfaces, NEW wan \in Interfaces, ServerUp(lan),
         sessions' = sessions \/ sessions' = sessions \cup {<<lan, wan>>}
  PROVE  Served'
<1>1. /\ dhcpd[lan] \in Nat /\ dhcpd[lan] + 1 \in 0..MaxServers
      /\ dhcpd' = [dhcpd EXCEPT ![lan] = dhcpd[lan] + 1]
  BY ConstantsAssumption DEF Served, ServerUp
<1>2. dhcpd' \in [Interfaces -> 0..MaxServers]
  BY <1>1 DEF Served
<1>3. sessions' \subseteq Interfaces \X Interfaces
  BY DEF Served
<1>4. ASSUME NEW l \in Interfaces
      PROVE  IsFiniteSet(SharedBy(l)') /\ Cardinality(SharedBy(l)') <= dhcpd'[l]
  <2> DEFINE old == SharedBy(l)
             new == SharedBy(l)'
  <2>1. IsFiniteSet(old) /\ Cardinality(old) <= dhcpd[l] /\ Cardinality(old) \in Nat
    BY FS_CardinalityType DEF Served
  <2>2. new = old \/ (l = lan /\ new = old \cup {wan})
    BY DEF SharedBy
  <2>3. IsFiniteSet(old \cup {wan}) /\ Cardinality(old \cup {wan}) <= Cardinality(old) + 1
    BY <2>1, FS_AddElement
  <2>4. dhcpd'[l] = IF l = lan THEN dhcpd[l] + 1 ELSE dhcpd[l]
    BY <1>1 DEF Served
  <2>5. dhcpd[l] \in Nat /\ Cardinality(old \cup {wan}) \in Nat
    BY <2>3, FS_CardinalityType, ConstantsAssumption DEF Served
  <2> HIDE DEF old, new
  <2>6. IsFiniteSet(new) /\ Cardinality(new) <= dhcpd'[l]
    BY <2>1, <2>2, <2>3, <2>4, <2>5
  <2> QED BY <2>6 DEF new
<1> QED BY <1>2, <1>3, <1>4 DEF Served

\* internet_sharing::stop ends the thread of the session it ends.
LEMMA StopServed ==
  ASSUME Served, NEW lan \in Interfaces, NEW wan \in Interfaces, StopSharing(lan, wan)
  PROVE  Served'
<1>1. /\ sessions' = sessions \ {<<lan, wan>>} /\ wan \in SharedBy(lan)
      /\ dhcpd' = [dhcpd EXCEPT ![lan] = dhcpd[lan] - 1]
  BY DEF StopSharing, SharedBy
<1>2. ASSUME NEW l \in Interfaces
      PROVE  /\ IsFiniteSet(SharedBy(l)) /\ Cardinality(SharedBy(l)) \in Nat
             /\ Cardinality(SharedBy(l)) <= dhcpd[l] /\ dhcpd[l] \in 0..MaxServers
  BY FS_CardinalityType DEF Served
<1>3. Cardinality(SharedBy(lan)) # 0
  BY <1>1, <1>2, FS_EmptySet
<1>4. dhcpd[lan] - 1 \in 0..MaxServers
  BY <1>2, <1>3, ConstantsAssumption
<1>5. dhcpd' \in [Interfaces -> 0..MaxServers]
  BY <1>1, <1>4 DEF Served
<1>6. sessions' \subseteq Interfaces \X Interfaces
  BY <1>1 DEF Served
<1>7. ASSUME NEW l \in Interfaces
      PROVE  IsFiniteSet(SharedBy(l)') /\ Cardinality(SharedBy(l)') <= dhcpd'[l]
  <2> DEFINE old == SharedBy(l)
             new == SharedBy(l)'
  <2>1. IF l = lan THEN wan \in old /\ new = old \ {wan} ELSE new = old
    BY <1>1 DEF SharedBy
  <2>2. IF l = lan THEN dhcpd'[l] = dhcpd[l] - 1 ELSE dhcpd'[l] = dhcpd[l]
    BY <1>1 DEF Served
  <2>3. /\ IsFiniteSet(old \ {wan})
        /\ wan \in old => Cardinality(old \ {wan}) = Cardinality(old) - 1
    BY <1>2, FS_RemoveElement
  <2>4. /\ IsFiniteSet(old) /\ Cardinality(old) \in Nat
        /\ Cardinality(old) <= dhcpd[l] /\ dhcpd[l] \in Int
    BY <1>2
  <2> HIDE DEF old, new
  <2>5. IsFiniteSet(new) /\ Cardinality(new) <= dhcpd'[l]
    <3>1. CASE l = lan
      <4>1. wan \in old /\ new = old \ {wan} /\ dhcpd'[l] = dhcpd[l] - 1
        BY <2>1, <2>2, <3>1
      <4>2. Cardinality(old \ {wan}) = Cardinality(old) - 1
        BY <2>3, <4>1
      <4>3. Cardinality(new) = Cardinality(old) - 1 /\ IsFiniteSet(new)
        BY <2>3, <4>1, <4>2
      <4> QED BY <2>4, <4>1, <4>3
    <3>2. CASE l # lan
      BY <2>1, <2>2, <2>4, <3>2
    <3> QED BY <3>1, <3>2
  <2> QED BY <2>5 DEF new
<1> QED BY <1>5, <1>6, <1>7 DEF Served

\* Without sessions and threads there is nothing to count.
LEMMA NoneServed ==
  ASSUME sessions = {}, dhcpd = [i \in Interfaces |-> 0]
  PROVE  Served
<1>1. \A lan \in Interfaces : SharedBy(lan) = {}
  BY DEF SharedBy
<1> QED BY <1>1, FS_EmptySet, ConstantsAssumption DEF Served

\* The invariant holds of the daemon as it starts.
LEMMA InitInv == Init => Inv
<1> SUFFICES ASSUME Init PROVE Inv
  OBVIOUS
<1>1. GoodFirewall(fw)
  BY StartedGood DEF Init
<1>2. Served
  BY NoneServed DEF Init
<1>3. TableFaithful /\ Tracked /\ Counted
  BY ConstantsAssumption DEF Init, TableFaithful, Tracked, Counted
<1> QED BY <1>1, <1>2, <1>3 DEF Inv

\* Every action keeps it.
LEMMA NextInv == Inv /\ [Next]_vars => Inv'
<1> SUFFICES ASSUME Inv, [Next]_vars PROVE Inv'
  OBVIOUS
<1>0. GoodFirewall(fw) /\ TableFaithful /\ Tracked /\ Served /\ Counted
  BY DEF Inv
<1> SUFFICES (GoodFirewall(fw) /\ TableFaithful /\ Tracked /\ Served /\ Counted)'
  BY DEF Inv
<1>1. CASE Restart
  <2>1. GoodFirewall(fw')
    BY <1>1, StartedGood DEF Restart
  <2>2. Served'
    <3>1. \A lan \in Interfaces : SharedBy(lan)' = {}
      BY <1>1 DEF Restart, SharedBy
    <3> QED BY <1>1, <3>1, FS_EmptySet, ConstantsAssumption DEF Restart, Served
  <2>3. TableFaithful' /\ Tracked'
    BY <1>1 DEF Restart, TableFaithful, Tracked
  <2>4. Counted'
    <3>1. failures' \in 0..MaxFailures
      BY <1>0, <1>1, ConstantsAssumption DEF Restart, Counted
    <3>2. ok' \in BOOLEAN
      BY <1>1, Zenon DEF Restart
    <3> QED BY <3>1, <3>2 DEF Counted
  <2> QED BY <2>1, <2>2, <2>3, <2>4
<1>2. ASSUME UNCHANGED services, NEW f, GoodFirewall(f), Apply(f)
      PROVE  (GoodFirewall(fw) /\ TableFaithful /\ Tracked /\ Served /\ Counted)'
  <2>1. Tracked' /\ Served'
    BY <1>0, <1>2 DEF Tracked, Served, SharedBy, services
  <2> QED BY <1>0, <1>2, <2>1, ApplyGood
<1>3. ASSUME NEW r \in Rules, AddFirewallRule(r) \/ RemoveFirewallRule(r.id)
      PROVE  (GoodFirewall(fw) /\ TableFaithful /\ Tracked /\ Served /\ Counted)'
  <2>1. PICK f : GoodFirewall(f) /\ Apply(f)
    BY <1>0, <1>3, AddRuleGood, RemoveRuleGood DEF AddFirewallRule, RemoveFirewallRule
  <2>2. UNCHANGED services
    BY <1>3 DEF AddFirewallRule, RemoveFirewallRule
  <2> QED BY <1>2, <2>1, <2>2
<1>4. ASSUME NEW i \in Interfaces, LinkAdded(i) \/ \E z \in RequestedZones : SetFirewallZone(i, z)
      PROVE  (GoodFirewall(fw) /\ TableFaithful /\ Tracked /\ Served /\ Counted)'
  <2>1. PICK z \in ZoneNames : Apply(AssignZone(fw, i, z))
    BY <1>4, KnownZones, ConstantsAssumption DEF LinkAdded, SetFirewallZone
  <2>2. UNCHANGED services
    BY <1>4 DEF LinkAdded, SetFirewallZone
  <2>3. GoodFirewall(AssignZone(fw, i, z))
    BY <1>0, AssignZoneGood
  <2> QED BY <1>2, <2>1, <2>2, <2>3
<1>5. ASSUME NEW i \in Radios, StartHotspot(i) \/ \E wan \in Uplinks : StartHotspotWithUplink(i, wan)
      PROVE  (GoodFirewall(fw) /\ TableFaithful /\ Tracked /\ Served /\ Counted)'
  <2>1. i \in Interfaces /\ GoodFirewall(AssignZone(fw, i, "home"))
    BY <1>0, AssignZoneGood, KnownZones, ConstantsAssumption
  <2>2. \A wan \in Uplinks : GoodFirewall(EnableSharing(AssignZone(fw, i, "home"), i, wan))
    BY <2>1, EnableSharingGood, ConstantsAssumption
  <2>3. PICK f : GoodFirewall(f) /\ Apply(f)
    BY <1>5, <2>1, <2>2 DEF StartHotspot, StartHotspotWithUplink
  <2>4. RadioUp(i) /\ ServerUp(i) /\ sessions' = sessions
    BY <1>5 DEF StartHotspot, StartHotspotWithUplink
  <2>5. Served'
    BY <1>0, <2>1, <2>4, ServerUpServed
  <2> QED BY <1>0, <2>1, <2>3, <2>4, <2>5, ApplyGood, RadioTracked
<1>6. ASSUME NEW i \in Radios, StartHotspotFails(i) \/ StopHotspot(i)
      PROVE  (GoodFirewall(fw) /\ TableFaithful /\ Tracked /\ Served /\ Counted)'
  <2>1. i \in Interfaces /\ (RadioUp(i) \/ RadioDown(i))
    BY <1>6, ConstantsAssumption DEF StartHotspotFails, StopHotspot
  <2>2. UNCHANGED <<fw, table, ok, failures, sessions>> /\ (ServerUp(i) \/ UNCHANGED dhcpd)
    BY <1>6 DEF StartHotspotFails, StopHotspot
  <2>3. Served'
    <3>1. CASE ServerUp(i)
      BY <1>0, <2>1, <2>2, <3>1, ServerUpServed
    <3>2. CASE UNCHANGED dhcpd
      BY <1>0, <2>2, <3>2 DEF Served, SharedBy
    <3> QED BY <2>2, <3>1, <3>2
  <2>4. Tracked'
    BY <1>0, <2>1, RadioTracked
  <2>5. GoodFirewall(fw') /\ TableFaithful' /\ Counted'
    BY <1>0, <2>2 DEF TableFaithful, Counted
  <2> QED BY <2>3, <2>4, <2>5
<1>7. ASSUME NEW lan \in Interfaces, NEW wan \in Uplinks, StartSharing(lan, wan)
      PROVE  (GoodFirewall(fw) /\ TableFaithful /\ Tracked /\ Served /\ Counted)'
  <2> DEFINE zoned  == AssignZone(fw, lan, "home")
             shared == EnableSharing(zoned, lan, wan)
  <2>1. wan \in Interfaces /\ GoodFirewall(zoned) /\ GoodFirewall(shared)
    BY <1>0, AssignZoneGood, EnableSharingGood, KnownZones, ConstantsAssumption
  <2>2. /\ ServerUp(lan) /\ UNCHANGED <<children, hostapd>>
        /\ Apply(shared) \/ Apply(zoned)
        /\ sessions' = sessions \/ sessions' = sessions \cup {<<lan, wan>>}
    BY <1>7 DEF StartSharing, Apply
  <2> HIDE DEF zoned, shared
  <2>3. Served'
    BY <1>0, <2>1, <2>2, ServerUpServed
  <2>4. Tracked'
    BY <1>0, <2>2 DEF Tracked
  <2> QED BY <1>0, <2>1, <2>2, <2>3, <2>4, ApplyGood
<1>8. ASSUME NEW lan \in Interfaces, NEW wan \in Uplinks, StopSharing(lan, wan)
      PROVE  (GoodFirewall(fw) /\ TableFaithful /\ Tracked /\ Served /\ Counted)'
  <2>1. Served'
    BY <1>0, <1>8, StopServed, ConstantsAssumption
  <2>2. Tracked'
    BY <1>0, <1>8 DEF StopSharing, Tracked
  <2> QED BY <1>0, <1>8, <2>1, <2>2, DisableSharingGood, ApplyGood DEF StopSharing
<1>9. CASE UNCHANGED vars
  BY <1>0, <1>9 DEF vars, TableFaithful, Tracked, Served, SharedBy, Counted
<1> QED BY <1>1, <1>3, <1>4, <1>5, <1>6, <1>7, <1>8, <1>9 DEF Next

\* The invariant holds in every reachable state.
THEOREM Invariance == Spec => []Inv
BY InitInv, NextInv, PTL DEF Spec

\* The types hold; in particular a DHCP server thread is counted down only
\* where one runs (internet_sharing::stop).
THEOREM TypeCorrect == Spec => []TypeOK
<1>1. Inv => TypeOK
  <2> SUFFICES ASSUME Inv PROVE TypeOK
    OBVIOUS
  <2>1. fw.masquerade \subseteq Interfaces
    <3>1. /\ fw.masquerade = {p[2] : p \in fw.pairs}
          /\ fw.pairs \subseteq Interfaces \X Interfaces
      BY DEF Inv, GoodFirewall
    <3> QED BY <3>1
  <2>2. hostapd \in [Interfaces -> Nat] /\ children \subseteq Interfaces
    BY DEF Inv, Tracked
  <2> QED BY <2>1, <2>2 DEF Inv, GoodFirewall, Served, Counted, TypeOK
<1> QED BY <1>1, Invariance, PTL

\* An interface is in one zone at most and an id names one rule at most
\* (firewall::assign_zone and add_rule take the old entry out first).
THEOREM ZonesAndRulesUnique == Spec => []OneZoneOneRule
<1>1. Inv => OneZoneOneRule
  <2> SUFFICES ASSUME Inv PROVE OneZoneOneRule
    OBVIOUS
  <2>1. ASSUME NEW i \in Interfaces PROVE Cardinality(fw.zones[i]) <= 1
    <3>1. \A y, z \in fw.zones[i] : y = z
      BY DEF Inv, GoodFirewall
    <3>2. fw.zones[i] = {} \/ \E z : fw.zones[i] = {z}
      BY <3>1
    <3>3. CASE fw.zones[i] = {}
      BY <3>3, FS_EmptySet
    <3>4. ASSUME NEW z, fw.zones[i] = {z} PROVE Cardinality(fw.zones[i]) <= 1
      <4>1. Cardinality({z}) = 1
        BY FS_Singleton
      <4> QED BY <3>4, <4>1
    <3> QED BY <3>2, <3>3, <3>4, Zenon
  <2>2. OneRulePerId(fw.rules)
    BY DEF Inv, GoodFirewall
  <2> QED BY <2>1, <2>2 DEF OneZoneOneRule, OneRulePerId
<1> QED BY <1>1, Invariance, PTL
-----------------------------------------------------------------------------
(* What the rendered table lets in *)

\* The line is the accept line of a zone, or stands for an inbound rule of the
\* zone whose interfaces it lists.
FromZone(f, l) ==
  \E z \in ZoneNames :
    /\ l.ifaces = Members(f, z)
    /\ \/ z \in AcceptZones /\ l.rule = AnyPacket
       \/ \E n \in DOMAIN f.rules :
            /\ f.rules[n].zone = z /\ f.rules[n].direction = "Inbound"
            /\ l.rule = f.rules[n].id /\ l.action = f.rules[n].action

\* The lines that the input chain may have.
InputLines(f) ==
  {l \in [ifaces: SUBSET Interfaces,
          rule: {AnyPacket} \cup {r.id : r \in Rules},
          action: {"Accept"} \cup {r.action : r \in Rules}] : FromZone(f, l)}

\* A function on 1..n with values in S is a sequence over S.
LEMMA ListSeq ==
  ASSUME NEW S, NEW n \in Nat, NEW q, q = [m \in 1..n |-> q[m]], \A m \in 1..n : q[m] \in S
  PROVE  q \in Seq(S)
<1>1. [m \in 1..n |-> q[m]] \in Seq(S)
  OBVIOUS
<1> QED BY <1>1

\* The lines of one zone (the loop over the zones in nftables::render).
LEMMA ZoneLinesOrigin ==
  ASSUME NEW f, GoodFirewall(f), NEW z \in ZoneNames
  PROVE  ZoneLines(f, z) \in Seq(InputLines(f))
<1> DEFINE L == InputLines(f)
           ms == Members(f, z)
           keep == {r \in Rules : r.zone = z /\ r.direction = "Inbound"}
           rules == Filter(f.rules, keep)
           accept == IF z \in AcceptZones THEN <<Line(ms, AnyPacket, "Accept")>> ELSE <<>>
           chosen == [n \in DOMAIN rules |-> Line(ms, rules[n].id, rules[n].action)]
<1>1. ZoneLines(f, z) = IF ms = {} THEN <<>> ELSE accept \o chosen
  BY DEF ZoneLines
<1>2. ms \in SUBSET Interfaces
  BY DEF Members
<1>3. accept \in Seq(L)
  <2>1. CASE z \in AcceptZones
    <3> DEFINE l == Line(ms, AnyPacket, "Accept")
    <3>1. l.ifaces = Members(f, z) /\ l.rule = AnyPacket
      BY DEF Line
    <3>2. FromZone(f, l)
      BY <2>1, <3>1 DEF FromZone
    <3>3. l \in [ifaces: SUBSET Interfaces,
                 rule: {AnyPacket} \cup {r.id : r \in Rules},
                 action: {"Accept"} \cup {r.action : r \in Rules}]
      BY <1>2 DEF Line
    <3>4. l \in L
      BY <3>2, <3>3 DEF InputLines
    <3> HIDE DEF l, L
    <3>5. <<l>> \in Seq(L)
      BY <3>4
    <3> QED BY <2>1, <3>5 DEF l
  <2>2. CASE z \notin AcceptZones
    BY <2>2
  <2> QED BY <2>1, <2>2
<1>4. chosen \in Seq(L)
  <2>1. f.rules \in Seq(Rules) /\ OneRulePerId(f.rules)
    BY DEF GoodFirewall
  <2>2. /\ rules \in Seq(Rules)
        /\ \A n \in DOMAIN rules :
             rules[n] \in keep /\ \E m \in DOMAIN f.rules : rules[n] = f.rules[m]
    <3> HIDE DEF keep
    <3> QED BY <2>1, FilterRules
  <2> HIDE DEF rules
  <2>3. ASSUME NEW n \in DOMAIN rules
        PROVE  Line(ms, rules[n].id, rules[n].action) \in L
    <3> DEFINE l == Line(ms, rules[n].id, rules[n].action)
    <3>1. PICK m \in DOMAIN f.rules : rules[n] = f.rules[m] /\ f.rules[m] \in keep
      BY <2>2
    <3>2. /\ l.ifaces = Members(f, z)
          /\ l.rule = f.rules[m].id /\ l.action = f.rules[m].action
      BY <3>1 DEF Line
    <3>3. f.rules[m] \in Rules /\ f.rules[m].zone = z /\ f.rules[m].direction = "Inbound"
      BY <3>1
    <3>4. l \in [ifaces: SUBSET Interfaces,
                 rule: {AnyPacket} \cup {r.id : r \in Rules},
                 action: {"Accept"} \cup {r.action : r \in Rules}]
      BY <1>2, <3>1, <3>3 DEF Line
    <3> HIDE DEF l
    <3>5. FromZone(f, l)
      BY <3>2, <3>3 DEF FromZone
    <3> QED BY <3>4, <3>5 DEF InputLines, l
  <2>4. DOMAIN rules = 1..Len(rules) /\ Len(rules) \in Nat
    BY <2>2
  <2> HIDE DEF L
  <2>5. chosen = [m \in 1..Len(rules) |-> chosen[m]] /\ \A m \in 1..Len(rules) : chosen[m] \in L
    BY <2>3, <2>4
  <2> HIDE DEF chosen
  <2> QED BY <2>4, <2>5, ListSeq
<1> HIDE DEF L, accept, chosen
<1>5. accept \o chosen \in Seq(L) /\ <<>> \in Seq(L)
  BY <1>3, <1>4
<1> QED BY <1>1, <1>5 DEF L

\* The input chain of the rendered table.
LEMMA InputOrigin ==
  ASSUME NEW f, GoodFirewall(f)
  PROVE  Render(f).input \in Seq(InputLines(f))
<1> DEFINE L == InputLines(f)
<1>1. /\ "public" \in ZoneNames /\ "home" \in ZoneNames
      /\ "trusted" \in ZoneNames /\ "block" \in ZoneNames
  <2>1. /\ Zones[1] = "public" /\ Zones[2] = "home" /\ Zones[3] = "trusted"
        /\ Zones[4] = "block" /\ DOMAIN Zones = 1..4
    BY DEF Zones
  <2> QED BY <2>1 DEF ZoneNames
<1>2. /\ ZoneLines(f, "public") \in Seq(L) /\ ZoneLines(f, "home") \in Seq(L)
      /\ ZoneLines(f, "trusted") \in Seq(L) /\ ZoneLines(f, "block") \in Seq(L)
  BY <1>1, ZoneLinesOrigin, Zenon
<1> HIDE DEF L
<1> QED BY <1>2 DEF Render, L

\* What the kernel lets in after a change answered with Ok is let in by the
\* zone of the interface or by one of its inbound rules, whatever the zones, the
\* rules and their order are (nftables::render: the policy is drop).
THEOREM DeniesByDefault == Spec => []DenyByDefault
<1>1. Inv => DenyByDefault
  <2> SUFFICES ASSUME Inv, ok, NEW i \in Interfaces,
                      NEW ids \in SUBSET {r.id : r \in Rules},
                      Verdict(table.input, i, ids) = "Accept"
               PROVE  \/ fw.zones[i] \cap AcceptZones # {}
                      \/ \E n \in DOMAIN fw.rules :
                           LET r == fw.rules[n] IN
                             /\ r.id \in ids /\ r.direction = "Inbound"
                             /\ r.action = "Accept" /\ r.zone \in fw.zones[i]
    BY DEF DenyByDefault
  <2> DEFINE chain == table.input
             hits == {n \in DOMAIN chain :
                        i \in chain[n].ifaces /\ chain[n].rule \in ids \cup {AnyPacket}}
             first == CHOOSE n \in hits : \A m \in hits : n <= m
  <2>1. GoodFirewall(fw) /\ chain = Render(fw).input
    BY DEF Inv, TableFaithful
  <2>2. chain \in Seq(InputLines(fw))
    BY <2>1, InputOrigin
  <2>3. Verdict(chain, i, ids) = IF hits = {} THEN "Drop" ELSE chain[first].action
    BY Zenon DEF Verdict
  <2> HIDE DEF chain
  <2>4. hits # {} /\ chain[first].action = "Accept"
    BY <2>3, Zenon DEF chain
  <2>5. hits \subseteq Nat
    BY <2>2
  <2>6. \E n \in hits : \A m \in hits : n <= m
    <3> HIDE DEF hits
    <3> QED BY <2>4, <2>5, LeastNumber
  <2>7. first \in hits
    <3> HIDE DEF hits
    <3> QED BY <2>6
  <2> DEFINE l == chain[first]
  <2> HIDE DEF first
  <2>8. /\ l \in InputLines(fw) /\ l.action = "Accept"
        /\ i \in l.ifaces /\ l.rule \in ids \cup {AnyPacket}
    BY <2>2, <2>4, <2>7
  <2> HIDE DEF l, hits
  <2>9. PICK z \in ZoneNames :
          /\ l.ifaces = Members(fw, z)
          /\ \/ z \in AcceptZones /\ l.rule = AnyPacket
             \/ \E n \in DOMAIN fw.rules :
                  /\ fw.rules[n].zone = z /\ fw.rules[n].direction = "Inbound"
                  /\ l.rule = fw.rules[n].id /\ l.action = fw.rules[n].action
    BY <2>8 DEF InputLines, FromZone
  <2>10. z \in fw.zones[i]
    BY <2>8, <2>9 DEF Members
  <2>11. CASE z \in AcceptZones
    BY <2>10, <2>11
  <2>12. ASSUME NEW n \in DOMAIN fw.rules,
                fw.rules[n].zone = z, fw.rules[n].direction = "Inbound",
                l.rule = fw.rules[n].id, l.action = fw.rules[n].action
         PROVE  /\ fw.rules[n].id \in ids /\ fw.rules[n].direction = "Inbound"
                /\ fw.rules[n].action = "Accept" /\ fw.rules[n].zone \in fw.zones[i]
    <3>1. fw.rules[n] \in Rules
      BY <2>1 DEF GoodFirewall
    <3>2. fw.rules[n].id # AnyPacket
      BY <3>1, ConstantsAssumption
    <3> QED BY <2>8, <2>10, <2>12, <3>2
  <2> QED BY <2>9, <2>11, <2>12
<1> QED BY <1>1, Invariance, PTL
-----------------------------------------------------------------------------
\* After a change answered with Ok the kernel's table is the rendering of the
\* firewall in memory, whatever failed before (nftables::apply).
THEOREM TableIsFaithful == Spec => []TableFaithful
<1>1. Inv => TableFaithful
  BY DEF Inv
<1> QED BY <1>1, Invariance, PTL

\* An uplink masquerades exactly while a pair is forwarded to it
\* (firewall::enable_sharing and disable_sharing).
THEOREM MasqueradeFollowsPairs == Spec => []MasqueradeIffForwarded
<1>1. Inv => MasqueradeIffForwarded
  BY DEF Inv, GoodFirewall, MasqueradeIffForwarded
<1> QED BY <1>1, Invariance, PTL

\* No interface ever has two hostapd processes, nor one that StopHotspot cannot
\* find (CHILDREN in wifi/hotspot.rs).
THEOREM RadiosAreTracked == Spec => []RadiosTracked
<1>1. Inv => RadiosTracked
  BY DEF Inv, Tracked, RadiosTracked
<1> QED BY <1>1, Invariance, PTL
-----------------------------------------------------------------------------
(* The DHCP servers of the hotspots *)

\* No two clients share an entry of one lease table.
TableUnique ==
  \A s \in Servers : \A m, n \in Macs :
    m # n /\ byMac[s][m] # None => byMac[s][m] # byMac[s][n]

\* Every acknowledgement ever sent still agrees with its sender's table.
AcksHonest ==
  \A m \in Macs, ip \in Pool, s \in Servers :
    [type |-> "ACK", mac |-> m, ip |-> ip, from |-> s] \in replies => byMac[s][m] = ip

\* Every address in use agrees with the table of the server it came from.
BoundHonest ==
  \A m \in Macs : bound[m] # Unbound
    => /\ bound[m].ip \in Pool /\ bound[m].from \in Servers
       /\ byMac[bound[m].from][m] = bound[m].ip

\* The inductive invariant.
DhcpInv == DhcpTypeOK /\ TableUnique /\ AcksHonest /\ BoundHonest

\* Every candidate of the loop of allocate lies in the pool.
LEMMA CandidateInPool ==
  ASSUME NEW from \in Nat, NEW k \in Nat, from >= PoolStart
  PROVE  Candidate(from, k) \in Pool
<1> DEFINE x == from - PoolStart + k
           size == PoolEnd - PoolStart + 1
<1>1. x \in Nat /\ size \in Nat /\ size > 0
  BY PoolAssumption
<1>2. x % size \in 0..(size - 1)
  BY <1>1
<1> QED
  BY <1>2, PoolAssumption DEF Candidate, Pool

\* A remainder, below the divisor and one round above it.
LEMMA Remainders ==
  ASSUME NEW n \in Nat, n > 0, NEW r \in 0..(n - 1)
  PROVE  r % n = r /\ (r + n) % n = r
<1>1. r % n = r
  OBVIOUS
<1>2. (r + n) % n = r
  OBVIOUS
<1> QED
  BY <1>1, <1>2

\* The candidates of the rounds, without remainders: they run up to the end of
\* the pool and start over.
LEMMA CandidateWraps ==
  ASSUME NEW from \in PoolStart..(PoolEnd + 1), NEW k \in 0..(PoolEnd - PoolStart)
  PROVE  Candidate(from, k) =
           IF from + k <= PoolEnd THEN from + k ELSE from + k - (PoolEnd - PoolStart + 1)
<1> DEFINE n == PoolEnd - PoolStart + 1
           x == from - PoolStart + k
<1>1. /\ n \in Nat /\ n > 0
      /\ from \in Nat /\ k \in Nat /\ x \in Nat
  BY PoolAssumption
<1>2. CASE from + k <= PoolEnd
  <2>1. x \in 0..(n - 1)
    BY <1>1, <1>2, PoolAssumption
  <2>2. x % n = x
    BY <1>1, <2>1, Remainders
  <2> QED
    BY <1>1, <1>2, <2>2, PoolAssumption DEF Candidate
<1>3. CASE ~(from + k <= PoolEnd)
  <2>1. x - n \in 0..(n - 1) /\ x = (x - n) + n
    BY <1>1, <1>3, PoolAssumption
  <2>2. x % n = x - n
    BY <1>1, <2>1, Remainders
  <2> QED
    BY <1>1, <1>3, <2>2, PoolAssumption DEF Candidate
<1> QED
  BY <1>2, <1>3

\* One round of the loop goes from a candidate to the next.
LEMMA CandidateNext ==
  ASSUME NEW from \in PoolStart..(PoolEnd + 1), NEW k \in 0..(PoolEnd - PoolStart), k > 0
  PROVE  Candidate(from, k) =
           PoolStart + ((Candidate(from, k - 1) + 1 - PoolStart) % (PoolEnd - PoolStart + 1))
<1> DEFINE c == Candidate(from, k - 1)
<1>1. k - 1 \in 0..(PoolEnd - PoolStart)
  BY PoolAssumption
<1>2. c = IF from + (k - 1) <= PoolEnd THEN from + (k - 1)
          ELSE from + (k - 1) - (PoolEnd - PoolStart + 1)
  BY <1>1, CandidateWraps
<1>3. Candidate(from, k) =
        IF from + k <= PoolEnd THEN from + k ELSE from + k - (PoolEnd - PoolStart + 1)
  BY CandidateWraps
<1> HIDE DEF c
<1>4. c \in Int /\ c + 1 \in PoolStart..(PoolEnd + 1) /\ 0 \in 0..(PoolEnd - PoolStart)
  BY <1>2, PoolAssumption
<1>5. Candidate(c + 1, 0) =
        IF (c + 1) + 0 <= PoolEnd THEN c + 1 ELSE (c + 1) + 0 - (PoolEnd - PoolStart + 1)
  BY <1>4, CandidateWraps
<1>6. Candidate(c + 1, 0) = Candidate(from, k)
  BY <1>2, <1>3, <1>5, PoolAssumption
<1>7. Candidate(c + 1, 0) = PoolStart + ((c + 1 - PoolStart) % (PoolEnd - PoolStart + 1))
  <2>1. c + 1 - PoolStart + 0 = c + 1 - PoolStart
    BY <1>4, PoolAssumption
  <2> QED
    BY <1>4, <2>1, PoolAssumption DEF Candidate
<1> QED
  BY <1>6, <1>7 DEF c

\* Every address of the pool is the candidate of some round, wherever the loop
\* starts.
LEMMA CandidatesCover ==
  ASSUME NEW from \in PoolStart..(PoolEnd + 1), NEW p \in Pool
  PROVE  \E k \in 0..(PoolEnd - PoolStart) : Candidate(from, k) = p
<1>1. CASE p >= from
  <2>1. p - from \in 0..(PoolEnd - PoolStart) /\ from + (p - from) = p /\ p <= PoolEnd
    BY <1>1, PoolAssumption DEF Pool
  <2>2. Candidate(from, p - from) = p
    BY <2>1, CandidateWraps
  <2> QED
    BY <2>1, <2>2
<1>2. CASE ~(p >= from)
  <2> DEFINE k == p - from + (PoolEnd - PoolStart + 1)
  <2>1. /\ k \in 0..(PoolEnd - PoolStart)
        /\ ~(from + k <= PoolEnd)
        /\ from + k - (PoolEnd - PoolStart + 1) = p
    BY <1>2, PoolAssumption DEF Pool
  <2> HIDE DEF k
  <2>2. Candidate(from, k) = p
    BY <2>1, CandidateWraps
  <2> QED
    BY <2>1, <2>2
<1> QED
  BY <1>1, <1>2

\* The rounds of the loop of allocate, from the first to the last: round k
\* either has met only candidates that are taken, or has stopped at the first
\* free one.
LEMMA LoopFinds ==
  ASSUME NEW taken, NEW from \in PoolStart..(PoolEnd + 1)
  PROVE  \/ /\ \A k \in 0..(PoolEnd - PoolStart) : Candidate(from, k) \in taken
            /\ Loop(taken, from)
                 = [addr |-> None, next |-> Candidate(from, PoolEnd - PoolStart) + 1]
         \/ \E k \in 0..(PoolEnd - PoolStart) :
              /\ Candidate(from, k) \notin taken
              /\ \A j \in 0..(k - 1) : Candidate(from, j) \in taken
              /\ Loop(taken, from)
                   = [addr |-> Candidate(from, k), next |-> Candidate(from, k) + 1]
<1> DEFINE n == PoolEnd - PoolStart + 1
           X == [addr: Pool \cup {None}, next: PoolStart..(PoolEnd + 1)]
           wrap(x) == PoolStart + ((x - PoolStart) % n)
           step(x) == IF x.addr # None THEN x
                      ELSE [addr |-> IF wrap(x.next) \in taken THEN None ELSE wrap(x.next),
                            next |-> wrap(x.next) + 1]
           first == [addr |-> None, next |-> from]
           Is(f) == f = [k \in 0..n |-> IF k = 0 THEN first ELSE step(f[k - 1])]
           round == CHOOSE f : Is(f)
<1>1. n \in Nat /\ n > 0 /\ from \in Nat /\ from >= PoolStart /\ first \in X
  BY PoolAssumption
<1>2. ASSUME NEW x \in PoolStart..(PoolEnd + 1)
      PROVE  wrap(x) \in Pool /\ wrap(x) = Candidate(x, 0)
  <2>1. x \in Nat /\ x >= PoolStart /\ 0 \in Nat
    BY PoolAssumption
  <2>2. Candidate(x, 0) \in Pool
    BY <2>1, CandidateInPool
  <2>3. wrap(x) = Candidate(x, 0)
    BY <2>1, PoolAssumption DEF Candidate
  <2> QED
    BY <2>2, <2>3
<1>3. ASSUME NEW x \in X
      PROVE  step(x) \in X
  <2>1. wrap(x.next) \in Pool
    BY <1>2
  <2>2. wrap(x.next) + 1 \in PoolStart..(PoolEnd + 1)
    BY <2>1, PoolAssumption DEF Pool
  <2> HIDE DEF wrap
  <2> QED
    BY <2>1, <2>2
<1>4. Loop(taken, from) = round[n]
  BY DEF Loop
<1> HIDE DEF X, step, first
<1>5. \E f : Is(f)
  <2> DEFINE G == [i \in Nat |-> [x \in X |-> step(x)]]
  <2>1. G \in [Nat -> [X -> X]]
    BY <1>3
  <2> HIDE DEF n, G, Is
  <2>2. PICK f : DefinedBy(f, X, first, G, n)
    BY <1>1, <2>1, PrimitiveRecursion, Zenon
  <2>3. ASSUME NEW i \in 0..n, i # 0 PROVE G[i][f[i - 1]] = step(f[i - 1])
    <3>1. i - 1 \in 0..n /\ i \in Nat
      BY <1>1, <2>3
    <3> QED
      BY <2>2, <3>1 DEF G, DefinedBy
  <2>4. \A i \in 0..n : i # 0 => i \in 1..n
    BY <1>1
  <2>5. Is(f)
    BY <2>2, <2>3, <2>4 DEF Is, DefinedBy
  <2> QED
    BY <2>5
<1>6. round = [k \in 0..n |-> IF k = 0 THEN first ELSE step(round[k - 1])]
  BY <1>5, Zenon
<1> HIDE DEF round
<1> DEFINE Open(k) == /\ \A j \in 0..(k - 1) : Candidate(from, j) \in taken
                      /\ round[k].addr = None
                      /\ round[k] = [addr |-> None,
                           next |-> IF k = 0 THEN from ELSE Candidate(from, k - 1) + 1]
           Found(k, i) == /\ Candidate(from, i) \notin taken
                          /\ \A j \in 0..(i - 1) : Candidate(from, j) \in taken
                          /\ round[k].addr # None
                          /\ round[k] = [addr |-> Candidate(from, i),
                                         next |-> Candidate(from, i) + 1]
           S == {k \in 0..n : Open(k) \/ \E i \in 0..(k - 1) : Found(k, i)}
<1>7. 0 \in S
  <2>1. 0 \in 0..n
    BY <1>1
  <2> HIDE DEF n
  <2>2. round[0] = first
    BY <1>6, <2>1
  <2> QED
    BY <2>1, <2>2 DEF first
<1>8. ASSUME NEW k \in 0..(n - 1), k \in S PROVE k + 1 \in S
  <2>1. /\ k + 1 \in 0..n /\ k + 1 # 0 /\ (k + 1) - 1 = k
        /\ k \in 0..(PoolEnd - PoolStart) /\ k \in Nat
    BY <1>1, PoolAssumption
  <2>2. round[k + 1] = step(round[k])
    <3> HIDE DEF n
    <3> QED
      BY <1>6, <2>1, Zenon
  <2>3. ASSUME NEW i \in 0..(k - 1), Found(k, i) PROVE k + 1 \in S
    <3>1. round[k + 1] = round[k] /\ i \in 0..((k + 1) - 1)
      BY <2>1, <2>2, <2>3 DEF step
    <3>2. Found(k + 1, i)
      BY <2>3, <3>1, Zenon
    <3> QED
      BY <2>1, <3>1, <3>2
  <2>4. ASSUME Open(k) PROVE k + 1 \in S
    <3> DEFINE c == Candidate(from, k)
    <3>1. wrap(round[k].next) = c
      <4>1. CASE k = 0
        BY <1>2, <2>4, <4>1
      <4>2. CASE k # 0
        <5>1. k > 0
          BY <2>1, <4>2
        <5>2. k \in 0..(PoolEnd - PoolStart)
          BY <2>1
        <5>3. c = PoolStart + ((Candidate(from, k - 1) + 1 - PoolStart)
                               % (PoolEnd - PoolStart + 1))
          BY <5>1, <5>2, CandidateNext
        <5>4. round[k].next = Candidate(from, k - 1) + 1
          BY <2>4, <4>2
        <5>5. Candidate(from, k - 1) \in Int
          BY <1>1, <2>1, <5>1, CandidateInPool, PoolAssumption DEF Pool
        <5> HIDE DEF c
        <5> QED
          BY <5>3, <5>4, <5>5, PoolAssumption
      <4> QED
        BY <4>1, <4>2
    <3>2. c \in Pool /\ c # None
      BY <1>1, <2>1, CandidateInPool, PoolAssumption
    <3>3. round[k + 1] = [addr |-> IF c \in taken THEN None ELSE c, next |-> c + 1]
      <4> HIDE DEF wrap, c
      <4> QED
        BY <2>2, <2>4, <3>1 DEF step
    <3>4. \A j \in 0..k : j \in 0..(k - 1) \/ j = k
      BY <2>1
    <3>5. CASE c \in taken
      <4>1. Open(k + 1)
        BY <2>1, <2>4, <3>3, <3>4, <3>5
      <4> QED
        BY <2>1, <4>1
    <3>6. CASE c \notin taken
      <4>1. Found(k + 1, k)
        BY <2>4, <3>2, <3>3, <3>6
      <4>2. k \in 0..((k + 1) - 1)
        BY <2>1
      <4> QED
        BY <2>1, <4>1, <4>2
    <3> QED
      BY <3>5, <3>6
  <2> QED
    BY <1>8, <2>3, <2>4, Zenon
<1> HIDE DEF S
<1>9. n \in S
  BY <1>1, <1>7, <1>8, RangeInduction
<1>10. n - 1 = PoolEnd - PoolStart /\ n # 0
  BY PoolAssumption
<1>11. CASE Open(n)
  BY <1>4, <1>10, <1>11
<1>12. ASSUME NEW i \in 0..(n - 1), Found(n, i)
       PROVE \E k \in 0..(PoolEnd - PoolStart) :
              /\ Candidate(from, k) \notin taken
              /\ \A j \in 0..(k - 1) : Candidate(from, j) \in taken
              /\ Loop(taken, from)
                   = [addr |-> Candidate(from, k), next |-> Candidate(from, k) + 1]
  BY <1>4, <1>10, <1>12
<1> QED
  BY <1>9, <1>11, <1>12, Zenon DEF S

\* Initially every table is empty and no packet was sent.
LEMMA DhcpInvInit == DhcpInit => DhcpInv
<1> SUFFICES ASSUME DhcpInit PROVE DhcpInv
  OBVIOUS
<1>1. DhcpTypeOK
  BY PoolAssumption DEF DhcpInit, DhcpTypeOK, Pool
<1> QED
  BY <1>1 DEF DhcpInit, DhcpInv, TableUnique, AcksHonest, BoundHonest

\* A step that leaves the tables and the acknowledgements alone keeps the
\* invariant if it keeps the types and what the clients may use.
LEMMA TablesUnchanged ==
  ASSUME DhcpInv, DhcpTypeOK', byMac' = byMac, BoundHonest',
         \A m \in Macs, ip \in Pool, s \in Servers :
           [type |-> "ACK", mac |-> m, ip |-> ip, from |-> s] \in replies'
             => \/ [type |-> "ACK", mac |-> m, ip |-> ip, from |-> s] \in replies
                \/ byMac[s][m] = ip
  PROVE  DhcpInv'
BY DEF DhcpInv, TableUnique, AcksHonest

\* A new lease is given to one client, from the addresses nobody has.
LEMMA AllocateStep ==
  ASSUME DhcpInv, NEW s \in Servers, NEW m \in Macs, NEW addr \in Pool,
         byMac[s][m] = None, Allocates(s, addr), DhcpTypeOK',
         byMac' = [byMac EXCEPT ![s][m] = addr],
         Reply(s, "OFFER", m, addr), bound' = bound
  PROVE  DhcpInv'
<1>1. addr # None
  BY PoolAssumption
<1>2. \A n \in Macs : byMac[s][n] # addr
  BY DEF Allocates, Taken
<1>3. /\ byMac'[s][m] = addr
      /\ \A t \in Servers, n \in Macs :
           t # s \/ n # m => byMac'[t][n] = byMac[t][n]
  BY DEF DhcpInv, DhcpTypeOK
<1>4. TableUnique'
  <2> SUFFICES ASSUME NEW t \in Servers, NEW a \in Macs, NEW b \in Macs,
                      a # b, byMac'[t][a] # None
               PROVE  byMac'[t][a] # byMac'[t][b]
    BY DEF TableUnique
  <2>1. CASE t # s
    BY <1>3, <2>1 DEF DhcpInv, TableUnique
  <2>2. CASE t = s
    BY <1>2, <1>3, <2>2 DEF DhcpInv, TableUnique
  <2> QED
    BY <2>1, <2>2
<1>5. \A t \in Servers, n \in Macs : byMac[t][n] # None => byMac'[t][n] = byMac[t][n]
  BY <1>3
<1>6. AcksHonest'
  <2> SUFFICES ASSUME NEW n \in Macs, NEW ip \in Pool, NEW t \in Servers,
                      [type |-> "ACK", mac |-> n, ip |-> ip, from |-> t] \in replies'
               PROVE  byMac'[t][n] = ip
    BY DEF AcksHonest
  <2>1. [type |-> "ACK", mac |-> n, ip |-> ip, from |-> t] \in replies
    BY DEF Reply
  <2> QED
    BY <1>5, <2>1, PoolAssumption DEF DhcpInv, AcksHonest
<1>7. BoundHonest'
  BY <1>5, PoolAssumption DEF DhcpInv, BoundHonest
<1> QED
  BY <1>4, <1>6, <1>7 DEF DhcpInv

\* A reply to a client is a packet of the declared form.
LEMMA ReplyType ==
  ASSUME DhcpTypeOK, NEW s \in Servers, NEW type \in {"OFFER", "ACK", "NAK"},
         NEW m \in Macs, NEW ip \in Pool, Reply(s, type, m, ip)
  PROVE  replies' \subseteq Replies
<1>1. [type |-> type, mac |-> m, ip |-> ip, from |-> s] \in Replies
  BY DEF Replies
<1> QED
  BY <1>1 DEF Reply, DhcpTypeOK

\* A DISCOVER keeps the invariant, also when the pool is exhausted.
LEMMA DiscoverStep ==
  ASSUME DhcpInv, NEW s \in Servers, NEW m \in Macs, HandleDiscover(s, m)
  PROVE  DhcpInv'
<1>1. DhcpTypeOK /\ UNCHANGED <<status, requests, wanted, bound>>
  BY DEF DhcpInv, HandleDiscover
<1>2. CASE /\ byMac[s][m] # None
           /\ Reply(s, "OFFER", m, byMac[s][m])
           /\ UNCHANGED <<byMac, next>>
  <2>1. byMac[s][m] \in Pool
    BY <1>1, <1>2 DEF DhcpTypeOK
  <2>2. replies' \subseteq Replies
    BY <1>1, <1>2, <2>1, ReplyType
  <2>3. DhcpTypeOK'
    BY <1>1, <1>2, <2>2, Zenon DEF DhcpTypeOK
  <2>4. BoundHonest'
    BY <1>1, <1>2 DEF DhcpInv, BoundHonest
  <2> QED
    BY <1>2, <2>3, <2>4, TablesUnchanged DEF Reply
<1>3. ASSUME NEW addr \in Pool, byMac[s][m] = None, Allocates(s, addr),
             byMac' = [byMac EXCEPT ![s][m] = addr],
             next' = [next EXCEPT ![s] = addr + 1], Reply(s, "OFFER", m, addr)
      PROVE  DhcpInv'
  <2>1. replies' \subseteq Replies
    BY <1>1, <1>3, ReplyType
  <2>2. addr + 1 \in PoolStart..(PoolEnd + 1)
    BY PoolAssumption DEF Pool
  <2>3. DhcpTypeOK'
    BY <1>1, <1>3, <2>1, <2>2 DEF DhcpTypeOK
  <2> QED
    BY <1>1, <1>3, <2>3, AllocateStep, Zenon
<1>4. CASE /\ next' = [next EXCEPT ![s] = AfterRounds(s)]
           /\ UNCHANGED <<byMac, replies>>
  <2>1. next[s] \in Nat /\ next[s] >= PoolStart /\ PoolEnd - PoolStart \in Nat
    BY <1>1, PoolAssumption DEF DhcpTypeOK
  <2>2. Candidate(next[s], PoolEnd - PoolStart) \in Pool
    BY <2>1, CandidateInPool
  <2>3. AfterRounds(s) \in PoolStart..(PoolEnd + 1)
    BY <2>2, PoolAssumption DEF AfterRounds, Pool
  <2>4. DhcpTypeOK'
    BY <1>1, <1>4, <2>3, SMTT(30) DEF DhcpTypeOK
  <2>5. BoundHonest'
    BY <1>1, <1>4 DEF DhcpInv, BoundHonest
  <2> QED
    BY <1>4, <2>4, <2>5, TablesUnchanged
<1> QED
  BY <1>2, <1>3, <1>4 DEF HandleDiscover

\* A REQUEST is acknowledged only for the address in the table.
LEMMA RequestStep ==
  ASSUME DhcpInv, NEW s \in Servers, NEW m \in Macs, NEW ip \in Pool,
         HandleRequest(s, m, ip)
  PROVE  DhcpInv'
<1> DEFINE type == IF byMac[s][m] = ip THEN "ACK" ELSE "NAK"
<1>1. /\ DhcpTypeOK /\ Reply(s, type, m, ip)
      /\ UNCHANGED <<status, byMac, next, requests, wanted, bound>>
  BY DEF DhcpInv, HandleRequest
<1>2. DhcpTypeOK'
  <2>1. replies' \subseteq Replies
    BY <1>1, ReplyType
  <2> QED
    BY <1>1, <2>1 DEF DhcpTypeOK
<1>3. BoundHonest'
  BY <1>1, Zenon DEF DhcpInv, BoundHonest
<1> QED
  BY <1>1, <1>2, <1>3, TablesUnchanged, Zenon DEF Reply

\* The clients' own steps keep the invariant: only an acknowledgement gives a
\* client an address.
LEMMA ClientStep ==
  ASSUME DhcpInv, Client
  PROVE  DhcpInv'
<1>1. ASSUME NEW m \in Macs, Discover(m)
      PROVE  DhcpInv'
  <2>1. DhcpTypeOK'
    BY <1>1 DEF Discover, DhcpInv, DhcpTypeOK, Discovers
  <2> QED
    BY <1>1, <2>1, TablesUnchanged, Zenon DEF Discover, DhcpInv, BoundHonest
<1>2. ASSUME NEW m \in Macs, NEW ip \in Pool, RequestAddress(m, ip)
      PROVE  DhcpInv'
  <2>1. [type |-> "REQUEST", mac |-> m, ip |-> ip] \in Requests
    BY Zenon DEF Requests
  <2>2. DhcpTypeOK'
    BY <1>2, <2>1, Zenon DEF RequestAddress, DhcpInv, DhcpTypeOK
  <2> QED
    BY <1>2, <2>2, TablesUnchanged, Zenon DEF RequestAddress, DhcpInv, BoundHonest
<1>3. ASSUME NEW m \in Macs, NEW s \in Servers, ReceiveAck(m, s)
      PROVE  DhcpInv'
  <2>1. wanted[m] \in Pool /\ byMac[s][m] = wanted[m]
    BY <1>3 DEF ReceiveAck, DhcpInv, DhcpTypeOK, AcksHonest
  <2>2. DhcpTypeOK'
    BY <1>3, <2>1, Zenon DEF ReceiveAck, DhcpInv, DhcpTypeOK
  <2>3. BoundHonest'
    BY <1>3, <2>1 DEF ReceiveAck, DhcpInv, DhcpTypeOK, BoundHonest
  <2> QED
    BY <1>3, <2>2, <2>3, TablesUnchanged, Zenon DEF ReceiveAck
<1>4. ASSUME NEW m \in Macs, NEW s \in Servers, ReceiveNak(m, s)
      PROVE  DhcpInv'
  <2>1. DhcpTypeOK'
    BY <1>4, Zenon DEF ReceiveNak, DhcpInv, DhcpTypeOK
  <2>2. BoundHonest'
    BY <1>4 DEF ReceiveNak, DhcpInv, DhcpTypeOK, BoundHonest
  <2> QED
    BY <1>4, <2>1, <2>2, TablesUnchanged, Zenon DEF ReceiveNak
<1> QED
  BY <1>1, <1>2, <1>3, <1>4, Zenon DEF Client

\* Every step keeps the inductive invariant.
LEMMA DhcpInvNext == DhcpInv /\ [DhcpNext]_dhcpVars => DhcpInv'
<1> SUFFICES ASSUME DhcpInv, [DhcpNext]_dhcpVars PROVE DhcpInv'
  OBVIOUS
<1>1. CASE EndAll \/ \E s \in Servers : Start(s)
  <2>1. DhcpTypeOK'
    BY <1>1, Zenon DEF EndAll, Start, DhcpInv, DhcpTypeOK
  <2> QED
    BY <1>1, <2>1, TablesUnchanged DEF EndAll, Start, DhcpInv, BoundHonest
<1>2. CASE UNCHANGED dhcpVars
  BY <1>2, Zenon DEF dhcpVars, DhcpInv, DhcpTypeOK, TableUnique, AcksHonest, BoundHonest
<1> QED
  BY <1>1, <1>2, DiscoverStep, RequestStep, ClientStep, Zenon DEF DhcpNext, Server

\* The inductive invariant holds in every reachable state.
THEOREM DhcpInvariant == DhcpSpec => []DhcpInv
BY DhcpInvInit, DhcpInvNext, PTL DEF DhcpSpec

\* Two clients acknowledged by one server thread never use the same address,
\* for every pool and every loss, repetition and reordering of packets.
THEOREM AddressesDistinct == DhcpSpec => []NoAddressShared
<1>1. DhcpInv => NoAddressShared
  BY PoolAssumption DEF DhcpInv, NoAddressShared, BoundHonest, TableUnique
<1> QED
  BY <1>1, DhcpInvariant, PTL

\* A lease never moves once a server has allocated it (LeaseTable::allocate
\* returns the existing entry, and nothing removes one).
THEOREM LeasesStable == DhcpSpec => LeaseStable
<1>1. DhcpInv /\ [DhcpNext]_dhcpVars
        => [\A s \in Servers, m \in Macs :
              byMac[s][m] # None => byMac'[s][m] = byMac[s][m]]_dhcpVars
  <2> SUFFICES ASSUME DhcpInv, [DhcpNext]_dhcpVars, NEW s \in Servers, NEW m \in Macs,
                      byMac[s][m] # None
               PROVE  byMac'[s][m] = byMac[s][m]
    OBVIOUS
  <2>1. \/ byMac' = byMac
        \/ \E t \in Servers, n \in Macs, addr \in Pool :
             byMac[t][n] = None /\ byMac' = [byMac EXCEPT ![t][n] = addr]
    BY Zenon DEF DhcpNext, Server, Client, dhcpVars, Start, EndAll, HandleDiscover, HandleRequest,
           Discover, RequestAddress, ReceiveAck, ReceiveNak
  <2> QED
    BY <2>1 DEF DhcpInv, DhcpTypeOK
<1> QED
  BY <1>1, DhcpInvariant, PTL DEF DhcpSpec, LeaseStable

\* The types of DhcpServer hold: in particular next_candidate never leaves the
\* pool by more than one, so that allocate's u32 arithmetic neither underflows
\* nor overflows.
THEOREM DhcpTypeCorrect == DhcpSpec => []DhcpTypeOK
<1>1. DhcpInv => DhcpTypeOK
  BY DEF DhcpInv
<1> QED
  BY <1>1, DhcpInvariant, PTL

\* For every pool, and wherever next_candidate stands: a server that refuses to
\* offer has leased every address.
THEOREM ServesWhileAnyFree == DhcpSpec => []ServesWhileFree
<1>1. DhcpInv => ServesWhileFree
  <2> SUFFICES ASSUME DhcpInv, NEW s \in Servers, Exhausted(s), NEW p \in Pool
               PROVE  p \in Taken(s)
    BY DEF ServesWhileFree
  <2>1. next[s] \in PoolStart..(PoolEnd + 1)
    BY DEF DhcpInv, DhcpTypeOK
  <2>2. PICK k \in 0..(PoolEnd - PoolStart) : Candidate(next[s], k) = p
    BY <2>1, CandidatesCover
  <2> QED
    BY <2>2 DEF Exhausted
<1> QED
  BY <1>1, DhcpInvariant, PTL

\* For every pool, what the server's steps say of allocate is what the loop of
\* LeaseTable::allocate computes, next_candidate included.
THEOREM LoopRefined == DhcpSpec => []AllocateIsLoop
<1>1. DhcpInv => AllocateIsLoop
  <2> SUFFICES ASSUME DhcpInv, NEW s \in Servers
               PROVE  LET result == Loop(Taken(s), next[s]) IN
                      /\ \A addr \in Pool :
                           Allocates(s, addr)
                             <=> result = [addr |-> addr, next |-> addr + 1]
                      /\ Exhausted(s)
                           <=> result = [addr |-> None, next |-> AfterRounds(s)]
    BY Zenon DEF AllocateIsLoop
  <2> DEFINE result == Loop(Taken(s), next[s])
             taken  == Taken(s)
             C(k)   == Candidate(next[s], k)
             rounds == 0..(PoolEnd - PoolStart)
             First(k) == C(k) \notin taken /\ \A j \in 0..(k - 1) : C(j) \in taken
  <2>1. next[s] \in PoolStart..(PoolEnd + 1)
    BY DEF DhcpInv, DhcpTypeOK
  <2>2. ASSUME NEW k \in rounds PROVE C(k) \in Pool /\ C(k) # None
    <3>1. next[s] \in Nat /\ next[s] >= PoolStart /\ k \in Nat
      BY <2>1, PoolAssumption
    <3> QED
      BY <3>1, CandidateInPool, PoolAssumption
  <2>3. \/ /\ \A k \in rounds : C(k) \in taken
           /\ result = [addr |-> None, next |-> AfterRounds(s)]
        \/ \E k \in rounds : First(k) /\ result = [addr |-> C(k), next |-> C(k) + 1]
    BY <2>1, LoopFinds DEF AfterRounds
  <2>4. /\ \A addr : Allocates(s, addr) <=> \E k \in rounds : addr = C(k) /\ First(k)
        /\ Exhausted(s) <=> \A k \in rounds : C(k) \in taken
    BY DEF Allocates, Exhausted
  <2>5. \A j, k \in rounds : j < k => j \in 0..(k - 1)
    BY PoolAssumption
  <2>6. \A j, k \in rounds : First(j) /\ First(k) => j = k
    <3> SUFFICES ASSUME NEW j \in rounds, NEW k \in rounds, First(j), First(k), j # k
                 PROVE  FALSE
      OBVIOUS
    <3>1. j < k \/ k < j
      BY PoolAssumption
    <3> QED
      BY <2>5, <3>1
  <2> HIDE DEF result, taken, C, First, rounds
  <2>7. CASE /\ \A k \in rounds : C(k) \in taken
             /\ result = [addr |-> None, next |-> AfterRounds(s)]
    <3>1. Exhausted(s) /\ \A addr : ~Allocates(s, addr)
      BY <2>4, <2>7 DEF First
    <3>2. \A addr \in Pool : result # [addr |-> addr, next |-> addr + 1]
      BY <2>7, PoolAssumption, Zenon
    <3> QED
      BY <2>7, <3>1, <3>2 DEF result
  <2>8. ASSUME NEW k \in rounds, First(k), result = [addr |-> C(k), next |-> C(k) + 1]
        PROVE  /\ \A addr \in Pool :
                    Allocates(s, addr) <=> result = [addr |-> addr, next |-> addr + 1]
               /\ Exhausted(s) <=> result = [addr |-> None, next |-> AfterRounds(s)]
    <3>1. ~Exhausted(s) /\ result # [addr |-> None, next |-> AfterRounds(s)]
      BY <2>2, <2>4, <2>8 DEF First
    <3>2. \A addr : Allocates(s, addr) <=> addr = C(k)
      BY <2>4, <2>6, <2>8
    <3>3. \A addr : result = [addr |-> addr, next |-> addr + 1] <=> addr = C(k)
      BY <2>8
    <3> QED
      BY <3>1, <3>2, <3>3, Zenon
  <2> QED
    BY <2>3, <2>7, <2>8, Zenon DEF result
<1> QED
  BY <1>1, DhcpInvariant, PTL
=============================================================================
