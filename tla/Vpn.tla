-------------------------------- MODULE Vpn --------------------------------
(***************************************************************************)
(* VPN sessions: src/vpn/vpn.rs (ACTIVE), src/vpn/openvpn.rs (SESSIONS,    *)
(* the management reader threads) and src/vpn/wireguard.rs.                *)
(*                                                                         *)
(* The manager thread runs connect and disconnect to their end; openvpn    *)
(* itself, the reader thread of each session and the thread that removes   *)
(* the credentials file run beside it.  An attempt is one call of          *)
(* openvpn::connect that got as far as starting openvpn.                   *)
(***************************************************************************)
EXTENDS Integers, Sequences, FiniteSets

CONSTANTS
  OpenVpnProfiles,  \* profiles of kind OpenVpn
  WithCredentials,  \* those of them with a stored user name and password
  WireGuards,       \* interface names the WireGuard profiles configure
  Tuns,             \* device names openvpn picks from
  Fallback,         \* profile -> format!("openvpn-{profile_id}"), the name of
                    \* a session whose device is not known
  Attempts          \* bound: attempts that are made, a set 1..n

ASSUME NamesAssumption ==
  /\ WithCredentials \subseteq OpenVpnProfiles
  /\ Tuns \cap WireGuards = {}
  /\ DOMAIN Fallback = OpenVpnProfiles
  /\ \A p, q \in OpenVpnProfiles :
       /\ Fallback[p] = Fallback[q] => p = q
       /\ Fallback[p] \notin Tuns \cup WireGuards
  /\ "none" \notin OpenVpnProfiles
  /\ Tuns \cap {"none", "failed", "unnamed"} = {}
  /\ Attempts \subseteq Nat

VARIABLES
  stage,     \* where the manager thread is in connect or disconnect
  cur,       \* the attempt stage is about
  att,       \* every attempt: openvpn, its management connection, its reader
  workdirs,  \* attempts whose work directory exists
  userpass,  \* attempts whose credentials file exists
  removers,  \* attempts whose credentials file a sleeping thread will remove
  SESSIONS,  \* openvpn.rs: name -> attempt
  ACTIVE,    \* vpn.rs: name -> kind
  links      \* WireGuard interface -> "absent", "bare" or "configured"

vpnVars == <<stage, cur, att, workdirs, userpass, removers, SESSIONS, ACTIVE, links>>

Names == Tuns \cup {Fallback[p] : p \in OpenVpnProfiles} \cup WireGuards
NoName == "none"
States == {"CONNECTED", "RECONNECTING", "FATAL"}

\* daemon   "none", "starting", "dialed" (connected to the management
\*          socket), "up" (accepted), "exited"
\* dev      the device the --up script wrote to the ifname file
\* lines    >STATE: lines the reader has not read
\* reader   whether the reader thread runs;  tx: whether it still has to
\*          report to connect;  report: what connect's channel holds, for
\*          MgmtEvent::Connected the device it names or "unnamed"
\* state, ifname   the SessionStatus
\* sigterm  "signal SIGTERM" was written to the management connection
\* first    the first CONNECTED or fatal state openvpn sent (history)
Attempt == [profile : OpenVpnProfiles \cup {NoName},
            daemon : {"none", "starting", "dialed", "up", "exited"},
            dev : Tuns \cup {NoName}, lines : Seq(States),
            reader : BOOLEAN, tx : BOOLEAN,
            report : {"none", "failed", "unnamed"} \cup Tuns,
            state : States \cup {NoName}, ifname : Tuns \cup {NoName},
            sigterm : BOOLEAN, first : {"none", "CONNECTED", "FATAL"}]

NotMade == [profile |-> NoName, daemon |-> "none", dev |-> NoName,
            lines |-> <<>>, reader |-> FALSE, tx |-> FALSE,
            report |-> "none", state |-> NoName, ifname |-> NoName,
            sigterm |-> FALSE, first |-> "none"]

VpnInit ==
  /\ stage = "idle" /\ cur = 0
  /\ att = [a \in Attempts |-> NotMade]
  /\ workdirs = {} /\ userpass = {} /\ removers = {}
  /\ SESSIONS = <<>> /\ ACTIVE = <<>>
  /\ links = [i \in WireGuards |-> "absent"]

Put(f, k, v) == [x \in DOMAIN f \cup {k} |-> IF x = k THEN v ELSE f[x]]
Remove(f, k) == [x \in DOMAIN f \ {k} |-> f[x]]
-----------------------------------------------------------------------------
(* openvpn::connect *)

\* The attempt the next connect makes.
Unmade(a) ==
  /\ att[a] = NotMade
  /\ \A b \in Attempts : b < a => att[b] # NotMade

\* A work directory, the scripts, the management socket, the credentials
\* file, and openvpn is started; the credentials file has five seconds.
Launch(p) == \E a \in Attempts :
  /\ stage = "idle" /\ Unmade(a)
  /\ att' = [att EXCEPT ![a].profile = p, ![a].daemon = "starting"]
  /\ workdirs' = workdirs \cup {a}
  /\ userpass' = IF p \in WithCredentials THEN userpass \cup {a} ELSE userpass
  /\ removers' = IF p \in WithCredentials THEN removers \cup {a} ELSE removers
  /\ stage' = "accept" /\ cur' = a
  /\ UNCHANGED <<SESSIONS, ACTIVE, links>>

\* Reading the secrets, or creating or writing the credentials file fails: `?`
\* returns past cleanup_workdir.  Failing earlier leaves nothing behind.
LaunchFailsEarly(p) == \E a \in Attempts :
  /\ stage = "idle" /\ Unmade(a)
  /\ att' = [att EXCEPT ![a].profile = p, ![a].daemon = "exited"]
  /\ \/ UNCHANGED <<workdirs, userpass>>
     \/ /\ workdirs' = workdirs \cup {a}
        /\ userpass' \in {userpass} \cup {userpass \cup {a} : q \in {p} \cap WithCredentials}
  /\ UNCHANGED <<stage, cur, removers, SESSIONS, ACTIVE, links>>

\* openvpn cannot be started: the directory goes, the credentials file of a
\* profile that has one stays, for no thread removes it.
LaunchFails(p) == \E a \in Attempts :
  /\ stage = "idle" /\ Unmade(a)
  /\ att' = [att EXCEPT ![a].profile = p, ![a].daemon = "exited"]
  /\ userpass' = IF p \in WithCredentials THEN userpass \cup {a} ELSE userpass
  /\ UNCHANGED <<stage, cur, workdirs, removers, SESSIONS, ACTIVE, links>>

\* accept_with_timeout returns the connection, "state on" is written and the
\* reader thread is started.
Accept ==
  /\ stage = "accept" /\ att[cur].daemon = "dialed"
  /\ att' = [att EXCEPT ![cur].daemon = "up", ![cur].reader = TRUE,
                        ![cur].tx = TRUE]
  /\ stage' = "await"
  /\ UNCHANGED <<cur, workdirs, userpass, removers, SESSIONS, ACTIVE, links>>

\* Nobody connects within fifteen seconds, or the connection cannot be used:
\* the child is killed and the directory removed.  openvpn ends, for it has
\* not left the child yet or loses its management connection.
AcceptFails ==
  /\ stage = "accept"
  /\ att' = [att EXCEPT ![cur].daemon = "exited"]
  /\ workdirs' = workdirs \ {cur}
  /\ stage' = "idle" /\ cur' = 0
  /\ UNCHANGED <<userpass, removers, SESSIONS, ACTIVE, links>>

\* The reader reports CONNECTED: the session is entered under the name it
\* reports, in place of one that is still there, and vpn::connect tracks it.
Connected ==
  /\ stage = "await" /\ att[cur].report \notin {"none", "failed"}
  /\ LET name == IF att[cur].report = "unnamed" THEN Fallback[att[cur].profile]
                 ELSE att[cur].report
     IN /\ SESSIONS' = Put(SESSIONS, name, cur)
        /\ ACTIVE' = Put(ACTIVE, name, "OpenVpn")
  /\ att' = [att EXCEPT ![cur].report = "none"]
  /\ stage' = "idle" /\ cur' = 0
  /\ UNCHANGED <<workdirs, userpass, removers, links>>

\* Faulty variant: recv in place of recv_timeout.
ConnectFailsReported ==
  /\ stage = "await" /\ att[cur].report = "failed"
  /\ workdirs' = workdirs \ {cur}
  /\ att' = [att EXCEPT ![cur].report = "none"]
  /\ stage' = "idle" /\ cur' = 0
  /\ UNCHANGED <<userpass, removers, SESSIONS, ACTIVE, links>>

\* The reader reports a failure, or nothing within a minute.  Killing the
\* child reaches only the launcher, and the reader keeps the management
\* connection open: openvpn runs on.
ConnectFails ==
  /\ stage = "await" /\ att[cur].report \in {"none", "failed"}
  /\ workdirs' = workdirs \ {cur}
  /\ att' = [att EXCEPT ![cur].report = "none"]
  /\ stage' = "idle" /\ cur' = 0
  /\ UNCHANGED <<userpass, removers, SESSIONS, ACTIVE, links>>
-----------------------------------------------------------------------------
(* The threads *)

\* Faulty variant: the thread removes the file every five seconds.
RemoveUserpassForever(a) ==
  /\ a \in removers
  /\ userpass' = userpass \ {a}
  /\ UNCHANGED <<stage, cur, att, workdirs, removers, SESSIONS, ACTIVE, links>>

\* The thread that sleeps five seconds and removes the credentials file.
RemoveUserpass(a) ==
  /\ a \in removers
  /\ removers' = removers \ {a} /\ userpass' = userpass \ {a}
  /\ UNCHANGED <<stage, cur, att, workdirs, SESSIONS, ACTIVE, links>>

\* What tx.send leaves in the channel of connect: nothing once the reader has
\* reported or connect has stopped waiting.
Reported(a, what) ==
  IF att[a].tx /\ stage = "await" /\ cur = a THEN what ELSE att[a].report

\* Faulty variant: every state ends the wait of connect.
ReadAnyState(a) ==
  /\ att[a].reader /\ att[a].lines # <<>>
  /\ LET s == Head(att[a].lines) IN
     att' = [att EXCEPT ![a].lines = Tail(@), ![a].state = s,
               ![a].ifname = att[a].dev, ![a].tx = FALSE,
               ![a].report = Reported(a, "unnamed")]
  /\ UNCHANGED <<stage, cur, workdirs, userpass, removers, SESSIONS, ACTIVE, links>>

\* background_reader takes a line.  The device is the content of the ifname
\* file, which is in the work directory.
ReadState(a) ==
  /\ att[a].reader /\ att[a].lines # <<>>
  /\ LET s == Head(att[a].lines)
         known == s = "CONNECTED" /\ a \in workdirs /\ att[a].dev # NoName
         device == IF known THEN att[a].dev ELSE "unnamed"
     IN att' = [att EXCEPT
          ![a].lines = Tail(@), ![a].state = s,
          ![a].ifname = IF known THEN device ELSE @,
          ![a].tx = @ /\ s = "RECONNECTING",
          ![a].report = CASE s = "CONNECTED" -> Reported(a, device)
                          [] s = "FATAL" -> Reported(a, "failed")
                          [] OTHER -> @]
  /\ UNCHANGED <<stage, cur, workdirs, userpass, removers, SESSIONS, ACTIVE, links>>

\* The management connection is closed: the reader reports and ends.
ReadEnd(a) ==
  /\ att[a].reader /\ att[a].lines = <<>> /\ att[a].daemon = "exited"
  /\ att' = [att EXCEPT ![a].reader = FALSE, ![a].tx = FALSE,
               ![a].report = Reported(a, "failed")]
  /\ UNCHANGED <<stage, cur, workdirs, userpass, removers, SESSIONS, ACTIVE, links>>
-----------------------------------------------------------------------------
(* openvpn, as the management interface shows it (external) *)

\* It connects to the management socket, or ends: its configuration is bad,
\* or the credentials file is already gone.
Dial(a) ==
  /\ att[a].daemon = "starting"
  /\ \E d \in {"dialed", "exited"} :
       /\ d = "dialed" => (att[a].profile \in WithCredentials => a \in userpass)
       /\ att' = [att EXCEPT ![a].daemon = d]
  /\ UNCHANGED <<stage, cur, workdirs, userpass, removers, SESSIONS, ACTIVE, links>>

Say(a, s) == [att EXCEPT
  ![a].lines = Append(@, s),
  ![a].first = IF @ = "none" /\ s # "RECONNECTING" THEN s ELSE @]

\* The tunnel is up; the --up script may not have written the device yet.
TunnelUp(a) ==
  /\ att[a].daemon = "up" /\ att[a].lines = <<>> /\ att[a].state # "CONNECTED"
  /\ \E dev \in {NoName} \cup {t \in Tuns :
                   \A b \in Attempts : att[b].dev = t => b = a} :
       att' = [Say(a, "CONNECTED") EXCEPT ![a].dev = dev]
  /\ UNCHANGED <<stage, cur, workdirs, userpass, removers, SESSIONS, ACTIVE, links>>

\* The tunnel has to be set up again.
Reconnect(a) ==
  /\ att[a].daemon = "up" /\ att[a].lines = <<>> /\ att[a].state = "CONNECTED"
  /\ att' = Say(a, "RECONNECTING")
  /\ UNCHANGED <<stage, cur, workdirs, userpass, removers, SESSIONS, ACTIVE, links>>

\* It gives up and ends.
Fatal(a) ==
  /\ att[a].daemon = "up" /\ att[a].lines = <<>>
  /\ att' = [Say(a, "FATAL") EXCEPT ![a].daemon = "exited", ![a].dev = NoName]
  /\ UNCHANGED <<stage, cur, workdirs, userpass, removers, SESSIONS, ACTIVE, links>>

\* It obeys the signal.
Terminate(a) ==
  /\ att[a].daemon = "up" /\ att[a].sigterm
  /\ att' = [att EXCEPT ![a].daemon = "exited", ![a].dev = NoName]
  /\ UNCHANGED <<stage, cur, workdirs, userpass, removers, SESSIONS, ACTIVE, links>>
-----------------------------------------------------------------------------
(* vpn::disconnect *)

\* Faulty variant: only the child is killed.
DisconnectKillsChild(name) ==
  /\ stage = "idle" /\ name \in DOMAIN ACTIVE /\ ACTIVE[name] = "OpenVpn"
  /\ ACTIVE' = Remove(ACTIVE, name) /\ SESSIONS' = Remove(SESSIONS, name)
  /\ stage' = "killing" /\ cur' = SESSIONS[name]
  /\ UNCHANGED <<att, workdirs, userpass, removers, links>>

\* untrack, and openvpn::disconnect up to its pause: the session is taken
\* out of SESSIONS and openvpn is told to end.
DisconnectOpenVpn(name) ==
  /\ stage = "idle" /\ name \in DOMAIN ACTIVE /\ ACTIVE[name] = "OpenVpn"
  /\ ACTIVE' = Remove(ACTIVE, name)
  /\ IF name \in DOMAIN SESSIONS
     THEN /\ att' = [att EXCEPT ![SESSIONS[name]].sigterm = TRUE]
          /\ SESSIONS' = Remove(SESSIONS, name)
          /\ stage' = "killing" /\ cur' = SESSIONS[name]
     ELSE UNCHANGED <<att, SESSIONS, stage, cur>>
  /\ UNCHANGED <<workdirs, userpass, removers, links>>

\* The child, long gone, is killed and waited for, the directory removed.
Kill ==
  /\ stage = "killing"
  /\ workdirs' = workdirs \ {cur}
  /\ stage' = "idle" /\ cur' = 0
  /\ UNCHANGED <<att, userpass, removers, SESSIONS, ACTIVE, links>>
-----------------------------------------------------------------------------
(* wireguard::connect and disconnect *)

\* The interface is created unless it exists; address, keys and link state
\* are set.
ConnectWireGuard(i) ==
  /\ stage = "idle"
  /\ links' = [links EXCEPT ![i] = "configured"]
  /\ ACTIVE' = Put(ACTIVE, i, "WireGuard")
  /\ UNCHANGED <<stage, cur, att, workdirs, userpass, removers, SESSIONS>>

\* A step after the creation fails: the interface stays.
ConnectWireGuardFails(i) ==
  /\ stage = "idle" /\ links[i] = "absent"
  /\ links' = [links EXCEPT ![i] = "bare"]
  /\ UNCHANGED <<stage, cur, att, workdirs, userpass, removers, SESSIONS, ACTIVE>>

\* The interface is deleted, which may fail.
DisconnectWireGuard(i) ==
  /\ stage = "idle" /\ i \in DOMAIN ACTIVE /\ ACTIVE[i] = "WireGuard"
  /\ ACTIVE' = Remove(ACTIVE, i)
  /\ links' \in {links, [links EXCEPT ![i] = "absent"]}
  /\ UNCHANGED <<stage, cur, att, workdirs, userpass, removers, SESSIONS>>
-----------------------------------------------------------------------------
Request ==
  \/ \E p \in OpenVpnProfiles : Launch(p) \/ LaunchFailsEarly(p) \/ LaunchFails(p)
  \/ \E name \in Names : DisconnectOpenVpn(name)
  \/ \E i \in WireGuards : \/ ConnectWireGuard(i) \/ ConnectWireGuardFails(i)
                           \/ DisconnectWireGuard(i)

Manager == Accept \/ AcceptFails \/ Connected \/ ConnectFails \/ Kill

Thread(a) == RemoveUserpass(a) \/ ReadState(a) \/ ReadEnd(a)
Daemon(a) == Dial(a) \/ TunnelUp(a) \/ Reconnect(a) \/ Fatal(a) \/ Terminate(a)
Beside == \E a \in Attempts : Thread(a) \/ Daemon(a)

VpnNext == Request \/ Manager \/ Beside

\* The threads are scheduled, the waits of connect end, and openvpn obeys
\* the commands it reads.
Fairness ==
  /\ WF_vpnVars(Manager)
  /\ \A a \in Attempts : WF_vpnVars(Thread(a)) /\ WF_vpnVars(Terminate(a))

VpnSpec == VpnInit /\ [][VpnNext]_vpnVars /\ Fairness
-----------------------------------------------------------------------------
(* Properties *)

\* Types; a remover thread has a credentials file to remove (openvpn::connect),
\* and a connect or disconnect under way is of some attempt.
VpnTypeOK ==
  /\ stage \in {"idle", "accept", "await", "killing"}
  /\ cur \in Attempts \cup {0} /\ (stage # "idle" => cur \in Attempts)
  /\ att \in [Attempts -> Attempt]
  /\ workdirs \subseteq Attempts
  /\ removers \subseteq userpass /\ userpass \subseteq Attempts
  /\ DOMAIN SESSIONS \subseteq Names /\ \A n \in DOMAIN SESSIONS : SESSIONS[n] \in Attempts
  /\ DOMAIN ACTIVE \subseteq Names
  /\ \A n \in DOMAIN ACTIVE : ACTIVE[n] \in {"OpenVpn", "WireGuard"}
  /\ links \in [WireGuards -> {"absent", "bare", "configured"}]

\* ACTIVE and SESSIONS, two maps of two modules, agree on the OpenVPN
\* sessions, whatever connects fail or replace a session (vpn::connect,
\* vpn::disconnect).  A session is of an openvpn that reported CONNECTED
\* before any failure, its work directory is still there, and no two names
\* are of the same openvpn.  A tracked WireGuard interface is configured.
SessionsTracked ==
  /\ \A n \in Names : n \in DOMAIN SESSIONS <=> (n \in DOMAIN ACTIVE /\ ACTIVE[n] = "OpenVpn")
  /\ \A n \in DOMAIN SESSIONS :
       /\ att[SESSIONS[n]].first = "CONNECTED"
       /\ SESSIONS[n] \in workdirs
       /\ \A m \in DOMAIN SESSIONS : SESSIONS[m] = SESSIONS[n] => m = n
  /\ \A i \in WireGuards :
       i \in DOMAIN ACTIVE => ACTIVE[i] = "WireGuard" /\ links[i] = "configured"

\* A session that vpn::disconnect closes ends its openvpn, though the child
\* process it holds is only the launcher (openvpn::disconnect).
DisconnectStops ==
  \A a \in Attempts : (stage = "killing" /\ cur = a) ~> (att[a].daemon = "exited")

\* connect and disconnect come back to the manager thread, whatever openvpn
\* does: accept_with_timeout and recv_timeout end every wait for it.
ConnectReturns == (stage # "idle") ~> (stage = "idle")
=============================================================================
