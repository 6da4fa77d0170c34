----------------------------- MODULE DhcpServer -----------------------------
(***************************************************************************)
(* The DHCPv4 server of a hotspot (sharing/dhcp_server.rs) and the clients *)
(* it serves.                                                              *)
(*                                                                         *)
(* Every StartHotspot spawns a server thread with a lease table of its     *)
(* own.  The manager drops the handle, so a thread runs until the daemon   *)
(* ends, and a second start leaves two servers on one interface: both bind *)
(* port 67 with SO_REUSEADDR and both hear every broadcast.  Packets are   *)
(* broadcast in both directions and may be lost, duplicated or reordered:  *)
(* a packet once sent may be received at any later time, or never.         *)
(***************************************************************************)
EXTENDS Integers

CONSTANTS
  Macs,      \* hardware addresses of the clients
  Servers,   \* server threads that may be started, over all daemon runs
  PoolStart, \* cfg.pool_start and cfg.pool_end, as u32
  PoolEnd,
  None

Pool == PoolStart..PoolEnd

ASSUME PoolAssumption ==
  /\ PoolStart \in Nat /\ PoolEnd \in Nat
  /\ PoolStart <= PoolEnd
  /\ None \notin Pool

VARIABLES
  status,    \* [Servers -> {"new", "running", "ended"}]
  byMac,     \* LeaseTable.by_mac of each server
  next,      \* LeaseTable.next_candidate of each server
  requests,  \* packets the clients have sent
  replies,   \* packets the servers have sent
  wanted,    \* the address each client asked for last
  bound      \* the address each client uses, and the server that acknowledged it

dhcpVars == <<status, byMac, next, requests, replies, wanted, bound>>

Discovers == [type: {"DISCOVER"}, mac: Macs]
Requests  == [type: {"REQUEST"}, mac: Macs, ip: Pool]
Replies   == [type: {"OFFER", "ACK", "NAK"}, mac: Macs, ip: Pool, from: Servers]
Unbound   == [ip |-> None, from |-> None]

\* next is at most one past the pool, so that neither the subtraction nor the
\* increment of allocate leaves the range of u32 (for PoolEnd < 2^32 - 1).
DhcpTypeOK ==
  /\ status \in [Servers -> {"new", "running", "ended"}]
  /\ byMac \in [Servers -> [Macs -> Pool \cup {None}]]
  /\ next \in [Servers -> PoolStart..(PoolEnd + 1)]
  /\ requests \subseteq (Discovers \cup Requests)
  /\ replies \subseteq Replies
  /\ wanted \in [Macs -> Pool \cup {None}]
  /\ bound \in [Macs -> [ip: Pool, from: Servers] \cup {Unbound}]
-----------------------------------------------------------------------------
\* LeaseTable::allocate.

Taken(s) == {byMac[s][m] : m \in Macs}

\* Faulty variant: a pool one address short, wrapping too early.
CandidateShort(from, k) ==
  PoolStart + ((from - PoolStart + k) % (PoolEnd - PoolStart))

\* The candidate of the k-th round of the loop, counted from 0: each round
\* starts behind the candidate of the one before and wraps at the pool's end.
Candidate(from, k) ==
  PoolStart + ((from - PoolStart + k) % (PoolEnd - PoolStart + 1))

\* Faulty variant: does not look whether the candidate is taken.
AllocatesTaken(s, addr) ==
  \E k \in 0..(PoolEnd - PoolStart) : addr = Candidate(next[s], k)

\* addr is the candidate of the first round that finds a free one.
Allocates(s, addr) ==
  \E k \in 0..(PoolEnd - PoolStart) :
    /\ addr = Candidate(next[s], k) /\ addr \notin Taken(s)
    /\ \A j \in 0..(k - 1) : Candidate(next[s], j) \in Taken(s)

\* Every round found its candidate taken.
Exhausted(s) ==
  \A k \in 0..(PoolEnd - PoolStart) : Candidate(next[s], k) \in Taken(s)

\* Faulty variant: next_candidate is not wrapped.
AfterRoundsUnwrapped(s) == next[s] + PoolEnd - PoolStart + 1

\* Where a loop that found nothing leaves next_candidate.
AfterRounds(s) == Candidate(next[s], PoolEnd - PoolStart) + 1

\* The loop itself: what it has found and next_candidate, round by round.
Loop(taken, from) ==
  LET round[k \in 0..(PoolEnd - PoolStart + 1)] ==
        LET last      == round[k - 1]
            candidate == PoolStart + ((last.next - PoolStart) % (PoolEnd - PoolStart + 1))
        IN  IF k = 0 THEN [addr |-> None, next |-> from]
            ELSE IF last.addr # None THEN last
            ELSE [addr |-> IF candidate \in taken THEN None ELSE candidate,
                  next |-> candidate + 1]
  IN  round[PoolEnd - PoolStart + 1]
-----------------------------------------------------------------------------
\* The server thread.

Start(s) ==
  /\ status[s] = "new"
  /\ status' = [status EXCEPT ![s] = "running"]
  /\ UNCHANGED <<byMac, next, requests, replies, wanted, bound>>

\* The daemon ends, and its threads with it.
EndAll ==
  /\ \E s \in Servers : status[s] = "running"
  /\ status' = [s \in Servers |-> IF status[s] = "running" THEN "ended" ELSE status[s]]
  /\ UNCHANGED <<byMac, next, requests, replies, wanted, bound>>

Reply(s, type, m, ip) ==
  replies' = replies \cup {[type |-> type, mac |-> m, ip |-> ip, from |-> s]}

HandleDiscover(s, m) ==
  /\ status[s] = "running"
  /\ [type |-> "DISCOVER", mac |-> m] \in requests
  /\ \/ /\ byMac[s][m] # None
        /\ Reply(s, "OFFER", m, byMac[s][m])
        /\ UNCHANGED <<byMac, next>>
     \/ /\ byMac[s][m] = None
        /\ \E addr \in Pool :
             /\ Allocates(s, addr)
             /\ byMac' = [byMac EXCEPT ![s][m] = addr]
             /\ next' = [next EXCEPT ![s] = addr + 1]
             /\ Reply(s, "OFFER", m, addr)
     \/ /\ byMac[s][m] = None /\ Exhausted(s)
        /\ next' = [next EXCEPT ![s] = AfterRounds(s)]
        /\ UNCHANGED <<byMac, replies>>
  /\ UNCHANGED <<status, requests, wanted, bound>>

\* Faulty variant: gives the client whatever address it asks for.
HandleRequestObeys(s, m, ip) ==
  /\ status[s] = "running"
  /\ [type |-> "REQUEST", mac |-> m, ip |-> ip] \in requests
  /\ byMac' = [byMac EXCEPT ![s][m] = ip]
  /\ Reply(s, "ACK", m, ip)
  /\ UNCHANGED <<status, next, requests, wanted, bound>>

\* An address the server did not lease to the client is refused, whether or not
\* it lies in the pool; the model asks for addresses of the pool only.
HandleRequest(s, m, ip) ==
  /\ status[s] = "running"
  /\ [type |-> "REQUEST", mac |-> m, ip |-> ip] \in requests
  /\ Reply(s, IF byMac[s][m] = ip THEN "ACK" ELSE "NAK", m, ip)
  /\ UNCHANGED <<status, byMac, next, requests, wanted, bound>>
-----------------------------------------------------------------------------
\* The clients, which are not part of the repository: they discover, request
\* an offered address or renew their own, and obey the answers.

Discover(m) ==
  /\ requests' = requests \cup {[type |-> "DISCOVER", mac |-> m]}
  /\ UNCHANGED <<status, byMac, next, replies, wanted, bound>>

RequestAddress(m, ip) ==
  /\ \/ \E s \in Servers :
          [type |-> "OFFER", mac |-> m, ip |-> ip, from |-> s] \in replies
     \/ bound[m].ip = ip
  /\ requests' = requests \cup {[type |-> "REQUEST", mac |-> m, ip |-> ip]}
  /\ wanted' = [wanted EXCEPT ![m] = ip]
  /\ UNCHANGED <<status, byMac, next, replies, bound>>

ReceiveAck(m, s) ==
  /\ wanted[m] # None
  /\ [type |-> "ACK", mac |-> m, ip |-> wanted[m], from |-> s] \in replies
  /\ bound' = [bound EXCEPT ![m] = [ip |-> wanted[m], from |-> s]]
  /\ UNCHANGED <<status, byMac, next, requests, replies, wanted>>

ReceiveNak(m, s) ==
  /\ wanted[m] # None
  /\ [type |-> "NAK", mac |-> m, ip |-> wanted[m], from |-> s] \in replies
  /\ bound' = [bound EXCEPT ![m] = Unbound]
  /\ wanted' = [wanted EXCEPT ![m] = None]
  /\ UNCHANGED <<status, byMac, next, requests, replies>>
-----------------------------------------------------------------------------
DhcpInit ==
  /\ status = [s \in Servers |-> "new"]
  /\ byMac = [s \in Servers |-> [m \in Macs |-> None]]
  /\ next = [s \in Servers |-> PoolStart]
  /\ requests = {}
  /\ replies = {}
  /\ wanted = [m \in Macs |-> None]
  /\ bound = [m \in Macs |-> Unbound]

Server ==
  \/ \E s \in Servers : Start(s)
  \/ EndAll
  \/ \E s \in Servers, m \in Macs : HandleDiscover(s, m)
  \/ \E s \in Servers, m \in Macs, ip \in Pool : HandleRequest(s, m, ip)

Client ==
  \/ \E m \in Macs : Discover(m)
  \/ \E m \in Macs, ip \in Pool : RequestAddress(m, ip)
  \/ \E m \in Macs, s \in Servers : ReceiveAck(m, s) \/ ReceiveNak(m, s)

DhcpNext == Server \/ Client

DhcpSpec == DhcpInit /\ [][DhcpNext]_dhcpVars
-----------------------------------------------------------------------------
\* Two clients that were acknowledged by the same server never use the same
\* address, whatever packets are lost, repeated or late: LeaseTable::allocate
\* hands out free addresses only, and run() acknowledges only what the table
\* holds.
NoAddressShared ==
  \A m, n \in Macs :
    /\ m # n /\ bound[m] # Unbound
    => bound[m] # bound[n]

\* A server that knows a client keeps its address for it: a repeated or late
\* packet never moves a lease (by_mac entries are only ever added).
LeaseStable ==
  [][\A s \in Servers, m \in Macs :
       byMac[s][m] # None => byMac'[s][m] = byMac[s][m]]_dhcpVars

\* As long as some address of the pool is free, a DISCOVER is answered by an
\* OFFER: the loop of allocate meets every address, wherever it starts.
ServesWhileFree == \A s \in Servers : Exhausted(s) => Pool \subseteq Taken(s)

\* The closed form that the server uses finds what the loop of allocate finds,
\* and leaves next_candidate where the loop leaves it.
AllocateIsLoop ==
  \A s \in Servers :
    LET result == Loop(Taken(s), next[s]) IN
    /\ \A addr \in Pool :
         Allocates(s, addr) <=> result = [addr |-> addr, next |-> addr + 1]
    /\ Exhausted(s) <=> result = [addr |-> None, next |-> AfterRounds(s)]
=============================================================================
