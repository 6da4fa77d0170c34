--------------------------------- MODULE Ipc ---------------------------------
(***************************************************************************)
(* The IPC layer: the accepting thread, and per connection a handler       *)
(* thread and an event thread that share the socket behind a lock          *)
(* (ipc/server.rs), the manager's side of the command channel and its      *)
(* event bus (manager/manager.rs, manager/events.rs), and the client       *)
(* library (ipc/client.rs).                                                *)
(*                                                                         *)
(* A connection is used once: k runs from connect() to the end of its      *)
(* handler.  Events are numbered in the order they are broadcast, and a    *)
(* request is named by its kind, the only part of it the layer looks at.   *)
(* The manager's reaction to a request is modelled in NetworkManager; here *)
(* it executes the request, may broadcast, and replies.  The throttle of   *)
(* request_loop only delays a step and so is not visible.                  *)
(***************************************************************************)
EXTENDS Integers, Sequences, FiniteSets, Filters

CONSTANTS
  Conns,            \* connections that clients may open
  Peer,             \* [Conns -> {"root", "netdev", "user"}], from SO_PEERCRED
  Requests,         \* the kinds of request the clients send
  MaxConnections,   \* MAX_CONNECTIONS of the server
  SockCap,          \* messages a socket holds before a write blocks
  MaxEvents,        \* bound: events broadcast
  MaxCalls,         \* bound: [Conns -> calls a connection makes]
  Readers           \* connections whose client keeps reading its socket

ASSUME ConnsAssumption == IsFiniteSet(Conns) /\ "none" \notin Conns
ASSUME MaxAssumption == MaxConnections \in Nat /\ MaxEvents \in Nat

VARIABLES
  conn,       \* the client's end: "none", "open" or "closed"
  call,       \* the request a client waits for, or NoCall
  calls,      \* number of calls a client has made
  answer,     \* what the last call returned
  inbox,      \* requests written and not yet read by the server
  sock,       \* messages the server has written and the client not yet read
  backlog,    \* connections not yet accepted
  claim,      \* serve: the accepted connection and fetch_add's result, or NoClaim
  active,     \* active_connections
  hpc,        \* control state of the handler threads
  resp,       \* the response a handler has in hand
  epc,        \* control state of the event threads
  hand,       \* the event an event thread has taken from its queue
  lock,       \* the mutex around each connection's writer
  cmds,       \* the manager's command channel
  bus,        \* EventBus.clients; ids are never reused and a connection
              \* registers once, so the connection stands for its id
  joined,     \* connections whose registration the manager has answered
  reply,      \* the reply channel of a request
  evq,        \* the event channel of a registration
  sent,       \* number of events broadcast
  outcome,    \* what became of the request the client waits for
  executed,   \* number of requests the manager has executed
  seen        \* number of the last event a client has read

client  == <<conn, call, calls, answer, inbox>>
server  == <<backlog, claim, active>>
replies == <<resp, reply, outcome>>
events  == <<epc, hand, evq>>
socket  == <<sock, lock>>
manager == <<bus, joined, sent, executed>>
vars    == <<client, server, hpc, replies, events, socket, cmds, manager, seen>>

NoCall  == "NoCall"
NoClaim == [conn |-> "none", prior |-> 0]
None    == "None"
Fate    == {None, "Done", "Denied"}

Malformed == "Malformed"    \* a frame that read_message cannot decode

ASSUME RequestsAssumption == NoCall \notin Requests

Register(k)   == [type |-> "Register", conn |-> k]
Unregister(k) == [type |-> "Unregister", conn |-> k]
Request(k, r) == [type |-> "Request", conn |-> k, req |-> r]
Response(f)   == [type |-> "Response", fate |-> f]
Event(n)      == [type |-> "Event", n |-> n]

\* The messages a server writes: ServerMessage::Response and ServerMessage::Event.
Responses     == {Response(f) : f \in Fate}
EventMessages == {Event(n) : n \in 1 .. MaxEvents}
-----------------------------------------------------------------------------
\* Which capability a request needs, and who has it.

ViewRequests ==
  {"GetState", "ListDevices", "GetDevice", "ListConnections", "GetConnection",
   "ListWifiNetworks", "GetConnectivity", "ListBluetoothDevices",
   "GetProxyConfig", "ResolveProxy", "Diagnose"}

\* The seven Manage... capabilities are granted alike and are one here.
required_capability(r) ==
  CASE r \in ViewRequests -> "ViewState"
    [] r = "Reload" -> "Admin"
    [] OTHER -> "Manage"

\* Faulty variant: being in the group is enough for Admin requests too.
CheckGroupOnly(peer, capability) ==
  \/ capability = "ViewState"
  \/ peer \in {"root", "netdev"}

policy_check(peer, capability) ==
  \/ capability = "ViewState"
  \/ capability = "Manage" /\ peer \in {"root", "netdev"}
  \/ capability = "Admin" /\ peer = "root"
-----------------------------------------------------------------------------
Init ==
  /\ conn = [k \in Conns |-> "none"]
  /\ call = [k \in Conns |-> NoCall]
  /\ calls = [k \in Conns |-> 0]
  /\ answer = [k \in Conns |-> None]
  /\ inbox = [k \in Conns |-> <<>>]
  /\ sock = [k \in Conns |-> <<>>]
  /\ backlog = <<>>
  /\ claim = NoClaim
  /\ active = 0
  /\ hpc = [k \in Conns |-> "none"]
  /\ resp = [k \in Conns |-> None]
  /\ epc = [k \in Conns |-> "none"]
  /\ hand = [k \in Conns |-> 0]
  /\ lock = [k \in Conns |-> "free"]
  /\ cmds = <<>>
  /\ bus = {}
  /\ joined = {}
  /\ reply = [k \in Conns |-> None]
  /\ evq = [k \in Conns |-> <<>>]
  /\ sent = 0
  /\ outcome = [k \in Conns |-> None]
  /\ executed = 0
  /\ seen = [k \in Conns |-> 0]
-----------------------------------------------------------------------------
\* The client library.

Waiting(k) == call[k] # NoCall

Connect(k) ==
  /\ conn[k] = "none"
  /\ conn' = [conn EXCEPT ![k] = "open"]
  /\ backlog' = Append(backlog, k)
  /\ UNCHANGED <<call, calls, answer, inbox, claim, active, hpc, replies,
                 events, socket, cmds, manager, seen>>

\* Client::request writes one request and then waits; it can do so before the
\* server has accepted the connection.
CallServer(k, r) ==
  /\ conn[k] = "open" /\ ~Waiting(k) /\ calls[k] < MaxCalls[k]
  /\ call' = [call EXCEPT ![k] = r]
  /\ calls' = [calls EXCEPT ![k] = @ + 1]
  /\ inbox' = [inbox EXCEPT ![k] = Append(@, r)]
  /\ UNCHANGED <<conn, answer, server, hpc, replies, events, socket, cmds,
                 manager, seen>>

\* request() returns the first response it reads and passes over the events in
\* front of it; next_event() returns events.
ReadMessage(k) ==
  /\ conn[k] = "open" /\ sock[k] # <<>>
  /\ sock' = [sock EXCEPT ![k] = Tail(@)]
  /\ \/ /\ Head(sock[k]).type = "Event"
        /\ seen' = [seen EXCEPT ![k] = Head(sock[k]).n]
        /\ UNCHANGED <<call, answer, outcome>>
     \/ /\ Head(sock[k]).type = "Response"
        /\ call' = [call EXCEPT ![k] = NoCall]
        /\ answer' = [answer EXCEPT ![k] = Head(sock[k]).fate]
        /\ outcome' = [outcome EXCEPT ![k] = None]
        /\ UNCHANGED seen
  /\ UNCHANGED <<conn, calls, inbox, server, hpc, resp, reply, events, lock,
                 cmds, manager>>

\* The server has let go of its end of the connection.
ServerGone(k) ==
  /\ hpc[k] = "none" /\ claim.conn # k
  /\ \A i \in DOMAIN backlog : backlog[i] # k

\* A client goes away, of its own will or because it has read end-of-file.
Close(k) ==
  /\ conn[k] = "open"
  /\ conn' = [conn EXCEPT ![k] = "closed"]
  /\ UNCHANGED <<call, calls, answer, inbox, server, hpc, replies, events,
                 socket, cmds, manager, seen>>

ReadEof(k) == ServerGone(k) /\ sock[k] = <<>> /\ Close(k)
-----------------------------------------------------------------------------
\* serve: the accepting thread.

Accept ==
  /\ claim = NoClaim /\ backlog # <<>>
  /\ claim' = [conn |-> Head(backlog), prior |-> active]
  /\ backlog' = Tail(backlog)
  /\ active' = active + 1
  /\ UNCHANGED <<client, hpc, replies, events, socket, cmds, manager, seen>>

\* Faulty variant: keeps the slot it has claimed.
RefuseKeepsSlot ==
  /\ claim # NoClaim
  /\ claim' = NoClaim
  /\ UNCHANGED <<client, backlog, active, hpc, replies, events, socket, cmds,
                 manager, seen>>

\* Over the cap, or the thread cannot be spawned: the stream is dropped.
Refuse ==
  /\ claim # NoClaim
  /\ claim' = NoClaim
  /\ active' = active - 1
  /\ UNCHANGED <<client, backlog, hpc, replies, events, socket, cmds, manager,
                 seen>>

Spawn ==
  /\ claim # NoClaim /\ claim.prior < MaxConnections
  /\ hpc' = [hpc EXCEPT ![claim.conn] = "start"]
  /\ claim' = NoClaim
  /\ UNCHANGED <<client, backlog, active, replies, events, socket, cmds,
                 manager, seen>>
-----------------------------------------------------------------------------
\* handle_connection and request_loop: the handler thread of a connection.

Start(k) ==
  /\ hpc[k] = "start"
  /\ hpc' = [hpc EXCEPT ![k] = "register"]
  /\ cmds' = Append(cmds, Register(k))
  /\ UNCHANGED <<client, server, replies, events, socket, manager, seen>>

\* Faulty variant: the slot is given back by hand and again by its guard.
StartFailsTwice(k) ==
  /\ hpc[k] = "start"
  /\ hpc' = [hpc EXCEPT ![k] = "none"]
  /\ active' = active - 2
  /\ UNCHANGED <<client, backlog, claim, replies, events, socket, cmds,
                 manager, seen>>

\* peer_identity or try_clone fails: the thread ends and drops its slot.
StartFails(k) ==
  /\ hpc[k] = "start"
  /\ hpc' = [hpc EXCEPT ![k] = "none"]
  /\ active' = active - 1
  /\ UNCHANGED <<client, backlog, claim, replies, events, socket, cmds,
                 manager, seen>>

Registered(k) ==
  /\ hpc[k] = "register" /\ k \in joined
  /\ hpc' = [hpc EXCEPT ![k] = "read"]
  /\ epc' = [epc EXCEPT ![k] = "recv"]
  /\ UNCHANGED <<client, server, replies, hand, evq, socket, cmds, manager,
                 seen>>

\* request_loop has returned: the end of handle_connection up to the join.
\* Faulty variant: the registration is left behind.
LeaveRegistered(k) ==
  /\ hpc' = [hpc EXCEPT ![k] = "join"]
  /\ UNCHANGED cmds

Leave(k) ==
  /\ hpc' = [hpc EXCEPT ![k] = "join"]
  /\ cmds' = Append(cmds, Unregister(k))

\* What the client wrote before it closed is still read.
ReadRequest(k) ==
  /\ hpc[k] = "read" /\ inbox[k] # <<>> /\ Head(inbox[k]) # Malformed
  /\ inbox' = [inbox EXCEPT ![k] = Tail(@)]
  /\ LET r == Head(inbox[k]) IN
       \/ /\ policy_check(Peer[k], required_capability(r))
          /\ cmds' = Append(cmds, Request(k, r))
          /\ hpc' = [hpc EXCEPT ![k] = "ask"]
          /\ UNCHANGED <<resp, outcome>>
       \/ /\ ~policy_check(Peer[k], required_capability(r))
          /\ resp' = [resp EXCEPT ![k] = "Denied"]
          /\ outcome' = [outcome EXCEPT ![k] = "Denied"]
          /\ hpc' = [hpc EXCEPT ![k] = "answer"]
          /\ UNCHANGED cmds
  /\ UNCHANGED <<conn, call, calls, answer, server, reply, events, socket,
                 manager, seen>>

ReadFails(k) ==
  /\ hpc[k] = "read"
  /\ \/ inbox[k] = <<>> /\ conn[k] = "closed"
     \/ inbox[k] # <<>> /\ Head(inbox[k]) = Malformed
  /\ Leave(k)
  /\ UNCHANGED <<client, server, replies, events, socket, manager, seen>>

TakeReply(k) ==
  /\ hpc[k] = "ask" /\ reply[k] # None
  /\ resp' = [resp EXCEPT ![k] = reply[k]]
  /\ reply' = [reply EXCEPT ![k] = None]
  /\ hpc' = [hpc EXCEPT ![k] = "answer"]
  /\ UNCHANGED <<client, server, outcome, events, socket, cmds, manager, seen>>

\* Faulty variant: the response is written without the writer's lock.
LockUnguarded(k) ==
  /\ hpc[k] = "answer"
  /\ lock' = [lock EXCEPT ![k] = "handler"]
  /\ hpc' = [hpc EXCEPT ![k] = "write"]
  /\ UNCHANGED <<client, server, replies, events, sock, cmds, manager, seen>>

LockWriter(k) ==
  /\ hpc[k] = "answer" /\ lock[k] = "free"
  /\ lock' = [lock EXCEPT ![k] = "handler"]
  /\ hpc' = [hpc EXCEPT ![k] = "write"]
  /\ UNCHANGED <<client, server, replies, events, sock, cmds, manager, seen>>

\* write_all blocks while the socket is full and its other end is open.
WriteResponse(k) ==
  /\ hpc[k] = "write" /\ conn[k] = "open" /\ Len(sock[k]) < SockCap
  /\ sock' = [sock EXCEPT ![k] = Append(@, Response(resp[k]))]
  /\ resp' = [resp EXCEPT ![k] = None]
  /\ lock' = [lock EXCEPT ![k] = "free"]
  /\ hpc' = [hpc EXCEPT ![k] = "read"]
  /\ UNCHANGED <<client, server, reply, outcome, events, cmds, manager, seen>>

\* The client has closed, or an executed request's response is longer than
\* MAX_MESSAGE_LEN: the error leaves request_loop.
WriteFails(k) ==
  /\ hpc[k] = "write" /\ (conn[k] = "closed" \/ resp[k] = "Done")
  /\ Leave(k)
  /\ resp' = [resp EXCEPT ![k] = None]
  /\ lock' = [lock EXCEPT ![k] = "free"]
  /\ UNCHANGED <<client, server, reply, outcome, events, sock, manager, seen>>

\* event_thread.join() returns and ConnectionSlot is dropped.
Join(k) ==
  /\ hpc[k] = "join" /\ epc[k] = "none"
  /\ hpc' = [hpc EXCEPT ![k] = "none"]
  /\ active' = active - 1
  /\ UNCHANGED <<client, backlog, claim, replies, events, socket, cmds,
                 manager, seen>>
-----------------------------------------------------------------------------
\* handle_connection: the event thread of a connection.

ReceiveEvent(k) ==
  /\ epc[k] = "recv" /\ evq[k] # <<>>
  /\ hand' = [hand EXCEPT ![k] = Head(evq[k])]
  /\ evq' = [evq EXCEPT ![k] = Tail(@)]
  /\ epc' = [epc EXCEPT ![k] = "lock"]
  /\ UNCHANGED <<client, server, hpc, replies, socket, cmds, manager, seen>>

\* The iterator ends once the bus has dropped the sender and the queue is empty.
EventsEnd(k) ==
  /\ epc[k] = "recv" /\ evq[k] = <<>> /\ k \notin bus
  /\ epc' = [epc EXCEPT ![k] = "none"]
  /\ UNCHANGED <<client, server, hpc, replies, hand, evq, socket, cmds,
                 manager, seen>>

LockEventWriter(k) ==
  /\ epc[k] = "lock" /\ lock[k] = "free"
  /\ lock' = [lock EXCEPT ![k] = "events"]
  /\ epc' = [epc EXCEPT ![k] = "write"]
  /\ UNCHANGED <<client, server, hpc, replies, hand, evq, sock, cmds, manager,
                 seen>>

WriteEvent(k) ==
  /\ epc[k] = "write" /\ conn[k] = "open" /\ Len(sock[k]) < SockCap
  /\ sock' = [sock EXCEPT ![k] = Append(@, Event(hand[k]))]
  /\ hand' = [hand EXCEPT ![k] = 0]
  /\ lock' = [lock EXCEPT ![k] = "free"]
  /\ epc' = [epc EXCEPT ![k] = "recv"]
  /\ UNCHANGED <<client, server, hpc, replies, evq, cmds, manager, seen>>

\* The thread ends and takes the receiving end of its queue with it.
WriteEventFails(k) ==
  /\ epc[k] = "write" /\ conn[k] = "closed"
  /\ hand' = [hand EXCEPT ![k] = 0]
  /\ evq' = [evq EXCEPT ![k] = <<>>]
  /\ lock' = [lock EXCEPT ![k] = "free"]
  /\ epc' = [epc EXCEPT ![k] = "none"]
  /\ UNCHANGED <<client, server, hpc, replies, sock, cmds, manager, seen>>
-----------------------------------------------------------------------------
\* The manager thread: one command at a time, in the order of the channel.

\* seen is the client's count of events, from the point where it joined.
HandleRegister ==
  /\ cmds # <<>> /\ Head(cmds).type = "Register"
  /\ LET k == Head(cmds).conn IN
       /\ bus' = bus \cup {k}
       /\ joined' = joined \cup {k}
       /\ seen' = [seen EXCEPT ![k] = sent]
  /\ cmds' = Tail(cmds)
  /\ UNCHANGED <<client, server, hpc, replies, events, socket, sent, executed>>

HandleUnregister ==
  /\ cmds # <<>> /\ Head(cmds).type = "Unregister"
  /\ bus' = bus \ {Head(cmds).conn}
  /\ cmds' = Tail(cmds)
  /\ UNCHANGED <<client, server, hpc, replies, events, socket, joined, sent,
                 executed, seen>>

HandleRequest ==
  /\ cmds # <<>> /\ Head(cmds).type = "Request"
  /\ LET k == Head(cmds).conn IN
       /\ reply' = [reply EXCEPT ![k] = "Done"]
       /\ outcome' = [outcome EXCEPT ![k] = "Done"]
  /\ executed' = executed + 1
  /\ cmds' = Tail(cmds)
  /\ UNCHANGED <<client, server, hpc, resp, events, socket, bus, joined, sent,
                 seen>>

\* The receiver is in the registration's reply until the event thread has it.
Receiving(k) == epc[k] # "none" \/ hpc[k] = "register"

\* Faulty variant: a client that lags behind is passed over.
BroadcastToIdle ==
  /\ sent < MaxEvents
  /\ sent' = sent + 1
  /\ evq' = [k \in Conns |-> IF k \in bus /\ Receiving(k) /\ epc[k] # "lock"
                              THEN Append(evq[k], sent + 1) ELSE evq[k]]
  /\ bus' = {k \in bus : Receiving(k)}
  /\ UNCHANGED <<client, server, hpc, replies, epc, hand, socket, cmds,
                 joined, executed, seen>>

\* EventBus::broadcast, from a hotplug, a tick or the middle of a request: a
\* request's events are broadcast before its reply, so they are steps of their
\* own here.  A client whose receiver is gone is dropped from the bus.
Broadcast ==
  /\ sent < MaxEvents
  /\ sent' = sent + 1
  /\ evq' = [k \in Conns |-> IF k \in bus /\ Receiving(k)
                              THEN Append(evq[k], sent + 1) ELSE evq[k]]
  /\ bus' = {k \in bus : Receiving(k)}
  /\ UNCHANGED <<client, server, hpc, replies, epc, hand, socket, cmds,
                 joined, executed, seen>>
-----------------------------------------------------------------------------
\* All connections have been made and are over.
Done ==
  /\ \A k \in Conns : conn[k] = "closed" /\ ServerGone(k)
  /\ cmds = <<>>
  /\ UNCHANGED vars

Client(k)  == Connect(k) \/ Close(k) \/ \E r \in Requests : CallServer(k, r)
Read(k)    == ReadMessage(k) \/ ReadEof(k)
Serve      == Accept \/ Refuse \/ Spawn
Handler(k) == \/ Start(k) \/ StartFails(k) \/ Registered(k) \/ ReadRequest(k)
              \/ ReadFails(k) \/ TakeReply(k) \/ LockWriter(k) \/ WriteResponse(k)
              \/ WriteFails(k) \/ Join(k)
Events(k)  == \/ ReceiveEvent(k) \/ EventsEnd(k) \/ LockEventWriter(k)
              \/ WriteEvent(k) \/ WriteEventFails(k)
Manager    == HandleRegister \/ HandleUnregister \/ HandleRequest

Next ==
  \/ Serve \/ Manager \/ Broadcast \/ Done
  \/ \E k \in Conns : Client(k) \/ Read(k) \/ Handler(k) \/ Events(k)

\* Every thread of the daemon runs; only the clients in Readers keep reading,
\* and none has to connect, call or close.
Spec ==
  /\ Init /\ [][Next]_vars
  /\ WF_vars(Serve) /\ WF_vars(Manager)
  /\ \A k \in Conns : WF_vars(Handler(k)) /\ WF_vars(Events(k))
  /\ \A k \in Readers : WF_vars(Read(k))
-----------------------------------------------------------------------------
\* Properties.

\* Each variable has its type; commands on the channel name a connection.
TypeOK ==
  /\ conn \in [Conns -> {"none", "open", "closed"}]
  /\ call \in [Conns -> Requests \cup {NoCall}]
  /\ calls \in [Conns -> Nat]
  /\ answer \in [Conns -> Fate] /\ resp \in [Conns -> Fate]
  /\ reply \in [Conns -> Fate] /\ outcome \in [Conns -> Fate]
  /\ inbox \in [Conns -> Seq(Requests)]
  /\ sock \in [Conns -> Seq(Responses \cup EventMessages)]
  /\ backlog \in Seq(Conns)
  /\ claim = NoClaim \/ claim \in [conn : Conns, prior : Nat]
  /\ active \in Nat
  /\ hpc \in [Conns -> {"none", "start", "register", "read", "ask", "answer",
                        "write", "join"}]
  /\ epc \in [Conns -> {"none", "recv", "lock", "write"}]
  /\ hand \in [Conns -> 0 .. MaxEvents]
  /\ lock \in [Conns -> {"free", "handler", "events"}]
  /\ cmds \in Seq({Register(k) : k \in Conns} \cup {Unregister(k) : k \in Conns}
                   \cup {Request(k, r) : k \in Conns, r \in Requests})
  /\ bus \in SUBSET Conns /\ joined \in SUBSET Conns
  /\ evq \in [Conns -> Seq(1 .. MaxEvents)]
  /\ sent \in 0 .. MaxEvents /\ executed \in Nat
  /\ seen \in [Conns -> 0 .. MaxEvents]

\* The counter that serve and ConnectionSlot::drop update from different
\* threads is the number of live handlers plus the accept in progress, and
\* never are more than MaxConnections handlers alive.
Live == {k \in Conns : hpc[k] # "none"}
SlotAccounting ==
  /\ active = Cardinality(Live) + (IF claim = NoClaim THEN 0 ELSE 1)
  /\ Cardinality(Live) <= MaxConnections

\* What a client that is still there has yet to read of the event stream, in
\* its socket, in its event thread's hand and in its queue, continues without
\* a gap from the last event it has read; and as long as the bus knows the
\* client, up to the last event broadcast.
Unread(k) ==
  LET evs == Filter(sock[k], EventMessages)
  IN  [i \in DOMAIN evs |-> evs[i].n]
        \o (IF hand[k] = 0 THEN <<>> ELSE <<hand[k]>>) \o evq[k]
StreamInOrder ==
  \A k \in joined : conn[k] = "open" =>
    /\ \A i \in DOMAIN Unread(k) : Unread(k)[i] = seen[k] + i
    /\ k \in bus => Len(Unread(k)) = sent - seen[k]

\* A registration never outlives its connection unnoticed: once the handler is
\* leaving or gone, the command that removes the registration is on its way.
NoStaleRegistration ==
  \A k \in bus : hpc[k] \in {"none", "join"} =>
    \E i \in DOMAIN cmds : cmds[i] = Unregister(k)

\* A response and an event are never written to a socket at the same time:
\* write_message writes a length and then a body.
WholeFrames == \A k \in Conns : ~(hpc[k] = "write" /\ epc[k] = "write")

\* Anyone may look, members of netdev may manage, root may do everything.
Permitted ==
  {kr \in Conns \X Requests :
     \/ kr[2] \in ViewRequests
     \/ Peer[kr[1]] = "netdev" /\ kr[2] # "Reload"
     \/ Peer[kr[1]] = "root"}

\* The threads, sockets, locks and queues implement IpcService.
Service == INSTANCE IpcService WITH ended <- {k \in Conns : conn[k] = "closed"}
ServiceSpec == Service!Spec

\* The slot of a client that has gone away is given back.
SlotsReturn == \A k \in Conns : conn[k] = "closed" ~> ServerGone(k)

\* A call by a client that keeps reading ends: it is answered, or the
\* connection is over.
Answered == \A k \in Readers : Waiting(k) ~> (~Waiting(k) \/ conn[k] = "closed")
=============================================================================
