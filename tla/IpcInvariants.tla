--------------------------- MODULE IpcInvariants ----------------------------
(***************************************************************************)
(* The inductive invariants of Ipc: where a connection is and which slots  *)
(* are counted, who holds a writer's lock, which registrations are under   *)
(* way, what a client has yet to read of the event stream, and where its   *)
(* one outstanding call is.                                                *)
(***************************************************************************)
EXTENDS Ipc

\* The members of a sequence.
Members(s) == {s[i] : i \in DOMAIN s}

\* Handler threads and their states.
HandlerStates == {"none", "start", "register", "read", "ask", "answer", "write", "join"}

\* What serve and the handlers own: the functions and sequences of the proofs
\* about slots.
SlotTypes ==
  /\ conn \in [Conns -> {"none", "open", "closed"}]
  /\ backlog \in Seq(Conns)
  /\ claim = NoClaim \/ claim \in [conn : Conns, prior : Nat]
  /\ active \in Nat
  /\ hpc \in [Conns -> HandlerStates]

\* A connection the server has not spawned a handler for yet.
Pending(k) == conn[k] = "none" \/ k \in Members(backlog) \/ claim.conn = k

\* A connection is in one place: not connected, once in the backlog, claimed,
\* or with its handler.
OnePlace ==
  /\ \A k \in Conns : Pending(k) => hpc[k] = "none"
  /\ \A i, j \in DOMAIN backlog : backlog[i] = backlog[j] => i = j
  /\ \A k \in Members(backlog) : conn[k] # "none" /\ claim.conn # k
  /\ \A k \in Conns : claim.conn = k => conn[k] # "none"

\* The slots in use; while an accept is in progress, no more handlers live than
\* it counted.
Counted ==
  /\ SlotAccounting
  /\ claim # NoClaim => Cardinality(Live) <= claim.prior

\* Connections and slots (serve).
SlotInv == SlotTypes /\ OnePlace /\ Counted
-----------------------------------------------------------------------------
(* The writer's lock and the registrations *)

\* Who writes holds the lock.
LockInv ==
  /\ hpc \in [Conns -> HandlerStates]
  /\ epc \in [Conns -> {"none", "recv", "lock", "write"}]
  /\ lock \in [Conns -> {"free", "handler", "events"}]
  /\ \A k \in Conns : /\ hpc[k] = "write" => lock[k] = "handler"
                      /\ epc[k] = "write" => lock[k] = "events"

\* What is sent to the manager.
Commands ==
  {Register(k) : k \in Conns} \cup {Unregister(k) : k \in Conns}
    \cup {Request(k, r) : k \in Conns, r \in Requests}

\* A registration is sent once, by a handler that then waits for its answer;
\* who has not got that far is not joined.
RegInv ==
  /\ inbox \in [Conns -> Seq(Requests)]
  /\ cmds \in Seq(Commands)
  /\ joined \subseteq Conns /\ bus \subseteq joined
  /\ \A k \in Conns : Pending(k) \/ hpc[k] = "start" => k \notin joined
  /\ \A k \in Conns : Register(k) \in Members(cmds) => hpc[k] = "register" /\ k \notin joined
  /\ \A k \in Conns, i, j \in DOMAIN cmds :
       cmds[i] = Register(k) /\ cmds[j] = Register(k) => i = j
  /\ \A k \in bus : hpc[k] \in {"none", "join"} => Unregister(k) \in Members(cmds)
-----------------------------------------------------------------------------
(* The event stream *)

\* What is written to a socket.
Messages == Responses \cup EventMessages

\* What a client that last saw event s has yet to read: the events evs in its
\* socket, h in its event thread's hand (0 for none) and q in its queue.
Written(evs, s) == s + Len(evs)
Taken(evs, h, s) == Written(evs, s) + (IF h = 0 THEN 0 ELSE 1)
Last(evs, h, q, s) == Taken(evs, h, s) + Len(q)
Ordered(evs, h, q, s) ==
  /\ \A i \in 1 .. Len(evs) : evs[i] = Event(s + i)
  /\ h # 0 => h = Written(evs, s) + 1
  /\ \A i \in 1 .. Len(q) : q[i] = Taken(evs, h, s) + i

\* The events in the socket.
UnreadEvents(k) == Filter(sock[k], EventMessages)

\* The numbers of events.
Number == 1 .. MaxEvents

\* What events pass through.
StreamTypes ==
  /\ sock \in [Conns -> Seq(Messages)]
  /\ hand \in [Conns -> 0 .. MaxEvents]
  /\ evq \in [Conns -> Seq(Number)]
  /\ sent \in 0 .. MaxEvents
  /\ seen \in [Conns -> 0 .. MaxEvents]

\* What belongs to the calls of the clients.
CallTypes ==
  /\ call \in [Conns -> Requests \cup {NoCall}]
  /\ calls \in [Conns -> Nat]
  /\ answer \in [Conns -> Fate] /\ resp \in [Conns -> Fate]
  /\ reply \in [Conns -> Fate] /\ outcome \in [Conns -> Fate]
  /\ executed \in Nat

\* The stream of a connection begins with its registration; a client on the bus
\* whose connection is open has an event thread, or will have one, that takes
\* its events; and what is under way of them is in order.
Stream(k) ==
  /\ epc[k] \in {"lock", "write"} <=> hand[k] # 0
  /\ hpc[k] \in {"none", "start", "register"} => epc[k] = "none"
  /\ k \notin joined => epc[k] = "none" /\ evq[k] = <<>> /\ UnreadEvents(k) = <<>>
  /\ k \in bus /\ conn[k] = "open" => Receiving(k)
  /\ k \in joined /\ conn[k] = "open" =>
       /\ Ordered(UnreadEvents(k), hand[k], evq[k], seen[k])
       /\ Last(UnreadEvents(k), hand[k], evq[k], seen[k]) <= sent
       /\ k \in bus => Last(UnreadEvents(k), hand[k], evq[k], seen[k]) = sent

\* Every client's stream.
StreamInv == StreamTypes /\ \A k \in Conns : Stream(k)

\* The invariants of the threads, the channels and the stream.
ThreadInv == SlotInv /\ LockInv /\ RegInv /\ CallTypes /\ StreamInv
-----------------------------------------------------------------------------
(* The life of a call *)

\* The requests of k on the command channel, and the responses in its socket.
RequestsOf(k) == {Request(k, r) : r \in Requests}
Asked(k) == Filter(cmds, RequestsOf(k))
UnreadResponses(k) == Filter(sock[k], Responses)

\* The handler is at work on a request.
Busy == {"ask", "answer", "write"}

\* A call is in one place at a time.  c is what the client of k waits for, in
\* the requests the handler has yet to read, h the handler's state, asked the
\* requests of k on the command channel, rep and rsp the reply and the response
\* in hand, written the responses in the socket, out the call's outcome.
OneCall(k, c, in, h, asked, rep, rsp, written, out) ==
  /\ in # <<>> => in = <<c>> /\ c # NoCall /\ out = None /\ h \notin Busy
  /\ asked # <<>> => /\ asked = <<Request(k, c)>> /\ h = "ask" /\ out = None
                     /\ <<k, c>> \in Permitted
  /\ rep # None => h = "ask" /\ rep = out
  /\ h \in {"answer", "write"} => out # None /\ rsp = out
  /\ written # <<>> => written = <<Response(out)>> /\ out # None /\ h \notin Busy
  /\ h \in Busy \/ out # None => c # NoCall

\* Every client's call.
CallOf(k) == OneCall(k, call[k], inbox[k], hpc[k], Asked(k), reply[k], resp[k],
                     UnreadResponses(k), outcome[k])
CallInv == \A k \in Conns : CallOf(k)
=============================================================================
