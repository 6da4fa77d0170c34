-------------------------- MODULE IpcStreamProofs ---------------------------
(***************************************************************************)
(* Locks, registrations and the event stream of Ipc, for any peers,        *)
(* requests, events and socket size: the steps of every thread keep who    *)
(* writes in possession of the lock, a registration before its Unregister, *)
(* and what a subscriber has yet to read in the order of the event         *)
(* history, without a gap.                                                 *)
(***************************************************************************)
EXTENDS IpcInvariants, DataInduction, TLAPS

(* Channels *)

\* Sending on a channel adds what was sent to what is queued (mpsc::Sender::send).
LEMMA MembersAppend ==
  ASSUME NEW S, NEW s \in Seq(S), NEW x
  PROVE  Members(Append(s, x)) = Members(s) \cup {x}
<1>1. DOMAIN Append(s, x) = 1 .. Len(s) + 1 /\ DOMAIN s = 1 .. Len(s) /\ Len(s) \in Nat
  OBVIOUS
<1>2. \A i \in 1 .. Len(s) : Append(s, x)[i] = s[i]
  OBVIOUS
<1>3. Append(s, x)[Len(s) + 1] = x
  OBVIOUS
<1>4. ASSUME NEW y \in Members(Append(s, x)) PROVE y \in Members(s) \cup {x}
  BY <1>1, <1>2, <1>3 DEF Members
<1>5. ASSUME NEW y \in Members(s) \cup {x} PROVE y \in Members(Append(s, x))
  <2>1. CASE y = x
    BY <1>1, <1>3, <2>1 DEF Members
  <2>2. CASE y \in Members(s)
    BY <1>1, <1>2, <2>2 DEF Members
  <2> QED BY <2>1, <2>2
<1> QED BY <1>4, <1>5

\* Receiving takes the first of what is queued and leaves the rest in its order
\* (mpsc::Receiver::recv).
LEMMA MembersTail ==
  ASSUME NEW S, NEW s \in Seq(S), s # <<>>
  PROVE  /\ Tail(s) \in Seq(S) /\ Head(s) \in S
         /\ Len(Tail(s)) = Len(s) - 1 /\ Len(s) \in Nat \ {0}
         /\ \A i \in 1 .. Len(s) - 1 : Tail(s)[i] = s[i + 1]
         /\ Members(s) = Members(Tail(s)) \cup {Head(s)}
<1>1. /\ Tail(s) \in Seq(S) /\ Head(s) \in S /\ Head(s) = s[1]
      /\ Len(Tail(s)) = Len(s) - 1 /\ Len(s) \in Nat \ {0}
      /\ \A i \in 1 .. Len(s) - 1 : Tail(s)[i] = s[i + 1]
      /\ DOMAIN s = 1 .. Len(s) /\ DOMAIN Tail(s) = 1 .. Len(s) - 1
  OBVIOUS
<1>2. ASSUME NEW i \in 1 .. Len(s) PROVE s[i] \in Members(Tail(s)) \cup {Head(s)}
  <2>1. CASE i = 1
    BY <1>1, <2>1
  <2>2. CASE i # 1
    <3>1. i - 1 \in 1 .. Len(s) - 1 /\ s[i] = Tail(s)[i - 1]
      BY <1>1, <2>2
    <3> QED BY <1>1, <3>1, Zenon DEF Members
  <2> QED BY <2>1, <2>2
<1>3. ASSUME NEW i \in 1 .. Len(s) - 1 PROVE Tail(s)[i] \in Members(s)
  BY <1>1 DEF Members
<1> QED BY <1>1, <1>2, <1>3 DEF Members

\* Commands are told apart by their type.
LEMMA CommandKinds ==
  /\ \A k \in Conns : /\ Register(k) \in Commands /\ Register(k).type = "Register"
                      /\ Register(k).conn = k
                      /\ Unregister(k) \in Commands /\ Unregister(k).type = "Unregister"
                      /\ Unregister(k).conn = k
  /\ \A k \in Conns, r \in Requests : Request(k, r) \in Commands /\ Request(k, r).type = "Request"
  /\ \A c \in Commands : /\ c.conn \in Conns
                         /\ c.type = "Register" => c = Register(c.conn)
                         /\ c.type = "Unregister" => c = Unregister(c.conn)
<1>1. ASSUME NEW k \in Conns
      PROVE  /\ Register(k) \in Commands /\ Register(k).type = "Register" /\ Register(k).conn = k
             /\ Unregister(k) \in Commands /\ Unregister(k).type = "Unregister"
             /\ Unregister(k).conn = k
  BY SMTT(30) DEF Commands, Register, Unregister
<1>2. ASSUME NEW k \in Conns, NEW r \in Requests
      PROVE  Request(k, r) \in Commands /\ Request(k, r).type = "Request" /\ Request(k, r).conn = k
  BY DEF Commands, Request
<1>3. ASSUME NEW c \in Commands
      PROVE  /\ c.conn \in Conns
             /\ c.type = "Register" => c = Register(c.conn)
             /\ c.type = "Unregister" => c = Unregister(c.conn)
  <2>1. CASE \E k \in Conns : c = Register(k)
    BY <1>1, <2>1
  <2>2. CASE \E k \in Conns : c = Unregister(k)
    BY <1>1, <2>2
  <2>3. CASE \E k \in Conns, r \in Requests : c = Request(k, r)
    BY <1>2, <2>3
  <2> QED BY <2>1, <2>2, <2>3 DEF Commands
<1> QED BY <1>1, <1>2, <1>3
-----------------------------------------------------------------------------
(* The writer's lock *)

\* The steps of one connection's two threads.
LEMMA LockStep ==
  ASSUME LockInv, NEW k \in Conns, Handler(k) \/ Events(k)
  PROVE  LockInv'
<1>1. CASE Start(k) \/ StartFails(k) \/ ReadRequest(k) \/ ReadFails(k) \/ TakeReply(k) \/ Join(k)
  <2>1. PICK to \in HandlerStates \ {"write"} : hpc' = [hpc EXCEPT ![k] = to]
    BY <1>1, Zenon DEF Start, StartFails, ReadRequest, ReadFails, TakeReply, Join, Leave, HandlerStates
  <2>2. UNCHANGED <<epc, lock>>
    BY <1>1, Zenon DEF Start, StartFails, ReadRequest, ReadFails, TakeReply, Join, events, socket
  <2> QED BY <2>1, <2>2 DEF LockInv
<1>2. CASE Registered(k)
  BY <1>2 DEF Registered, socket, LockInv, HandlerStates
<1>3. CASE LockWriter(k)
  BY <1>3 DEF LockWriter, events, LockInv, HandlerStates
<1>4. CASE WriteResponse(k) \/ WriteFails(k)
  BY <1>4 DEF WriteResponse, WriteFails, Leave, events, LockInv, HandlerStates
<1>5. CASE ReceiveEvent(k) \/ EventsEnd(k)
  BY <1>5 DEF ReceiveEvent, EventsEnd, socket, LockInv
<1>6. CASE LockEventWriter(k)
  BY <1>6 DEF LockEventWriter, LockInv
<1>7. CASE WriteEvent(k) \/ WriteEventFails(k)
  BY <1>7 DEF WriteEvent, WriteEventFails, LockInv
<1> QED BY <1>1, <1>2, <1>3, <1>4, <1>5, <1>6, <1>7 DEF Handler, Events

\* No step of any thread breaks LockInv: who writes to a connection's stream holds
\* its lock (handle_connection, request_loop).
LEMMA LockNext == SlotInv /\ LockInv /\ [Next]_vars => LockInv'
<1> SUFFICES ASSUME SlotInv, LockInv, [Next]_vars PROVE LockInv'
  OBVIOUS
<1>1. CASE Spawn
  <2>1. hpc' = [hpc EXCEPT ![claim.conn] = "start"] /\ UNCHANGED <<epc, lock>>
    BY <1>1 DEF Spawn, events, socket
  <2> QED BY <2>1, Zenon DEF LockInv, HandlerStates
<1>2. ASSUME UNCHANGED <<hpc, epc, lock>> PROVE LockInv'
  BY <1>2 DEF LockInv
<1>3. CASE Accept \/ Refuse \/ Manager \/ Broadcast \/ Done \/ UNCHANGED vars
  <2>1. UNCHANGED <<hpc, epc, lock>>
    BY <1>3 DEF Accept, Refuse, Manager, HandleRegister, HandleUnregister, HandleRequest,
                Broadcast, Done, vars, events, socket
  <2> QED BY <1>2, <2>1
<1>4. ASSUME NEW k \in Conns, Client(k) \/ Read(k) PROVE LockInv'
  <2>1. UNCHANGED <<hpc, epc, lock>>
    BY <1>4, Zenon DEF Client, Read, Connect, Close, CallServer, ReadMessage, ReadEof, events, socket
  <2> QED BY <1>2, <2>1
<1> QED BY <1>1, <1>3, <1>4, LockStep DEF Next, Serve
-----------------------------------------------------------------------------
(* Registrations *)

\* A handler that waits, or works, sends a command that is no registration.
LEMMA SendOther ==
  ASSUME RegInv, NEW c \in Commands, c.type # "Register", cmds' = Append(cmds, c)
  PROVE  /\ cmds' \in Seq(Commands)
         /\ Members(cmds') = Members(cmds) \cup {c}
         /\ \A k \in Conns, i, j \in DOMAIN cmds' :
              cmds'[i] = Register(k) /\ cmds'[j] = Register(k) => i = j
<1>1. cmds \in Seq(Commands) /\ cmds' \in Seq(Commands)
  BY DEF RegInv
<1>2. Members(cmds') = Members(cmds) \cup {c}
  BY <1>1, MembersAppend
<1>3. /\ DOMAIN cmds' = 1 .. Len(cmds) + 1 /\ DOMAIN cmds = 1 .. Len(cmds) /\ Len(cmds) \in Nat
      /\ cmds'[Len(cmds) + 1] = c /\ \A i \in 1 .. Len(cmds) : cmds'[i] = cmds[i]
  BY <1>1
<1>4. ASSUME NEW k \in Conns, NEW i \in DOMAIN cmds', cmds'[i] = Register(k)
      PROVE  i \in DOMAIN cmds /\ cmds[i] = Register(k)
  BY <1>3, <1>4, CommandKinds
<1> QED BY <1>1, <1>2, <1>4, SMTT(30) DEF RegInv

\* The manager takes a command from the channel.
LEMMA TakeCommand ==
  ASSUME RegInv, cmds # <<>>, cmds' = Tail(cmds)
  PROVE  /\ cmds' \in Seq(Commands) /\ Head(cmds) \in Commands
         /\ Members(cmds) = Members(cmds') \cup {Head(cmds)}
         /\ \A k \in Conns, i, j \in DOMAIN cmds' :
              cmds'[i] = Register(k) /\ cmds'[j] = Register(k) => i = j
         /\ \A k \in Conns : Head(cmds) = Register(k) => Register(k) \notin Members(cmds')
<1>1. /\ cmds' \in Seq(Commands) /\ Head(cmds) \in Commands /\ Head(cmds) = cmds[1]
      /\ Members(cmds) = Members(cmds') \cup {Head(cmds)}
      /\ Len(cmds) \in Nat \ {0} /\ DOMAIN cmds = 1 .. Len(cmds)
      /\ DOMAIN cmds' = 1 .. Len(cmds) - 1 /\ \A i \in 1 .. Len(cmds) - 1 : cmds'[i] = cmds[i + 1]
  BY MembersTail DEF RegInv
<1>2. ASSUME NEW i \in DOMAIN cmds'
      PROVE  i \in Int /\ i + 1 \in DOMAIN cmds /\ i + 1 # 1 /\ cmds'[i] = cmds[i + 1]
  BY <1>1
<1>3. 1 \in DOMAIN cmds
  BY <1>1
<1>4. ASSUME NEW k \in Conns, NEW i \in DOMAIN cmds', NEW j \in DOMAIN cmds',
             cmds'[i] = Register(k), cmds'[j] = Register(k)
      PROVE  i = j
  <2>1. i + 1 = j + 1
    BY <1>2, <1>4 DEF RegInv
  <2> QED BY <1>2, <2>1
<1>5. ASSUME NEW k \in Conns, Head(cmds) = Register(k), NEW i \in DOMAIN cmds'
      PROVE  cmds'[i] # Register(k)
  BY <1>1, <1>2, <1>3, <1>5, Zenon DEF RegInv
<1> QED BY <1>1, <1>4, <1>5, Zenon DEF Members

\* A new connection is not joined, nor has it sent a command.
LEMMA RegClient ==
  ASSUME SlotInv, RegInv, NEW k \in Conns, Client(k) \/ Read(k)
  PROVE  RegInv'
<1>1. inbox' \in [Conns -> Seq(Requests)]
  <2>1. inbox' = inbox \/ \E r \in Requests : inbox' = [inbox EXCEPT ![k] = Append(@, r)]
    BY Zenon DEF Client, Read, Connect, Close, CallServer, ReadMessage, ReadEof
  <2>2. inbox \in [Conns -> Seq(Requests)]
    BY DEF RegInv
  <2>3. \A r \in Requests : Append(inbox[k], r) \in Seq(Requests)
    BY <2>2
  <2> QED BY <2>1, <2>2, <2>3, Zenon
<1>2. UNCHANGED <<hpc, cmds, joined, bus, claim>>
  BY Zenon DEF Client, Read, Connect, Close, CallServer, ReadMessage, ReadEof, server, manager
<1>3. \A j \in Conns : Pending(j)' => Pending(j)
  <2>1. CASE Connect(k)
    <3>1. Members(backlog') = Members(backlog) \cup {k} /\ conn[k] = "none"
      BY <2>1, MembersAppend DEF Connect, SlotInv, SlotTypes
    <3> QED BY <1>2, <2>1, <3>1 DEF Connect, Pending, SlotInv, SlotTypes
  <2>2. CASE ~Connect(k)
    <3>1. backlog' = backlog /\ \A j \in Conns : conn'[j] = "none" => conn[j] = "none"
      BY <2>2 DEF Client, Read, Close, CallServer, ReadMessage, ReadEof, server,
                  SlotInv, SlotTypes
    <3> QED BY <1>2, <3>1, Zenon DEF Pending
  <2> QED BY <2>1, <2>2
<1> QED BY <1>1, <1>2, <1>3 DEF RegInv

\* serve: a handler starts for a connection that has not joined.
LEMMA RegServe ==
  ASSUME SlotInv, RegInv, Serve
  PROVE  RegInv'
<1>1. UNCHANGED <<inbox, cmds, joined, bus, conn>>
  BY DEF Serve, Accept, Refuse, Spawn, client, manager
<1>2. \A j \in Conns : Pending(j)' => Pending(j)
  <2>1. CASE Accept
    <3>1. Members(backlog) = Members(backlog') \cup {Head(backlog)} /\ claim'.conn = Head(backlog)
      BY <2>1, MembersTail DEF Accept, SlotInv, SlotTypes
    <3> QED BY <1>1, <3>1 DEF Pending
  <2>2. CASE Refuse \/ Spawn
    <3>1. claim' = NoClaim /\ backlog' = backlog /\ NoClaim.conn \notin Conns
      BY <2>2, ConnsAssumption DEF Refuse, Spawn, NoClaim
    <3> QED BY <1>1, <3>1 DEF Pending
  <2> QED BY <2>1, <2>2 DEF Serve
<1>3. CASE hpc' = hpc
  BY <1>1, <1>2, <1>3 DEF RegInv
<1>4. CASE Spawn
  <2>1. claim.conn \in Conns /\ hpc' = [hpc EXCEPT ![claim.conn] = "start"]
    BY <1>4 DEF Spawn, SlotInv, SlotTypes
  <2>2. Pending(claim.conn) /\ hpc[claim.conn] = "none"
    BY <2>1 DEF Pending, SlotInv, OnePlace
  <2>3. claim.conn \notin joined
    BY <2>1, <2>2 DEF RegInv
  <2> QED BY <1>1, <1>2, <2>1, <2>2, <2>3 DEF RegInv, SlotInv, SlotTypes
<1> QED BY <1>3, <1>4 DEF Serve, Accept, Refuse

\* The manager answers a registration once and drops it when told to.
LEMMA RegManager ==
  ASSUME SlotInv, RegInv, Manager \/ Broadcast
  PROVE  RegInv'
<1>1. UNCHANGED <<inbox, hpc, conn, backlog, claim>>
  BY Zenon DEF Manager, HandleRegister, HandleUnregister, HandleRequest, Broadcast, client, server
<1>2. \A j \in Conns : Pending(j)' <=> Pending(j)
  BY <1>1 DEF Pending, Members
<1>3. CASE Broadcast
  BY <1>1, <1>2, <1>3, Zenon DEF Broadcast, RegInv
<1>4. CASE Manager
  <2> DEFINE c == Head(cmds)
  <2>1. cmds # <<>> /\ cmds' = Tail(cmds)
    BY <1>4, Zenon DEF Manager, HandleRegister, HandleUnregister, HandleRequest
  <2>2. /\ cmds' \in Seq(Commands) /\ c \in Commands /\ Members(cmds) = Members(cmds') \cup {c}
        /\ \A k \in Conns, i, j \in DOMAIN cmds' :
              cmds'[i] = Register(k) /\ cmds'[j] = Register(k) => i = j
        /\ \A k \in Conns : c = Register(k) => Register(k) \notin Members(cmds')
    BY <2>1, TakeCommand, SMTT(30)
  <2>3. CASE HandleRegister
    <3>1. c = Register(c.conn) /\ c.conn \in Conns
      BY <2>2, <2>3, CommandKinds, SMTT(30) DEF HandleRegister
    <3>2. hpc[c.conn] = "register" /\ c.conn \notin joined
      BY <2>2, <3>1 DEF RegInv
    <3>3. bus' = bus \cup {c.conn} /\ joined' = joined \cup {c.conn}
      BY <2>3 DEF HandleRegister
    <3>4. ~Pending(c.conn)
      BY <3>1, <3>2 DEF SlotInv, OnePlace
    <3>5. \A k \in Conns : Unregister(k) \in Members(cmds) => Unregister(k) \in Members(cmds')
      BY <2>2, <3>1, CommandKinds, SMTT(30)
    <3> HIDE DEF c
    <3>6. \A k \in bus' : hpc'[k] \in {"none", "join"} => Unregister(k) \in Members(cmds')
      BY <1>1, <3>1, <3>2, <3>3, <3>5, ZenonT(30) DEF RegInv
    <3>7. \A k \in Conns : Register(k) \in Members(cmds') => hpc'[k] = "register" /\ k \notin joined'
      BY <1>1, <2>2, <3>1, <3>3 DEF RegInv
    <3>8. \A k \in Conns : Pending(k)' \/ hpc'[k] = "start" => k \notin joined'
      BY <1>1, <1>2, <3>2, <3>3, <3>4 DEF RegInv
    <3> QED BY <1>1, <2>2, <3>1, <3>3, <3>6, <3>7, <3>8 DEF RegInv
  <2>4. CASE HandleUnregister
    <3>1. bus' = bus \ {c.conn} /\ joined' = joined /\ c = Unregister(c.conn)
      BY <2>2, <2>4, CommandKinds DEF HandleUnregister
    <3>2. \A k \in Conns : k # c.conn /\ Unregister(k) \in Members(cmds)
                            => Unregister(k) \in Members(cmds')
      BY <2>2, <3>1, CommandKinds
    <3> HIDE DEF c
    <3> QED BY <1>1, <1>2, <2>2, <3>1, <3>2, Zenon DEF RegInv
  <2>5. CASE HandleRequest
    <3>1. bus' = bus /\ joined' = joined /\ c.type = "Request"
      BY <2>5 DEF HandleRequest
    <3>2. \A k \in Conns : Unregister(k) \in Members(cmds) => Unregister(k) \in Members(cmds')
      BY <2>2, <3>1, CommandKinds
    <3> HIDE DEF c
    <3> QED BY <1>1, <1>2, <2>2, <3>1, <3>2, Zenon DEF RegInv
  <2> QED BY <1>4, <2>3, <2>4, <2>5 DEF Manager
<1> QED BY <1>3, <1>4

\* A handler registers before it does anything else, and says that it leaves.
LEMMA RegHandler ==
  ASSUME SlotInv, RegInv, NEW k \in Conns, Handler(k)
  PROVE  RegInv'
<1>1. UNCHANGED <<conn, backlog, claim, joined, bus>>
  BY Zenon DEF Handler, Start, StartFails, Registered, ReadRequest, ReadFails, TakeReply, LockWriter,
         WriteResponse, WriteFails, Join, Leave, client, server, manager
<1>2. \A j \in Conns : Pending(j)' <=> Pending(j)
  BY <1>1 DEF Pending, Members
<1>3. hpc[k] # "none" /\ ~Pending(k)
  BY Zenon DEF Handler, Start, StartFails, Registered, ReadRequest, ReadFails, TakeReply, LockWriter,
         WriteResponse, WriteFails, Join, SlotInv, OnePlace
<1>4. hpc \in [Conns -> HandlerStates]
  BY DEF SlotInv, SlotTypes
<1>5. CASE Start(k)
  <2>1. hpc[k] = "start" /\ hpc' = [hpc EXCEPT ![k] = "register"] /\ inbox' = inbox
        /\ cmds' = Append(cmds, Register(k))
    BY <1>5 DEF Start, client
  <2>2. k \notin joined /\ Register(k) \notin Members(cmds)
    BY <2>1 DEF RegInv
  <2>3. cmds \in Seq(Commands) /\ cmds' \in Seq(Commands)
    <3>1. Register(k) \in Commands
      BY CommandKinds
    <3>2. cmds \in Seq(Commands)
      BY DEF RegInv
    <3> QED
      BY <2>1, <3>1, <3>2
  <2>4. Members(cmds') = Members(cmds) \cup {Register(k)}
    BY <2>1, <2>3, MembersAppend, SMTT(30)
  <2>5. \A j \in Conns, a, b \in DOMAIN cmds' : cmds'[a] = Register(j) /\ cmds'[b] = Register(j) => a = b
    <3>1. /\ DOMAIN cmds' = 1 .. Len(cmds) + 1 /\ DOMAIN cmds = 1 .. Len(cmds) /\ Len(cmds) \in Nat
          /\ cmds'[Len(cmds) + 1] = Register(k) /\ \A i \in 1 .. Len(cmds) : cmds'[i] = cmds[i]
      BY <2>1, <2>3
    <3>2. \A i \in DOMAIN cmds : cmds[i] # Register(k)
      BY <2>2 DEF Members
    <3>3. \A i \in DOMAIN cmds' : i \in DOMAIN cmds \/ i = Len(cmds) + 1
      BY <3>1
    <3>4. \A j \in Conns : Register(j) = Register(k) => j = k
      BY CommandKinds
    <3> QED BY <3>1, <3>2, <3>3, <3>4, SMTT(30) DEF RegInv
  <2>6. \A j \in Conns : Register(j) = Register(k) => j = k
    BY CommandKinds
  <2>7. \A j \in Conns : j # k => hpc'[j] = hpc[j]
    BY <1>4, <2>1
  <2>8. hpc'[k] = "register"
    BY <1>4, <2>1
  <2> QED BY <1>1, <1>2, <1>3, <2>1, <2>2, <2>3, <2>4, <2>5, <2>6, <2>7, <2>8, Zenon DEF RegInv
<1>6. CASE StartFails(k) \/ Registered(k) \/ TakeReply(k) \/ LockWriter(k) \/ WriteResponse(k) \/ Join(k)
  <2>1. UNCHANGED <<cmds, inbox>>
    BY <1>6, SMTT(30) DEF StartFails, Registered, TakeReply, LockWriter, WriteResponse, Join, client
  <2>2. /\ hpc'[k] \notin {"start", "register"}
        /\ hpc'[k] \in {"none", "join"} => hpc[k] \in {"start", "join"}
        /\ hpc[k] = "register" => k \in joined
        /\ \A j \in Conns : j # k => hpc'[j] = hpc[j]
    BY <1>4, <1>6 DEF StartFails, Registered, TakeReply, LockWriter, WriteResponse, Join
  <2>3. hpc[k] = "start" => k \notin bus
    BY DEF RegInv
  <2>4. Register(k) \notin Members(cmds)
    BY <2>2 DEF RegInv
  <2> QED BY <1>1, <1>2, <1>3, <2>1, <2>2, <2>3, <2>4, Zenon DEF RegInv
<1>7. CASE ReadRequest(k) \/ ReadFails(k) \/ WriteFails(k)
  <2>1. inbox' \in [Conns -> Seq(Requests)] /\ (ReadRequest(k) => Head(inbox[k]) \in Requests)
    <3>1. CASE ReadRequest(k)
      <4>1. inbox \in [Conns -> Seq(Requests)] /\ inbox[k] # <<>> /\ inbox' = [inbox EXCEPT ![k] = Tail(@)]
        BY <3>1 DEF ReadRequest, RegInv
      <4>2. Tail(inbox[k]) \in Seq(Requests) /\ Head(inbox[k]) \in Requests
        BY <4>1
      <4> QED BY <4>1, <4>2
    <3>2. CASE ReadFails(k) \/ WriteFails(k)
      <4>1. inbox' = inbox
        BY <3>2 DEF ReadFails, WriteFails, client
      <4>2. ReadRequest(k) => Head(inbox[k]) \in Requests
        <5> HAVE ReadRequest(k)
        <5>1. inbox \in [Conns -> Seq(Requests)] /\ inbox[k] # <<>>
          BY DEF ReadRequest, RegInv
        <5> QED BY <5>1
      <4> QED BY <4>1, <4>2 DEF RegInv
    <3> QED BY <1>7, <3>1, <3>2
  <2>2. PICK to : hpc' = [hpc EXCEPT ![k] = to] /\ to \in {"ask", "answer", "join"}
    BY <1>7, Zenon DEF ReadRequest, ReadFails, WriteFails, Leave
  <2>3. hpc'[k] = to /\ \A j \in Conns : j # k => hpc'[j] = hpc[j]
    BY <1>4, <2>2, SMTT(30)
  <2>4. hpc[k] \in {"read", "write"}
    BY <1>7 DEF ReadRequest, ReadFails, WriteFails
  <2>5. Register(k) \notin Members(cmds)
    BY <2>4 DEF RegInv
  <2>6. CASE cmds' = cmds /\ to # "join"
    BY <1>1, <1>2, <1>3, <2>1, <2>2, <2>3, <2>4, <2>5, <2>6 DEF RegInv
  <2>7. ASSUME NEW c \in Commands, c.type # "Register", cmds' = Append(cmds, c),
               to = "join" => c = Unregister(k)
        PROVE  RegInv'
    <3>1. /\ cmds' \in Seq(Commands) /\ Members(cmds') = Members(cmds) \cup {c}
          /\ \A j \in Conns, a, b \in DOMAIN cmds' :
               cmds'[a] = Register(j) /\ cmds'[b] = Register(j) => a = b
      BY <2>7, SendOther
    <3>2. \A j \in Conns : c # Register(j)
      BY <2>7, CommandKinds, SMTT(30)
    <3>3. \A j \in Conns : Register(j) \in Members(cmds') => hpc'[j] = "register" /\ j \notin joined'
      BY <1>1, <2>3, <2>5, <3>1, <3>2, SMTT(30) DEF RegInv
    <3>4. \A j \in bus' : hpc'[j] \in {"none", "join"} => Unregister(j) \in Members(cmds')
      BY <1>1, <2>2, <2>3, <2>7, <3>1 DEF RegInv
    <3>5. \A j \in Conns : Pending(j)' \/ hpc'[j] = "start" => j \notin joined'
      BY <1>1, <1>2, <1>3, <2>2, <2>3 DEF RegInv
    <3> QED BY <1>1, <2>1, <3>1, <3>3, <3>4, <3>5, Zenon DEF RegInv
  <2>8. CASE ReadFails(k) \/ WriteFails(k)
    <3>1. cmds' = Append(cmds, Unregister(k))
      BY <2>8 DEF ReadFails, WriteFails, Leave
    <3> QED BY <2>7, <3>1, CommandKinds
  <2>9. CASE ReadRequest(k)
    <3>1. /\ to # "join"
          /\ cmds' = cmds \/ cmds' = Append(cmds, Request(k, Head(inbox[k])))
      <4>1. hpc' = [hpc EXCEPT ![k] = "ask"] \/ hpc' = [hpc EXCEPT ![k] = "answer"]
        BY <2>9 DEF ReadRequest
      <4>2. hpc'[k] # "join"
        BY <1>4, <4>1
      <4> QED BY <2>3, <2>9, <4>2 DEF ReadRequest
    <3> QED BY <2>1, <2>6, <2>7, <2>9, <3>1, CommandKinds
  <2> QED BY <1>7, <2>8, <2>9
<1> QED BY <1>5, <1>6, <1>7 DEF Handler

\* No step of handlers or manager leaves a registration without a handler that
\* ends it (handle_connection, EventBus).
LEMMA RegNext == SlotInv /\ RegInv /\ [Next]_vars => RegInv'
<1> SUFFICES ASSUME SlotInv, RegInv, [Next]_vars PROVE RegInv'
  OBVIOUS
<1>1. ASSUME UNCHANGED <<inbox, cmds, joined, bus, hpc, conn, backlog, claim>> PROVE RegInv'
  BY <1>1, Zenon DEF RegInv, Pending, Members
<1>2. CASE Done \/ UNCHANGED vars
  BY <1>1, <1>2 DEF Done, vars, client, server, manager
<1>3. ASSUME NEW k \in Conns, Events(k) PROVE RegInv'
  BY <1>1, <1>3, Zenon DEF Events, ReceiveEvent, EventsEnd, LockEventWriter, WriteEvent, WriteEventFails,
                    client, server, manager
<1> QED BY <1>2, <1>3, RegClient, RegServe, RegManager, RegHandler DEF Next

\* The event bus starts without clients (EventBus::new).
LEMMA RegInit == Init => RegInv
<1> SUFFICES ASSUME Init PROVE RegInv
  OBVIOUS
<1>1. Members(cmds) = {} /\ cmds \in Seq(Commands) /\ DOMAIN cmds = {}
  BY DEF Init, Members
<1> QED BY <1>1 DEF Init, RegInv
-----------------------------------------------------------------------------
(* The event stream *)

\* The messages of a socket are told apart by their type (ServerMessage).
LEMMA MessageKinds ==
  /\ \A n \in 1 .. MaxEvents : /\ Event(n) \in EventMessages /\ Event(n) \in Messages
                               /\ Event(n) \notin Responses /\ Event(n).n = n
  /\ \A f \in Fate : /\ Response(f) \in Responses /\ Response(f) \in Messages
                     /\ Response(f) \notin EventMessages /\ Response(f).fate = f
  /\ \A m \in Messages :
       /\ m.type = "Event" => /\ m \in EventMessages /\ m \notin Responses
                              /\ m.n \in 1 .. MaxEvents /\ m = Event(m.n)
       /\ m.type = "Response" => /\ m \in Responses /\ m \notin EventMessages
                                 /\ m.fate \in Fate /\ m = Response(m.fate)
<1>1. ASSUME NEW n PROVE Event(n).type = "Event" /\ Event(n).n = n
  BY DEF Event
<1>2. ASSUME NEW f PROVE Response(f).type = "Response" /\ Response(f).fate = f
  BY DEF Response
<1>3. ASSUME NEW m \in EventMessages
      PROVE  m.type = "Event" /\ m.n \in 1 .. MaxEvents /\ m = Event(m.n)
  BY <1>1 DEF EventMessages
<1>4. ASSUME NEW m \in Responses
      PROVE  m.type = "Response" /\ m.fate \in Fate /\ m = Response(m.fate)
  BY <1>2 DEF Responses
<1>5. \A n \in 1 .. MaxEvents : Event(n) \in EventMessages
  BY DEF EventMessages
<1>6. \A f \in Fate : Response(f) \in Responses
  BY DEF Responses
<1> QED BY <1>1, <1>2, <1>3, <1>4, <1>5, <1>6 DEF Messages

\* A client's events start after the last one broadcast when it registers.
LEMMA OrderStart ==
  ASSUME NEW n \in Nat
  PROVE  Ordered(<<>>, 0, <<>>, n) /\ Last(<<>>, 0, <<>>, n) = n
BY DEF Ordered, Last, Taken, Written

\* The client reads the event at the front of its socket.
LEMMA OrderRead ==
  ASSUME NEW evs \in Seq(EventMessages), NEW h \in Nat, NEW q \in Seq(Nat), NEW s \in Nat,
         Ordered(evs, h, q, s), evs # <<>>
  PROVE  /\ Head(evs) = Event(s + 1) /\ s + 1 <= Last(evs, h, q, s)
         /\ Ordered(Tail(evs), h, q, s + 1)
         /\ Last(Tail(evs), h, q, s + 1) = Last(evs, h, q, s)
<1>1. /\ Len(evs) \in Nat \ {0} /\ Head(evs) = evs[1] /\ Len(Tail(evs)) = Len(evs) - 1
      /\ \A i \in 1 .. Len(evs) - 1 : Tail(evs)[i] = evs[i + 1]
      /\ Len(q) \in Nat
  OBVIOUS
<1>2. /\ Written(Tail(evs), s + 1) = Written(evs, s) /\ Taken(Tail(evs), h, s + 1) = Taken(evs, h, s)
      /\ Last(Tail(evs), h, q, s + 1) = Last(evs, h, q, s)
  BY <1>1 DEF Last, Taken, Written
<1>3. s + 1 <= Last(evs, h, q, s)
  BY <1>1 DEF Last, Taken, Written
<1>4. Head(evs) = Event(s + 1)
  BY <1>1 DEF Ordered
<1>5. ASSUME NEW i \in 1 .. Len(evs) - 1 PROVE Tail(evs)[i] = Event((s + 1) + i)
  <2>1. i + 1 \in 1 .. Len(evs) /\ s + (i + 1) = (s + 1) + i
    BY <1>1
  <2>2. evs[i + 1] = Event(s + (i + 1))
    BY <2>1 DEF Ordered
  <2> QED BY <1>1, <2>1, <2>2
<1>6. Ordered(Tail(evs), h, q, s + 1)
  BY <1>1, <1>2, <1>5 DEF Ordered
<1> QED BY <1>2, <1>3, <1>4, <1>6

\* The event thread takes an event from its queue.
LEMMA OrderTake ==
  ASSUME NEW evs \in Seq(EventMessages), NEW q \in Seq(Nat \ {0}), NEW s \in Nat,
         Ordered(evs, 0, q, s), q # <<>>
  PROVE  /\ Ordered(evs, Head(q), Tail(q), s)
         /\ Last(evs, Head(q), Tail(q), s) = Last(evs, 0, q, s)
<1>1. /\ Len(q) \in Nat \ {0} /\ Head(q) = q[1] /\ Len(Tail(q)) = Len(q) - 1 /\ Head(q) \in Nat \ {0}
      /\ \A i \in 1 .. Len(q) - 1 : Tail(q)[i] = q[i + 1] /\ q[i + 1] \in Nat
      /\ Len(evs) \in Nat
  OBVIOUS
<1>2. /\ Written(evs, s) \in Nat /\ Taken(evs, 0, s) = Written(evs, s)
      /\ Taken(evs, Head(q), s) = Written(evs, s) + 1
      /\ Last(evs, Head(q), Tail(q), s) = Last(evs, 0, q, s)
  <2>1. Written(evs, s) \in Nat
    BY <1>1 DEF Written
  <2>2. /\ Taken(evs, 0, s) = Written(evs, s) /\ Taken(evs, Head(q), s) = Written(evs, s) + 1
    BY <1>1, <2>1 DEF Taken
  <2> QED BY <1>1, <2>1, <2>2 DEF Last
<1>3. Head(q) = Written(evs, s) + 1
  BY <1>1, <1>2 DEF Ordered
<1>4. ASSUME NEW i \in 1 .. Len(q) - 1 PROVE Tail(q)[i] = Taken(evs, Head(q), s) + i
  <2>1. i + 1 \in 1 .. Len(q)
    BY <1>1
  <2>2. q[i + 1] = Taken(evs, 0, s) + (i + 1)
    BY <2>1 DEF Ordered
  <2> QED BY <1>1, <1>2, <2>2
<1>5. Ordered(evs, Head(q), Tail(q), s)
  BY <1>1, <1>3, <1>4 DEF Ordered
<1> QED BY <1>2, <1>5

\* The event thread writes the event it holds.
LEMMA OrderWrite ==
  ASSUME NEW evs \in Seq(EventMessages), NEW h \in Nat \ {0}, NEW q \in Seq(Nat), NEW s \in Nat,
         Ordered(evs, h, q, s)
  PROVE  /\ Ordered(Append(evs, Event(h)), 0, q, s)
         /\ Last(Append(evs, Event(h)), 0, q, s) = Last(evs, h, q, s)
<1>1. /\ Len(evs) \in Nat /\ Len(q) \in Nat /\ Len(Append(evs, Event(h))) = Len(evs) + 1
      /\ Append(evs, Event(h))[Len(evs) + 1] = Event(h)
      /\ \A i \in 1 .. Len(evs) : Append(evs, Event(h))[i] = evs[i]
  OBVIOUS
<1>2. /\ Taken(Append(evs, Event(h)), 0, s) = Taken(evs, h, s)
      /\ Last(Append(evs, Event(h)), 0, q, s) = Last(evs, h, q, s)
  BY <1>1 DEF Last, Taken, Written
<1>3. h = s + (Len(evs) + 1)
  BY <1>1 DEF Ordered, Written
<1>4. ASSUME NEW i \in 1 .. Len(evs) + 1 PROVE Append(evs, Event(h))[i] = Event(s + i)
  <2>1. CASE i \in 1 .. Len(evs)
    BY <1>1, <2>1 DEF Ordered
  <2>2. CASE i = Len(evs) + 1
    BY <1>1, <1>3, <2>2
  <2> QED BY <1>1, <2>1, <2>2
<1>5. Ordered(Append(evs, Event(h)), 0, q, s)
  BY <1>1, <1>2, <1>4 DEF Ordered
<1> QED BY <1>2, <1>5

\* The bus sends one more event (EventBus::broadcast).
LEMMA OrderSend ==
  ASSUME NEW evs \in Seq(EventMessages), NEW h \in Nat, NEW q \in Seq(Nat), NEW s \in Nat,
         Ordered(evs, h, q, s), NEW n \in Nat, Last(evs, h, q, s) = n
  PROVE  /\ Ordered(evs, h, Append(q, n + 1), s)
         /\ Last(evs, h, Append(q, n + 1), s) = n + 1
<1>1. /\ Len(evs) \in Nat /\ Len(q) \in Nat /\ Len(Append(q, n + 1)) = Len(q) + 1
      /\ Append(q, n + 1)[Len(q) + 1] = n + 1 /\ \A i \in 1 .. Len(q) : Append(q, n + 1)[i] = q[i]
  OBVIOUS
<1>2. Last(evs, h, Append(q, n + 1), s) = n + 1 /\ Taken(evs, h, s) \in Nat /\ n = Taken(evs, h, s) + Len(q)
  BY <1>1 DEF Last, Taken, Written
<1>3. ASSUME NEW i \in 1 .. Len(q) + 1 PROVE Append(q, n + 1)[i] = Taken(evs, h, s) + i
  <2>1. CASE i \in 1 .. Len(q)
    BY <1>1, <2>1 DEF Ordered
  <2>2. CASE i = Len(q) + 1
    BY <1>1, <1>2, <2>2
  <2> QED BY <1>1, <2>1, <2>2
<1>4. Ordered(evs, h, Append(q, n + 1), s)
  BY <1>1, <1>3, SMTT(30) DEF Ordered
<1> QED BY <1>2, <1>4

\* A step that leaves the stream of a connection alone.
LEMMA StreamKept ==
  ASSUME NEW k \in Conns, Stream(k), bus \subseteq joined, joined' = joined, sent' = sent,
         epc'[k] = epc[k], hand'[k] = hand[k], evq'[k] = evq[k], seen'[k] = seen[k],
         UnreadEvents(k)' = UnreadEvents(k), k \in bus' => k \in bus,
         conn'[k] = "open" => conn[k] = "open" \/ k \notin joined,
         hpc'[k] \in {"none", "start", "register"} => epc[k] = "none",
         hpc[k] = "register" => hpc'[k] = "register"
  PROVE  Stream(k)'
BY SMTT(30) DEF Stream, Receiving

\* What the types of the stream say of one connection.
LEMMA StreamElements ==
  ASSUME StreamTypes, NEW k \in Conns
  PROVE  /\ sock[k] \in Seq(Messages) /\ UnreadEvents(k) \in Seq(EventMessages)
         /\ hand[k] \in Nat /\ hand[k] <= MaxEvents /\ seen[k] \in Nat /\ sent \in Nat
         /\ evq[k] \in Seq(Nat) /\ evq[k] \in Seq(Nat \ {0}) /\ evq[k] \in Seq(Number)
<1>1. /\ sock[k] \in Seq(Messages) /\ hand[k] \in 0 .. MaxEvents /\ seen[k] \in 0 .. MaxEvents
      /\ sent \in 0 .. MaxEvents /\ evq[k] \in Seq(Number)
  BY DEF StreamTypes
<1>2. Messages \cap EventMessages = EventMessages
  BY DEF Messages
<1>3. UnreadEvents(k) \in Seq(EventMessages)
  BY <1>1, <1>2, FilterType DEF UnreadEvents
<1>4. evq[k] \in Seq(Nat) /\ evq[k] \in Seq(Nat \ {0})
  <2>1. Number \subseteq Nat /\ Number \subseteq Nat \ {0}
    BY MaxAssumption DEF Number
  <2>2. \A i \in 1 .. Len(evq[k]) : evq[k][i] \in Number
    BY <1>1
  <2>3. Len(evq[k]) \in Nat /\ evq[k] = [i \in 1 .. Len(evq[k]) |-> evq[k][i]]
    BY <1>1
  <2>4. \A T : Number \subseteq T => evq[k] \in Seq(T)
    BY <1>1, <2>2, <2>3
  <2> QED BY <2>1, <2>4
<1> QED BY <1>1, <1>3, <1>4, MaxAssumption

\* a holds the numbers that follow s.
Successive(a, s) == a \in Seq(Nat) /\ \A i \in 1 .. Len(a) : a[i] = s + i

\* Successive numbers that go on with the next ones.
LEMMA NumbersContinue ==
  ASSUME NEW a, NEW b, NEW s \in Nat, Successive(a, s), Successive(b, s + Len(a))
  PROVE  Successive(a \o b, s) /\ Len(a \o b) = Len(a) + Len(b)
<1>0. a \in Seq(Nat) /\ b \in Seq(Nat)
  BY DEF Successive
<1>1. /\ a \o b \in Seq(Nat) /\ Len(a \o b) = Len(a) + Len(b)
      /\ \A i \in 1 .. Len(a) + Len(b) : (a \o b)[i] = IF i <= Len(a) THEN a[i] ELSE b[i - Len(a)]
  BY <1>0
<1>2. Len(a) \in Nat /\ Len(b) \in Nat
  BY <1>0
<1>3. ASSUME NEW i \in 1 .. Len(a) + Len(b) PROVE (a \o b)[i] = s + i
  <2>1. CASE i <= Len(a)
    <3>1. i \in 1 .. Len(a)
      BY <1>2, <2>1
    <3> QED BY <1>1, <2>1, <3>1 DEF Successive
  <2>2. CASE ~(i <= Len(a))
    <3>1. i - Len(a) \in 1 .. Len(b) /\ i \in Int
      BY <1>2, <2>2
    <3>2. (a \o b)[i] = b[i - Len(a)] /\ b[i - Len(a)] = s + Len(a) + (i - Len(a))
      BY <1>1, <2>2, <3>1 DEF Successive
    <3>3. s + Len(a) + (i - Len(a)) = s + i
      BY <1>2, <3>1
    <3> QED BY <3>2, <3>3
  <2> QED BY <2>1, <2>2
<1> QED BY <1>1, <1>3 DEF Successive

\* What a client has yet to read is the sequence that Ordered describes.
LEMMA UnreadOrdered ==
  ASSUME StreamTypes, NEW k \in Conns, Ordered(UnreadEvents(k), hand[k], evq[k], seen[k])
  PROVE  /\ \A i \in DOMAIN Unread(k) : Unread(k)[i] = seen[k] + i
         /\ Len(Unread(k)) = Last(UnreadEvents(k), hand[k], evq[k], seen[k]) - seen[k]
<1> DEFINE evs == UnreadEvents(k)
           ns == [i \in DOMAIN evs |-> evs[i].n]
           h == IF hand[k] = 0 THEN <<>> ELSE <<hand[k]>>
           q == evq[k]
<1>1. /\ evs \in Seq(EventMessages) /\ hand[k] \in Nat /\ seen[k] \in Nat /\ q \in Seq(Nat)
  BY StreamElements, SMTT(30)
<1>2. Unread(k) = (ns \o h) \o q
  BY SMTT(30) DEF Unread, UnreadEvents
<1>3. ns \in Seq(Nat) /\ Len(ns) = Len(evs) /\ \A i \in 1 .. Len(evs) : ns[i] = seen[k] + i
  <2>1. DOMAIN evs = 1 .. Len(evs) /\ Len(evs) \in Nat
    BY <1>1, SMTT(30)
  <2>2. ASSUME NEW i \in 1 .. Len(evs) PROVE evs[i].n = seen[k] + i
    <3>1. evs[i] = Event(seen[k] + i)
      BY DEF Ordered
    <3> QED BY <3>1 DEF Event
  <2>3. \A i \in 1 .. Len(evs) : seen[k] + i \in Nat
    BY <1>1, <2>1, SMTT(30)
  <2>4. ns = [i \in 1 .. Len(evs) |-> seen[k] + i]
    BY <2>1, <2>2
  <2> HIDE DEF ns
  <2> QED BY <2>1, <2>3, <2>4, SMTT(30)
<1>4. h \in Seq(Nat) /\ Len(h) = (IF hand[k] = 0 THEN 0 ELSE 1)
      /\ \A i \in 1 .. Len(h) : h[i] = seen[k] + Len(evs) + i
  <2>1. CASE hand[k] = 0
    BY <2>1, SMTT(30)
  <2>2. CASE hand[k] # 0
    <3>1. hand[k] = seen[k] + Len(evs) + 1 /\ Len(evs) \in Nat
      BY <1>1, <2>2 DEF Ordered, Written
    <3> QED BY <1>1, <2>2, <3>1, SMTT(30)
  <2> QED BY <2>1, <2>2, Zenon
<1>5. \A i \in 1 .. Len(q) : q[i] = seen[k] + Len(evs) + Len(h) + i
  BY <1>4, SMTT(30) DEF Ordered, Taken, Written
<1>6. Len(evs) \in Nat /\ Len(h) \in Nat /\ Len(q) \in Nat
  BY <1>1, <1>4, SMTT(30)
<1>7. Last(evs, hand[k], q, seen[k]) = seen[k] + Len(evs) + Len(h) + Len(q)
  BY <1>4 DEF Last, Taken, Written
<1> HIDE DEF ns, h, q, evs
<1> DEFINE u == ns \o h
<1>8. Successive(u, seen[k]) /\ Len(u) = Len(evs) + Len(h)
  <2>1. Successive(ns, seen[k]) /\ Successive(h, seen[k] + Len(ns))
    BY <1>3, <1>4 DEF Successive
  <2>2. Successive(ns \o h, seen[k]) /\ Len(ns \o h) = Len(ns) + Len(h)
    BY <1>1, <2>1, NumbersContinue, ZenonT(30)
  <2> QED BY <1>3, <2>2
<1> HIDE DEF u
<1>9. Successive(q, seen[k] + Len(u))
  <2>1. seen[k] + Len(u) = seen[k] + Len(evs) + Len(h)
    BY <1>1, <1>6, <1>8
  <2>2. Successive(q, seen[k] + Len(evs) + Len(h))
    BY <1>1, <1>5, SMTT(30) DEF Successive
  <2> QED BY <2>1, <2>2, SMTT(30)
<1>10. Successive(u \o q, seen[k]) /\ Len(u \o q) = Len(u) + Len(q)
  <2>1. seen[k] \in Nat /\ Successive(u, seen[k])
    BY <1>1, <1>8, SMTT(30)
  <2> QED BY <1>9, <2>1, NumbersContinue, SMTT(30)
<1>11. Unread(k) = u \o q
  BY <1>2, SMTT(30) DEF u
<1>12. \A i \in DOMAIN Unread(k) : Unread(k)[i] = seen[k] + i
  BY <1>10, <1>11, SMTT(30) DEF Successive
<1>13. Len(Unread(k)) = Last(evs, hand[k], q, seen[k]) - seen[k]
  <2>1. Len(Unread(k)) = Len(evs) + Len(h) + Len(q)
    BY <1>8, <1>10, <1>11, Zenon
  <2> QED BY <1>1, <1>6, <1>7, <2>1, SMTT(30)
<1> QED BY <1>12, <1>13, Zenon DEF evs, q

\* The steps of serve and of the clients, apart from reading.
LEMMA StreamClient ==
  ASSUME SlotInv, RegInv, StreamInv, Serve \/ \E k \in Conns : Client(k) \/ ReadEof(k)
  PROVE  StreamInv'
<1>1. UNCHANGED <<sock, hand, evq, epc, sent, seen, joined, bus>>
  BY Zenon DEF Serve, Accept, Refuse, Spawn, Client, Connect, Close, CallServer, ReadEof,
         events, socket, manager
<1>2. StreamTypes'
  BY <1>1 DEF StreamInv, StreamTypes
<1>3. ASSUME NEW k \in Conns
      PROVE  /\ conn'[k] = "open" => conn[k] = "open" \/ k \notin joined
             /\ hpc'[k] \in {"none", "start", "register"} => epc[k] = "none"
             /\ hpc[k] = "register" => hpc'[k] = "register"
  <2>1. CASE Spawn
    <3>1. /\ claim # NoClaim /\ conn' = conn /\ hpc' = [hpc EXCEPT ![claim.conn] = "start"]
      BY <2>1 DEF Spawn, client
    <3>2. hpc \in [Conns -> HandlerStates] /\ (claim.conn = k => hpc[k] = "none")
      BY DEF SlotInv, SlotTypes, OnePlace, Pending
    <3>3. claim.conn = k => hpc[k] = "none" /\ hpc'[k] = "start"
      BY <3>1, <3>2
    <3>4. claim.conn # k => hpc'[k] = hpc[k]
      BY <3>1, <3>2
    <3> QED BY <3>1, <3>3, <3>4, Zenon DEF StreamInv, Stream
  <2>2. CASE ~Spawn
    <3>1. hpc' = hpc
      BY <2>2, Zenon DEF Serve, Accept, Refuse, Client, Connect, Close, CallServer, ReadEof
    <3>2. conn'[k] = "open" => conn[k] = "open" \/ k \notin joined
      <4>1. CASE \E j \in Conns : Connect(j)
        <5>1. PICK j \in Conns : Connect(j)
          BY <4>1
        <5>2. conn[j] = "none" /\ conn' = [conn EXCEPT ![j] = "open"]
          BY <5>1 DEF Connect
        <5>3. j \notin joined
          BY <5>2, Zenon DEF RegInv, Pending
        <5> QED BY <5>2, <5>3 DEF SlotInv, SlotTypes
      <4>2. CASE ~ \E j \in Conns : Connect(j)
        BY <4>2, Zenon DEF Serve, Accept, Refuse, Spawn, Client, Close, CallServer, ReadEof, client,
                    SlotInv, SlotTypes
      <4> QED BY <4>1, <4>2
    <3> QED BY <3>1, <3>2, Zenon DEF StreamInv, Stream
  <2> QED BY <2>1, <2>2, Zenon
<1>4. ASSUME NEW k \in Conns PROVE Stream(k)'
  <2>1. UnreadEvents(k)' = UnreadEvents(k)
    BY <1>1 DEF UnreadEvents
  <2>2. Stream(k) /\ bus \subseteq joined
    BY DEF StreamInv, RegInv
  <2> QED BY <1>1, <1>3, <2>1, <2>2, StreamKept, Zenon
<1> QED BY <1>2, <1>4 DEF StreamInv

\* A client reads: request() and next_event() take the messages in their order.
LEMMA StreamRead ==
  ASSUME RegInv, StreamInv, NEW k \in Conns, ReadMessage(k)
  PROVE  /\ StreamInv'
         /\ Head(sock[k]).type = "Event" =>
              k \in joined /\ seen[k] < sent /\ seen' = [seen EXCEPT ![k] = @ + 1]
<1> DEFINE m == Head(sock[k])
<1>1. /\ conn[k] = "open" /\ sock[k] # <<>> /\ sock' = [sock EXCEPT ![k] = Tail(@)]
      /\ UNCHANGED <<conn, hpc, epc, hand, evq, joined, bus, sent>>
      /\ m.type = "Event" => seen' = [seen EXCEPT ![k] = m.n]
      /\ m.type = "Response" => seen' = seen
      /\ m.type \in {"Event", "Response"}
  BY SMTT(30) DEF ReadMessage, events, manager
<1>2. /\ sock[k] \in Seq(Messages) /\ UnreadEvents(k) \in Seq(EventMessages)
      /\ hand[k] \in Nat /\ seen[k] \in Nat /\ sent \in Nat /\ evq[k] \in Seq(Nat)
  BY StreamElements DEF StreamInv
<1>3. m \in Messages /\ Tail(sock[k]) \in Seq(Messages)
  BY <1>1, <1>2
<1>4. sock'[k] = Tail(sock[k]) /\ \A j \in Conns : j # k => sock'[j] = sock[j]
  BY <1>1 DEF StreamInv, StreamTypes
<1>5. /\ m.type = "Event" => /\ UnreadEvents(k) # <<>> /\ Head(UnreadEvents(k)) = m
                             /\ UnreadEvents(k)' = Tail(UnreadEvents(k))
      /\ m.type = "Response" => UnreadEvents(k)' = UnreadEvents(k)
  <2>1. (m.type = "Event" => m \in EventMessages) /\ (m.type = "Response" => m \notin EventMessages)
    BY <1>3, MessageKinds
  <2>2. UnreadEvents(k)' = Filter(Tail(sock[k]), EventMessages)
    BY <1>4 DEF UnreadEvents
  <2> QED BY <1>1, <1>2, <2>1, <2>2, FilterTail, Zenon DEF UnreadEvents
<1>6. /\ sock \in [Conns -> Seq(Messages)] /\ sock' \in [Conns -> Seq(Messages)]
  BY <1>1, <1>3 DEF StreamInv, StreamTypes
<1>7. \A j \in Conns : j # k => UnreadEvents(j)' = UnreadEvents(j)
  BY <1>4 DEF UnreadEvents
<1>8. /\ Stream(k) /\ bus \subseteq joined /\ seen \in [Conns -> 0 .. MaxEvents]
  BY DEF StreamInv, RegInv, StreamTypes
<1>9. CASE m.type = "Event"
  <2>1. m.n \in 1 .. MaxEvents /\ m = Event(m.n)
    BY <1>3, <1>9, MessageKinds
  <2>2. k \in joined /\ UnreadEvents(k) # <<>>
    BY <1>5, <1>8, <1>9 DEF Stream
  <2>3. /\ Ordered(UnreadEvents(k), hand[k], evq[k], seen[k])
        /\ Last(UnreadEvents(k), hand[k], evq[k], seen[k]) <= sent
        /\ k \in bus => Last(UnreadEvents(k), hand[k], evq[k], seen[k]) = sent
    BY <1>1, <1>8, <2>2, Zenon DEF Stream
  <2>4. /\ m = Event(seen[k] + 1) /\ seen[k] + 1 <= Last(UnreadEvents(k), hand[k], evq[k], seen[k])
        /\ Ordered(Tail(UnreadEvents(k)), hand[k], evq[k], seen[k] + 1)
        /\ Last(Tail(UnreadEvents(k)), hand[k], evq[k], seen[k] + 1)
             = Last(UnreadEvents(k), hand[k], evq[k], seen[k])
    BY <1>2, <1>5, <1>9, <2>2, <2>3, OrderRead, ZenonT(30)
  <2>5. m.n = seen[k] + 1
    BY <2>4 DEF Event
  <2>6. Last(UnreadEvents(k), hand[k], evq[k], seen[k]) \in Nat
    BY <1>2 DEF Last, Taken, Written
  <2>7. seen[k] < sent
    <3>1. PICK l \in Nat : l = Last(UnreadEvents(k), hand[k], evq[k], seen[k])
      BY <2>6, Zenon
    <3>2. seen[k] + 1 <= l /\ l <= sent
      BY <2>3, <2>4, <3>1, Zenon
    <3>3. seen[k] \in Nat /\ sent \in Nat
      BY <1>2
    <3> QED BY <3>2, <3>3
  <2>8. seen' = [seen EXCEPT ![k] = seen[k] + 1] /\ seen'[k] = seen[k] + 1
        /\ \A j \in Conns : j # k => seen'[j] = seen[j]
    BY <1>1, <1>8, <1>9, <2>5, SMTT(30)
  <2>9. StreamTypes'
    <3>1. seen' \in [Conns -> 0 .. MaxEvents]
      BY <1>8, <2>1, <2>5, <2>8
    <3> QED BY <1>1, <1>6, <3>1 DEF StreamInv, StreamTypes
  <2>10. Stream(k)'
    <3>1. UnreadEvents(k)' = Tail(UnreadEvents(k))
      BY <1>5, <1>9
    <3>2. /\ Ordered(UnreadEvents(k)', hand[k], evq[k], seen'[k])
          /\ Last(UnreadEvents(k)', hand[k], evq[k], seen'[k])
               = Last(UnreadEvents(k), hand[k], evq[k], seen[k])
      BY <2>4, <2>8, <3>1, Zenon
    <3> HIDE DEF m
    <3> QED BY <1>1, <1>8, <2>2, <2>3, <3>2, Zenon DEF Stream, Receiving
  <2>11. ASSUME NEW j \in Conns, j # k PROVE Stream(j)'
    <3>1. Stream(j)
      BY DEF StreamInv
    <3>2. hpc[j] \in {"none", "start", "register"} => epc[j] = "none"
      BY <3>1, Zenon DEF Stream
    <3> QED BY <1>1, <1>7, <1>8, <2>8, <2>11, <3>1, <3>2, StreamKept, Zenon
  <2> QED BY <2>2, <2>7, <2>8, <2>9, <2>10, <2>11 DEF StreamInv
<1>10. CASE m.type = "Response"
  <2>1. StreamTypes'
    BY <1>1, <1>6, <1>10 DEF StreamInv, StreamTypes
  <2>2. ASSUME NEW j \in Conns PROVE Stream(j)'
    <3>1. Stream(j) /\ UnreadEvents(j)' = UnreadEvents(j)
      BY <1>5, <1>7, <1>10, SMTT(30) DEF StreamInv
    <3>2. hpc[j] \in {"none", "start", "register"} => epc[j] = "none"
      BY <3>1 DEF Stream
    <3> QED BY <1>1, <1>8, <1>10, <3>1, <3>2, StreamKept, Zenon
  <2> QED BY <1>10, <2>1, <2>2 DEF StreamInv
<1> QED BY <1>1, <1>9, <1>10, SMTT(30)

\* A handler writes responses to the socket, and starts the event thread once it
\* is registered.
LEMMA StreamHandler ==
  ASSUME SlotInv, LockInv, RegInv, StreamInv, CallTypes, NEW k \in Conns, Handler(k)
  PROVE  StreamInv'
<1>1. UNCHANGED <<conn, hand, evq, sent, seen, joined, bus>>
  BY Zenon DEF Handler, Start, StartFails, Registered, ReadRequest, ReadFails, TakeReply, LockWriter,
         WriteResponse, WriteFails, Join, Leave, client, events, manager
<1>2. hpc \in [Conns -> HandlerStates] /\ bus \subseteq joined /\ Stream(k)
  BY DEF SlotInv, SlotTypes, RegInv, StreamInv
<1>3. sock' \in [Conns -> Seq(Messages)] /\ \A j \in Conns : UnreadEvents(j)' = UnreadEvents(j)
  <2>1. CASE WriteResponse(k)
    <3>1. sock' = [sock EXCEPT ![k] = Append(sock[k], Response(resp[k]))]
      BY <2>1 DEF WriteResponse
    <3>2. Response(resp[k]) \in Messages /\ Response(resp[k]) \notin EventMessages
      BY MessageKinds DEF CallTypes
    <3>3. sock \in [Conns -> Seq(Messages)] /\ sock[k] \in Seq(Messages)
      BY DEF StreamInv, StreamTypes
    <3>4. Append(sock[k], Response(resp[k])) \in Seq(Messages)
      BY <3>2, <3>3
    <3>5. Filter(Append(sock[k], Response(resp[k])), EventMessages) = Filter(sock[k], EventMessages)
      BY <3>2, <3>3, FilterDrops, Zenon
    <3> QED BY <3>1, <3>3, <3>4, <3>5 DEF UnreadEvents
  <2>2. CASE ~WriteResponse(k)
    <3>1. sock' = sock
      BY <2>2, Zenon DEF Handler, Start, StartFails, Registered, ReadRequest, ReadFails, TakeReply,
                  LockWriter, WriteFails, Join, socket
    <3> QED BY <3>1 DEF StreamInv, StreamTypes, UnreadEvents
  <2> QED BY <2>1, <2>2
<1>4. StreamTypes'
  BY <1>1, <1>3 DEF StreamInv, StreamTypes
<1>5. CASE Registered(k)
  <2>1. /\ hpc[k] = "register" /\ k \in joined /\ hpc' = [hpc EXCEPT ![k] = "read"]
        /\ epc' = [epc EXCEPT ![k] = "recv"] /\ epc[k] = "none"
    BY <1>2, <1>5, Zenon DEF Registered, Stream
  <2>2. epc'[k] = "recv" /\ \A j \in Conns : j # k => epc'[j] = epc[j]
    BY <2>1 DEF LockInv
  <2>3. hpc'[k] = "read" /\ \A j \in Conns : j # k => hpc'[j] = hpc[j]
    BY <1>2, <2>1
  <2>4. Stream(k)'
    BY <1>1, <1>2, <1>3, <2>1, <2>2, <2>3, Zenon DEF Stream, Receiving
  <2>5. ASSUME NEW j \in Conns, j # k PROVE Stream(j)'
    <3>1. Stream(j) /\ (hpc[j] \in {"none", "start", "register"} => epc[j] = "none")
      BY Zenon DEF StreamInv, Stream
    <3> QED BY <1>1, <1>2, <1>3, <2>2, <2>3, <2>5, <3>1, StreamKept, Zenon
  <2> QED BY <1>4, <2>4, <2>5, SMTT(30) DEF StreamInv
<1>6. CASE ~Registered(k)
  <2>1. epc' = epc
    BY <1>6, Zenon DEF Handler, Start, StartFails, ReadRequest, ReadFails, TakeReply, LockWriter,
                WriteResponse, WriteFails, Join, events
  <2>2. /\ hpc'[k] \in {"none", "start", "register"} => epc[k] = "none"
        /\ hpc[k] # "register"
        /\ \A j \in Conns : j # k => hpc'[j] = hpc[j]
    BY <1>2, <1>6, Zenon DEF Handler, Start, StartFails, ReadRequest, ReadFails, TakeReply, LockWriter,
                WriteResponse, WriteFails, Join, Leave, Stream
  <2>3. ASSUME NEW j \in Conns PROVE Stream(j)'
    <3>1. Stream(j) /\ (hpc[j] \in {"none", "start", "register"} => epc[j] = "none")
      BY Zenon DEF StreamInv, Stream
    <3>2. CASE j = k
      BY <1>1, <1>2, <1>3, <2>1, <2>2, <3>1, <3>2, StreamKept, Zenon
    <3>3. CASE j # k
      BY <1>1, <1>2, <1>3, <2>1, <2>2, <3>1, <3>3, StreamKept, Zenon
    <3> QED BY <3>2, <3>3
  <2> QED BY <1>4, <2>3 DEF StreamInv
<1> QED BY <1>5, <1>6

\* The event thread passes the events on, one by one.
LEMMA StreamEvents ==
  ASSUME LockInv, RegInv, StreamInv, NEW k \in Conns, Events(k)
  PROVE  StreamInv'
<1>1. UNCHANGED <<conn, hpc, sent, seen, joined, bus>>
  BY Zenon DEF Events, ReceiveEvent, EventsEnd, LockEventWriter, WriteEvent, WriteEventFails, client, manager
<1>2. /\ bus \subseteq joined /\ Stream(k) /\ StreamTypes
      /\ epc \in [Conns -> {"none", "recv", "lock", "write"}]
  BY DEF LockInv, RegInv, StreamInv
<1>3. /\ sock[k] \in Seq(Messages) /\ UnreadEvents(k) \in Seq(EventMessages)
      /\ hand[k] \in Nat /\ hand[k] <= MaxEvents /\ seen[k] \in Nat /\ sent \in Nat
      /\ evq[k] \in Seq(Nat) /\ evq[k] \in Seq(Nat \ {0}) /\ evq[k] \in Seq(Number)
  BY <1>2, StreamElements, Zenon
<1>4. epc[k] # "none" /\ k \in joined /\ hpc[k] \notin {"none", "start", "register"}
  BY <1>2, ZenonT(30) DEF Events, ReceiveEvent, EventsEnd, LockEventWriter, WriteEvent, WriteEventFails, Stream
<1>5. \A j \in Conns : j # k =>
        sock'[j] = sock[j] /\ hand'[j] = hand[j] /\ evq'[j] = evq[j] /\ epc'[j] = epc[j]
  BY <1>2 DEF Events, ReceiveEvent, EventsEnd, LockEventWriter, WriteEvent, WriteEventFails,
              socket, StreamTypes
<1>6. ASSUME StreamTypes', Stream(k)' PROVE StreamInv'
  <2>1. ASSUME NEW j \in Conns, j # k PROVE Stream(j)'
    <3>1. UnreadEvents(j)' = UnreadEvents(j)
      BY <1>5, <2>1 DEF UnreadEvents
    <3>2. Stream(j) /\ (hpc[j] \in {"none", "start", "register"} => epc[j] = "none")
      BY Zenon DEF StreamInv, Stream
    <3> QED BY <1>1, <1>2, <1>5, <2>1, <3>1, <3>2, StreamKept, Zenon
  <2> QED BY <1>6, <2>1 DEF StreamInv
<1>7. CASE ReceiveEvent(k)
  <2>1. /\ epc[k] = "recv" /\ evq[k] # <<>> /\ hand' = [hand EXCEPT ![k] = Head(evq[k])]
        /\ evq' = [evq EXCEPT ![k] = Tail(evq[k])] /\ epc' = [epc EXCEPT ![k] = "lock"]
        /\ sock' = sock
    BY <1>7 DEF ReceiveEvent, socket
  <2>2. /\ Head(evq[k]) \in 1 .. MaxEvents /\ Tail(evq[k]) \in Seq(Number)
    <3>1. Head(evq[k]) \in Number /\ Tail(evq[k]) \in Seq(Number)
      BY <1>3, <2>1, MembersTail, Zenon
    <3> QED BY <3>1 DEF Number
  <2>3. hand'[k] = Head(evq[k]) /\ evq'[k] = Tail(evq[k]) /\ epc'[k] = "lock"
    BY <1>2, <2>1 DEF StreamTypes
  <2>4. UnreadEvents(k)' = UnreadEvents(k) /\ hand[k] = 0 /\ hand'[k] # 0
    <3>1. Head(evq[k]) # 0 /\ "recv" \notin {"lock", "write"}
      BY <2>2
    <3> QED BY <1>2, <2>1, <2>3, <3>1, Zenon DEF UnreadEvents, Stream
  <2>5. StreamTypes'
    BY <1>1, <1>2, <2>1, <2>2 DEF StreamTypes
  <2>6. conn[k] = "open" =>
          /\ Ordered(UnreadEvents(k), Head(evq[k]), Tail(evq[k]), seen[k])
          /\ Last(UnreadEvents(k), Head(evq[k]), Tail(evq[k]), seen[k])
               = Last(UnreadEvents(k), hand[k], evq[k], seen[k])
    BY <1>2, <1>3, <1>4, <2>1, <2>4, OrderTake, Zenon DEF Stream
  <2>7. Stream(k)'
    BY <1>1, <1>2, <1>4, <2>3, <2>4, <2>6, Zenon DEF Stream, Receiving
  <2> QED BY <1>6, <2>5, <2>7
<1>8. CASE EventsEnd(k) \/ LockEventWriter(k)
  <2>1. /\ UNCHANGED <<hand, evq, sock>>
        /\ \/ epc[k] = "recv" /\ k \notin bus /\ epc' = [epc EXCEPT ![k] = "none"]
           \/ epc[k] = "lock" /\ epc' = [epc EXCEPT ![k] = "write"]
    BY <1>8, Zenon DEF EventsEnd, LockEventWriter, socket
  <2>2. StreamTypes' /\ UnreadEvents(k)' = UnreadEvents(k)
    BY <1>1, <1>2, <2>1 DEF StreamTypes, UnreadEvents
  <2>3. Stream(k)'
    BY <1>1, <1>2, <1>4, <2>1, <2>2, Zenon DEF Stream, Receiving
  <2> QED BY <1>6, <2>2, <2>3
<1>9. CASE WriteEvent(k)
  <2>1. /\ epc[k] = "write" /\ conn[k] = "open" /\ sock' = [sock EXCEPT ![k] = Append(sock[k], Event(hand[k]))]
        /\ hand' = [hand EXCEPT ![k] = 0] /\ epc' = [epc EXCEPT ![k] = "recv"] /\ evq' = evq
    BY <1>9 DEF WriteEvent
  <2>2. hand[k] # 0 /\ hand[k] \in 1 .. MaxEvents /\ hand[k] \in Nat \ {0}
    <3>1. hand[k] # 0
      BY <1>2, <2>1, Zenon DEF Stream
    <3> QED BY <1>3, <3>1, MaxAssumption
  <2>3. Event(hand[k]) \in EventMessages /\ Event(hand[k]) \in Messages
    BY <2>2, MessageKinds
  <2>4. Append(sock[k], Event(hand[k])) \in Seq(Messages)
    BY <1>3, <2>3
  <2>5. sock'[k] = Append(sock[k], Event(hand[k])) /\ hand'[k] = 0 /\ epc'[k] = "recv"
    BY <1>2, <2>1 DEF StreamTypes
  <2>6. UnreadEvents(k)' = Append(UnreadEvents(k), Event(hand[k]))
    <3>1. Filter(Append(sock[k], Event(hand[k])), EventMessages)
            = Append(Filter(sock[k], EventMessages), Event(hand[k]))
      BY <1>3, <2>3, FilterKeeps, Zenon
    <3> QED BY <2>5, <3>1, ZenonT(30) DEF UnreadEvents
  <2>7. StreamTypes'
    <3>1. sock' \in [Conns -> Seq(Messages)] /\ hand' \in [Conns -> 0 .. MaxEvents]
      BY <1>2, <2>1, <2>4, MaxAssumption DEF StreamTypes
    <3> QED BY <1>1, <1>2, <2>1, <3>1 DEF StreamTypes
  <2>8. /\ Ordered(UnreadEvents(k)', 0, evq[k], seen[k])
        /\ Last(UnreadEvents(k)', 0, evq[k], seen[k]) = Last(UnreadEvents(k), hand[k], evq[k], seen[k])
    <3>1. Ordered(UnreadEvents(k), hand[k], evq[k], seen[k])
      BY <1>2, <1>4, <2>1, Zenon DEF Stream
    <3>2. /\ Ordered(Append(UnreadEvents(k), Event(hand[k])), 0, evq[k], seen[k])
          /\ Last(Append(UnreadEvents(k), Event(hand[k])), 0, evq[k], seen[k])
               = Last(UnreadEvents(k), hand[k], evq[k], seen[k])
      BY <1>3, <2>2, <3>1, OrderWrite, Zenon
    <3> QED BY <2>6, <3>2, Zenon
  <2>9. Stream(k)'
    BY <1>1, <1>2, <1>4, <2>1, <2>5, <2>8, Zenon DEF Stream, Receiving
  <2> QED BY <1>6, <2>7, <2>9
<1>10. CASE WriteEventFails(k)
  <2>1. /\ epc[k] = "write" /\ conn[k] = "closed" /\ sock' = sock
        /\ hand' = [hand EXCEPT ![k] = 0] /\ epc' = [epc EXCEPT ![k] = "none"]
        /\ evq' = [evq EXCEPT ![k] = <<>>]
    BY <1>10 DEF WriteEventFails
  <2>2. StreamTypes'
    BY <1>1, <1>2, <2>1, MaxAssumption DEF StreamTypes
  <2>3. hand'[k] = 0 /\ epc'[k] = "none"
    BY <1>2, <2>1 DEF StreamTypes
  <2>4. Stream(k)'
    BY <1>1, <1>4, <2>1, <2>3, Zenon DEF Stream
  <2> QED BY <1>6, <2>2, <2>4
<1> QED BY <1>7, <1>8, <1>9, <1>10 DEF Events

\* The manager registers, and broadcasts to every client that can receive.
LEMMA StreamManager ==
  ASSUME SlotInv, LockInv, RegInv, StreamInv, Manager \/ Broadcast
  PROVE  StreamInv'
<1>1. UNCHANGED <<conn, hpc, epc, hand, sock>>
  BY DEF Manager, HandleRegister, HandleUnregister, HandleRequest, Broadcast, client, events, socket
<1>2. bus \subseteq joined /\ joined \subseteq Conns /\ StreamTypes
  BY DEF RegInv, StreamInv
<1>3. \A k \in Conns : /\ UnreadEvents(k)' = UnreadEvents(k) /\ Stream(k)
                       /\ hpc[k] \in {"none", "start", "register"} => epc[k] = "none"
  BY <1>1, Zenon DEF UnreadEvents, StreamInv, Stream
<1>4. CASE HandleUnregister \/ HandleRequest
  <2>1. UNCHANGED <<evq, seen, sent, joined>> /\ bus' \subseteq bus
    BY <1>4 DEF HandleUnregister, HandleRequest, events
  <2>2. StreamTypes'
    BY <1>1, <1>2, <2>1 DEF StreamTypes
  <2>3. ASSUME NEW k \in Conns PROVE Stream(k)'
    BY <1>1, <1>2, <1>3, <2>1, StreamKept, Zenon
  <2> QED BY <2>2, <2>3 DEF StreamInv
<1>5. CASE HandleRegister
  <2>0. cmds # <<>> /\ Head(cmds).type = "Register"
    BY <1>5 DEF HandleRegister
  <2>1. PICK k \in Conns : Head(cmds).conn = k /\ Register(k) \in Members(cmds)
    <3>1. Head(cmds) \in Commands /\ Head(cmds) \in Members(cmds)
      BY <2>0, MembersTail DEF RegInv
    <3> QED BY <2>0, <3>1, CommandKinds
  <2>2. /\ bus' = bus \cup {k} /\ joined' = joined \cup {k} /\ seen' = [seen EXCEPT ![k] = sent]
        /\ UNCHANGED <<evq, sent>> /\ k \notin joined /\ hpc[k] = "register"
    <3>1. k \notin joined /\ hpc[k] = "register"
      BY <2>1, Zenon DEF RegInv
    <3>2. /\ bus' = bus \cup {Head(cmds).conn} /\ joined' = joined \cup {Head(cmds).conn}
          /\ seen' = [seen EXCEPT ![Head(cmds).conn] = sent] /\ UNCHANGED <<evq, sent>>
      BY <1>5, ZenonT(30) DEF HandleRegister, events
    <3> QED BY <2>1, <3>1, <3>2, Zenon
  <2>3. StreamTypes'
    <3>1. seen' \in [Conns -> 0 .. MaxEvents]
      BY <1>2, <2>2 DEF StreamTypes
    <3> QED BY <1>1, <1>2, <2>2, <3>1 DEF StreamTypes
  <2>4. seen'[k] = sent /\ \A j \in Conns : j # k => seen'[j] = seen[j]
    BY <1>2, <2>2, SMTT(30) DEF StreamTypes
  <2>5. sent \in Nat
    BY <1>2, <2>2, StreamElements
  <2>6. epc[k] = "none" /\ hand[k] = 0 /\ evq[k] = <<>> /\ UnreadEvents(k) = <<>>
    BY <1>3, <2>2, Zenon DEF Stream
  <2>7. Ordered(<<>>, 0, <<>>, sent) /\ Last(<<>>, 0, <<>>, sent) = sent
    BY <2>5, OrderStart, SMTT(30)
  <2>8. Stream(k)'
    <3>1. /\ UnreadEvents(k)' = <<>> /\ hand'[k] = 0 /\ evq'[k] = <<>> /\ seen'[k] = sent
          /\ epc'[k] = "none" /\ hpc'[k] = "register" /\ sent' = sent /\ k \in joined'
      BY <1>1, <1>3, <2>2, <2>4, <2>6, Zenon
    <3>2. sent <= sent
      BY <2>5
    <3> QED BY <2>7, <3>1, <3>2 DEF Stream, Receiving
  <2>9. ASSUME NEW j \in Conns, j # k PROVE Stream(j)'
    <3>1. /\ UnreadEvents(j)' = UnreadEvents(j) /\ hand'[j] = hand[j] /\ evq'[j] = evq[j]
          /\ seen'[j] = seen[j] /\ epc'[j] = epc[j] /\ hpc'[j] = hpc[j] /\ sent' = sent
          /\ conn'[j] = conn[j] /\ Stream(j)
      BY <1>1, <1>3, <2>2, <2>4, <2>9, Zenon
    <3>2. (j \in joined' <=> j \in joined) /\ (j \in bus' <=> j \in bus)
      BY <2>2, <2>9, SMTT(30)
    <3> QED BY <3>1, <3>2, Zenon DEF Stream, Receiving
  <2> QED BY <2>3, <2>8, <2>9 DEF StreamInv
<1>6. CASE Broadcast
  <2>1. /\ sent < MaxEvents /\ sent' = sent + 1 /\ UNCHANGED <<joined, seen>>
        /\ evq' = [k \in Conns |-> IF k \in bus /\ Receiving(k) THEN Append(evq[k], sent + 1) ELSE evq[k]]
        /\ bus' = {k \in bus : Receiving(k)}
    BY <1>6 DEF Broadcast
  <2>2. sent \in Nat /\ sent \in 0 .. MaxEvents /\ sent' \in 0 .. MaxEvents /\ sent + 1 \in 1 .. MaxEvents
    BY <1>2, <2>1, MaxAssumption DEF StreamTypes
  <2>3. evq' \in [Conns -> Seq(Number)]
    <3>1. ASSUME NEW k \in Conns PROVE evq'[k] \in Seq(Number)
      <4>1. evq[k] \in Seq(Number)
        BY <1>2 DEF StreamTypes
      <4>2. Append(evq[k], sent + 1) \in Seq(Number)
        <5>1. sent + 1 \in Number
          BY <2>2 DEF Number
        <5> QED BY <4>1, <5>1
      <4> QED BY <2>1, <4>1, <4>2
    <3> QED BY <2>1, <3>1
  <2>4. StreamTypes'
    BY <1>1, <1>2, <2>1, <2>2, <2>3 DEF StreamTypes
  <2>5. ASSUME NEW k \in Conns PROVE Stream(k)'
    <3>1. /\ UnreadEvents(k) \in Seq(EventMessages) /\ hand[k] \in Nat /\ seen[k] \in Nat
          /\ evq[k] \in Seq(Nat) /\ Stream(k) /\ Receiving(k)' = Receiving(k)
      BY <1>1, <1>2, <1>3, StreamElements, ZenonT(30) DEF Receiving
    <3>2. Last(UnreadEvents(k), hand[k], evq[k], seen[k]) \in Nat
      BY <3>1 DEF Last, Taken, Written
    <3>3. CASE k \in bus /\ Receiving(k)
      <4>1. evq'[k] = Append(evq[k], sent + 1) /\ k \in bus' /\ k \in joined
        BY <1>2, <2>1, <3>3
      <4>2. conn[k] = "open" => /\ Ordered(UnreadEvents(k), hand[k], Append(evq[k], sent + 1), seen[k])
                                /\ Last(UnreadEvents(k), hand[k], Append(evq[k], sent + 1), seen[k]) = sent + 1
        <5>1. ASSUME conn[k] = "open"
              PROVE  /\ Ordered(UnreadEvents(k), hand[k], evq[k], seen[k])
                     /\ Last(UnreadEvents(k), hand[k], evq[k], seen[k]) = sent
          BY <3>1, <3>3, <4>1, <5>1, Zenon DEF Stream
        <5> QED BY <2>2, <3>1, <5>1, OrderSend, ZenonT(30)
      <4>3. sent' = sent + 1 /\ sent + 1 <= sent + 1
        BY <2>1, <2>2
      <4> QED BY <1>1, <1>3, <2>1, <3>1, <3>3, <4>1, <4>2, <4>3, Zenon DEF Stream
    <3>4. CASE ~(k \in bus /\ Receiving(k))
      <4>1. evq'[k] = evq[k] /\ k \notin bus'
        BY <2>1, <3>4, SMTT(30)
      <4>2. Last(UnreadEvents(k), hand[k], evq[k], seen[k]) <= sent
              => Last(UnreadEvents(k), hand[k], evq[k], seen[k]) <= sent + 1
        BY <2>2, <3>2
      <4> QED BY <1>1, <1>3, <2>1, <3>1, <4>1, <4>2, Zenon DEF Stream
    <3> QED BY <3>3, <3>4
  <2> QED BY <2>4, <2>5 DEF StreamInv
<1> QED BY <1>4, <1>5, <1>6, SMTT(30) DEF Manager

\* No step of any thread takes an event out of its order (EventBus::broadcast,
\* handle_connection, Client::request and next_event).
LEMMA StreamNext ==
  SlotInv /\ LockInv /\ RegInv /\ CallTypes /\ StreamInv /\ [Next]_vars => StreamInv'
<1> SUFFICES ASSUME SlotInv, LockInv, RegInv, CallTypes, StreamInv, [Next]_vars PROVE StreamInv'
  OBVIOUS
<1>1. CASE Done \/ UNCHANGED vars
  <2>1. UNCHANGED <<conn, hpc, epc, hand, evq, sock, sent, seen, joined, bus>>
    BY <1>1 DEF Done, vars, client, events, socket, manager
  <2> QED BY <2>1, ZenonT(30) DEF StreamInv, StreamTypes, Stream, UnreadEvents, Receiving
<1> QED BY <1>1, StreamClient, StreamRead, StreamHandler, StreamEvents, StreamManager DEF Next, Read

\* No event is on its way when the daemon starts.
LEMMA StreamInit == Init => StreamInv
<1> SUFFICES ASSUME Init PROVE StreamInv
  OBVIOUS
<1>1. StreamTypes
  BY MaxAssumption, SMTT(30) DEF Init, StreamTypes
<1>2. ASSUME NEW k \in Conns PROVE Stream(k)
  <2>1. UnreadEvents(k) = <<>>
    BY FilterEmpty DEF Init, UnreadEvents
  <2> QED BY <2>1 DEF Init, Stream
<1> QED BY <1>1, <1>2 DEF StreamInv

\* A call has a request and a fate, whatever has become of it.
LEMMA CallTypesNext ==
  RegInv /\ StreamTypes /\ CallTypes /\ [Next]_vars => CallTypes'
<1> SUFFICES ASSUME RegInv, StreamTypes, CallTypes, [Next]_vars PROVE CallTypes'
  OBVIOUS
<1>1. ASSUME UNCHANGED <<call, calls, answer, resp, reply, outcome, executed>> PROVE CallTypes'
  BY <1>1 DEF CallTypes
<1>2. CASE Serve \/ HandleRegister \/ HandleUnregister \/ Broadcast \/ Done \/ UNCHANGED vars
  BY <1>1, <1>2, Zenon DEF Serve, Accept, Refuse, Spawn, HandleRegister, HandleUnregister, Broadcast, Done,
                    vars, client, replies, manager
<1>3. CASE HandleRequest
  <2>1. PICK k \in Conns : k = Head(cmds).conn
    BY <1>3, MembersTail, CommandKinds, Zenon DEF HandleRequest, RegInv
  <2>2. /\ reply' = [reply EXCEPT ![Head(cmds).conn] = "Done"]
        /\ outcome' = [outcome EXCEPT ![Head(cmds).conn] = "Done"]
        /\ executed' = executed + 1 /\ UNCHANGED <<call, calls, answer, resp>>
    BY <1>3, Zenon DEF HandleRequest, client
  <2>3. /\ reply' = [reply EXCEPT ![k] = "Done"] /\ outcome' = [outcome EXCEPT ![k] = "Done"]
        /\ executed' = executed + 1 /\ UNCHANGED <<call, calls, answer, resp>>
    BY <2>1, <2>2, Zenon
  <2> QED BY <2>3 DEF CallTypes, Fate
<1>4. ASSUME NEW k \in Conns, Events(k) PROVE CallTypes'
  BY <1>1, <1>4, Zenon DEF Events, ReceiveEvent, EventsEnd, LockEventWriter, WriteEvent, WriteEventFails,
                    client, replies, manager
<1>5. ASSUME NEW k \in Conns, Client(k) \/ ReadEof(k) PROVE CallTypes'
  <2>1. CASE Connect(k) \/ Close(k) \/ ReadEof(k)
    BY <1>1, <2>1, Zenon DEF Connect, Close, ReadEof, replies, manager
  <2>2. ASSUME NEW r \in Requests, CallServer(k, r) PROVE CallTypes'
    <3>1. /\ call' = [call EXCEPT ![k] = r] /\ calls' = [calls EXCEPT ![k] = calls[k] + 1]
          /\ UNCHANGED <<answer, resp, reply, outcome, executed>>
      BY <2>2, Zenon DEF CallServer, replies, manager
    <3> QED BY <3>1 DEF CallTypes
  <2> QED BY <1>5, <2>1, <2>2 DEF Client
<1>6. ASSUME NEW k \in Conns, ReadMessage(k) PROVE CallTypes'
  <2>1. UNCHANGED <<calls, resp, reply, executed>>
    BY <1>6, Zenon DEF ReadMessage, manager
  <2>2. CASE Head(sock[k]).type = "Event"
    <3>1. UNCHANGED <<call, answer, outcome>>
      BY <1>6, <2>2, Zenon DEF ReadMessage
    <3> QED BY <1>1, <2>1, <3>1
  <2>3. CASE Head(sock[k]).type = "Response"
    <3>1. /\ call' = [call EXCEPT ![k] = NoCall] /\ outcome' = [outcome EXCEPT ![k] = None]
          /\ answer' = [answer EXCEPT ![k] = Head(sock[k]).fate] /\ sock[k] # <<>>
      BY <1>6, <2>3, Zenon DEF ReadMessage
    <3>2. Head(sock[k]) \in Messages
      BY <3>1, MembersTail DEF StreamTypes
    <3>3. Head(sock[k]).fate \in Fate
      BY <2>3, <3>2, MessageKinds, Zenon
    <3> QED BY <2>1, <3>1, <3>3, Zenon DEF CallTypes, Fate
  <2> QED BY <1>6, <2>2, <2>3, Zenon DEF ReadMessage
<1>7. ASSUME NEW k \in Conns, Handler(k) PROVE CallTypes'
  <2>1. CASE Start(k) \/ StartFails(k) \/ Registered(k) \/ ReadFails(k) \/ LockWriter(k) \/ Join(k)
    BY <1>1, <2>1, Zenon DEF Start, StartFails, Registered, ReadFails, LockWriter, Join, client, replies, manager
  <2>2. CASE ReadRequest(k) \/ TakeReply(k) \/ WriteResponse(k) \/ WriteFails(k)
    <3>1. UNCHANGED <<call, calls, answer, executed>>
      BY <2>2, Zenon DEF ReadRequest, TakeReply, WriteResponse, WriteFails, client, manager
    <3>2. /\ resp' = resp \/ \E f \in Fate : resp' = [resp EXCEPT ![k] = f]
          /\ reply' = reply \/ reply' = [reply EXCEPT ![k] = None]
          /\ outcome' = outcome \/ outcome' = [outcome EXCEPT ![k] = "Denied"]
      BY <2>2, Zenon DEF ReadRequest, TakeReply, WriteResponse, WriteFails, CallTypes, Fate
    <3> QED BY <3>1, <3>2 DEF CallTypes, Fate
  <2> QED BY <1>7, <2>1, <2>2 DEF Handler
<1> QED BY <1>2, <1>3, <1>4, <1>5, <1>6, <1>7 DEF Next, Manager, Read
=============================================================================
