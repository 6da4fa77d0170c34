----------------------------- MODULE IpcProofs ------------------------------
(***************************************************************************)
(* Theorems about Ipc, for any finite set of connections, any peers and    *)
(* requests, and any cap and socket size: the slot counter is exact and    *)
(* the cap holds, frames are written whole, no registration is left        *)
(* behind, a subscriber's stream is the event history in order, every      *)
(* variable keeps its type, and the threads implement IpcService.  The     *)
(* steps of the stream and of the calls are in IpcStreamProofs and         *)
(* IpcCallProofs.                                                          *)
(***************************************************************************)
EXTENDS IpcCallProofs, FiniteSetTheorems

(* Slots *)

\* Few handlers are alive at any time.
LEMMA LiveFinite ==
  /\ IsFiniteSet(Live) /\ Cardinality(Live) \in Nat
  /\ \A k \in Live : Cardinality(Live \ {k}) = Cardinality(Live) - 1
  /\ \A k : k \notin Live => Cardinality(Live \cup {k}) = Cardinality(Live) + 1
<1>1. IsFiniteSet(Live)
  BY ConnsAssumption, FS_Subset DEF Live
<1> QED BY <1>1, FS_CardinalityType, FS_AddElement, FS_RemoveElement

slotVars == <<conn, backlog, claim, active, hpc>>

\* A handler thread goes from one of its states to another.
LEMMA HandlerMoves ==
  ASSUME SlotInv, NEW k \in Conns, hpc[k] # "none",
         NEW to \in HandlerStates \ {"none"}, hpc' = [hpc EXCEPT ![k] = to],
         UNCHANGED <<conn, backlog, claim, active>>
  PROVE  SlotInv'
<1>1. Live' = Live
  BY DEF SlotInv, SlotTypes, Live
<1>2. SlotTypes'
  BY DEF SlotInv, SlotTypes
<1>3. OnePlace'
  BY DEF SlotInv, SlotTypes, OnePlace, Pending
<1> QED BY <1>1, <1>2, <1>3 DEF SlotInv, Counted, SlotAccounting

\* A handler thread ends and gives its slot back.
LEMMA HandlerEnds ==
  ASSUME SlotInv, NEW k \in Conns, hpc[k] # "none", hpc' = [hpc EXCEPT ![k] = "none"],
         active' = active - 1, UNCHANGED <<conn, backlog, claim>>
  PROVE  SlotInv'
<1>1. Live' = Live \ {k} /\ k \in Live
  BY DEF SlotInv, SlotTypes, Live
<1>2. Cardinality(Live') = Cardinality(Live) - 1 /\ Cardinality(Live) \in Nat
      /\ Cardinality(Live') \in Nat
  BY <1>1, LiveFinite, FS_RemoveElement, FS_Subset, FS_CardinalityType
<1>3. SlotTypes'
  BY <1>2 DEF SlotInv, SlotTypes, Counted, SlotAccounting, HandlerStates
<1>4. OnePlace'
  BY DEF SlotInv, SlotTypes, OnePlace, Pending
<1>5. Counted'
  <2>1. SlotAccounting'
    BY <1>2, MaxAssumption DEF SlotInv, SlotTypes, Counted, SlotAccounting
  <2>2. claim # NoClaim => claim.prior \in Nat /\ Cardinality(Live) <= claim.prior
    BY DEF SlotInv, SlotTypes, Counted
  <2>3. claim' # NoClaim => Cardinality(Live') <= claim'.prior
    BY <1>2, <2>2
  <2> QED BY <2>1, <2>3 DEF Counted
<1> QED BY <1>3, <1>4, <1>5 DEF SlotInv

\* A client connects.
LEMMA ConnectSlot ==
  ASSUME SlotInv, NEW k \in Conns, Connect(k)
  PROVE  SlotInv'
<1>1. /\ conn[k] = "none" /\ conn' = [conn EXCEPT ![k] = "open"]
      /\ backlog' = Append(backlog, k) /\ UNCHANGED <<claim, active, hpc>>
  BY DEF Connect
<1>2. Members(backlog') = Members(backlog) \cup {k}
  BY <1>1, MembersAppend DEF SlotInv, SlotTypes
<1>3. k \notin Members(backlog) /\ hpc[k] = "none" /\ claim.conn # k
  BY <1>1 DEF SlotInv, OnePlace, Pending
<1>4. SlotTypes'
  BY <1>1 DEF SlotInv, SlotTypes
<1>5. OnePlace'
  <2>1. \A i, j \in DOMAIN backlog' : backlog'[i] = backlog'[j] => i = j
    <3>1. DOMAIN backlog' = 1 .. Len(backlog) + 1 /\ DOMAIN backlog = 1 .. Len(backlog)
          /\ Len(backlog) \in Nat
      BY <1>1 DEF SlotInv, SlotTypes
    <3>2. backlog'[Len(backlog) + 1] = k /\ \A i \in 1 .. Len(backlog) : backlog'[i] = backlog[i]
      BY <1>1 DEF SlotInv, SlotTypes
    <3>3. \A i \in 1 .. Len(backlog) : backlog[i] # k
      BY <1>3, <3>1 DEF Members
    <3>4. \A i \in 1 .. Len(backlog) + 1 : i \in 1 .. Len(backlog) \/ i = Len(backlog) + 1
      BY <3>1
    <3> QED BY <3>1, <3>2, <3>3, <3>4 DEF SlotInv, OnePlace
  <2>2. Members(backlog) \subseteq Conns
    BY DEF SlotInv, SlotTypes, Members
  <2> QED BY <1>1, <1>2, <1>3, <2>1, <2>2 DEF SlotInv, SlotTypes, OnePlace, Pending
<1>6. Counted'
  BY <1>1 DEF SlotInv, Counted, SlotAccounting, Live
<1> QED BY <1>4, <1>5, <1>6 DEF SlotInv

\* A client closes its end.
LEMMA CloseSlot ==
  ASSUME SlotInv, NEW k \in Conns, Close(k)
  PROVE  SlotInv'
<1>1. /\ conn[k] = "open" /\ conn' = [conn EXCEPT ![k] = "closed"]
      /\ UNCHANGED <<backlog, claim, active, hpc>>
  BY DEF Close, server
<1>2. Members(backlog) \subseteq Conns
  BY DEF SlotInv, SlotTypes, Members
<1> QED BY <1>1, <1>2 DEF SlotInv, SlotTypes, OnePlace, Pending, Counted, SlotAccounting, Live

\* serve takes a connection from the backlog and claims a slot for it.
LEMMA AcceptSlot ==
  ASSUME SlotInv, Accept
  PROVE  SlotInv'
<1> DEFINE k == Head(backlog)
<1>1. /\ claim = NoClaim /\ backlog # <<>> /\ claim' = [conn |-> k, prior |-> active]
      /\ backlog' = Tail(backlog) /\ active' = active + 1 /\ UNCHANGED <<conn, hpc>>
  BY DEF Accept, client
<1>2. /\ k \in Conns /\ Tail(backlog) \in Seq(Conns) /\ k = backlog[1]
      /\ Len(Tail(backlog)) = Len(backlog) - 1 /\ Len(backlog) \in Nat \ {0}
      /\ \A i \in 1 .. Len(backlog) - 1 : backlog'[i] = backlog[i + 1]
      /\ Members(backlog) = Members(backlog') \cup {k}
      /\ DOMAIN backlog = 1 .. Len(backlog) /\ DOMAIN backlog' = 1 .. Len(backlog) - 1
  BY <1>1, MembersTail DEF SlotInv, SlotTypes
<1>3. claim'.conn = k /\ claim'.prior = active
  BY <1>1
<1>4. k \notin Members(backlog')
  <2>1. ASSUME NEW i \in 1 .. Len(backlog) - 1 PROVE backlog'[i] # k
    <3>1. i + 1 \in DOMAIN backlog /\ 1 \in DOMAIN backlog /\ i + 1 # 1
      BY <1>2
    <3>2. backlog[i + 1] # backlog[1]
      BY <3>1 DEF SlotInv, OnePlace
    <3> QED BY <1>2, <3>2
  <2> QED BY <1>2, <2>1 DEF Members
<1> HIDE DEF k
<1>5. claim' # NoClaim
  <2>1. NoClaim.conn = "none"
    BY DEF NoClaim
  <2> QED BY <1>2, <1>3, <2>1, ConnsAssumption
<1>6. SlotTypes'
  BY <1>1, <1>2 DEF SlotInv, SlotTypes
<1>7. OnePlace'
  <2>1. ASSUME NEW i \in DOMAIN backlog', NEW j \in DOMAIN backlog', backlog'[i] = backlog'[j]
        PROVE  i = j
    <3>1. i + 1 \in DOMAIN backlog /\ j + 1 \in DOMAIN backlog /\ i \in Int /\ j \in Int
      BY <1>2
    <3>2. backlog[i + 1] = backlog[j + 1]
      BY <1>2, <2>1
    <3>3. i + 1 = j + 1
      BY <3>1, <3>2 DEF SlotInv, OnePlace
    <3> QED BY <3>1, <3>3
  <2>2. conn[k] # "none"
    BY <1>2 DEF SlotInv, OnePlace
  <2> QED BY <1>1, <1>2, <1>3, <1>4, <2>1, <2>2 DEF SlotInv, OnePlace, Pending
<1>8. Counted'
  BY <1>1, <1>3, <1>5, LiveFinite DEF SlotInv, Counted, SlotAccounting, Live
<1> QED BY <1>6, <1>7, <1>8 DEF SlotInv

\* serve gives the slot back, or hands it to a new handler thread.
LEMMA RefuseSlot ==
  ASSUME SlotInv, Refuse
  PROVE  SlotInv'
<1>1. claim # NoClaim /\ claim' = NoClaim /\ active' = active - 1 /\ UNCHANGED <<conn, backlog, hpc>>
  BY DEF Refuse, client
<1>2. Live' = Live /\ Cardinality(Live) \in Nat
  BY <1>1, LiveFinite DEF Live
<1>3. NoClaim.conn \notin Conns
  BY ConnsAssumption DEF NoClaim
<1>4. Members(backlog) \subseteq Conns
  BY DEF SlotInv, SlotTypes, Members
<1>5. OnePlace'
  BY <1>1, <1>3, <1>4 DEF SlotInv, OnePlace, Pending
<1>6. SlotTypes' /\ Counted'
  BY <1>1, <1>2 DEF SlotInv, SlotTypes, Counted, SlotAccounting
<1> QED BY <1>5, <1>6 DEF SlotInv

\* The handler thread takes over the slot serve claimed for its connection
\* (serve, ConnectionSlot).
LEMMA SpawnSlot ==
  ASSUME SlotInv, Spawn
  PROVE  SlotInv'
<1> DEFINE k == claim.conn
<1>1. /\ claim # NoClaim /\ claim' = NoClaim /\ claim.prior < MaxConnections
      /\ hpc' = [hpc EXCEPT ![k] = "start"] /\ UNCHANGED <<conn, backlog, active>>
  BY DEF Spawn, client
<1>2. k \in Conns /\ claim.prior \in Nat
  BY <1>1 DEF SlotInv, SlotTypes
<1>3. hpc[k] = "none" /\ conn[k] # "none" /\ k \notin Members(backlog)
  BY <1>2 DEF SlotInv, OnePlace, Pending
<1> HIDE DEF k
<1>4. Live' = Live \cup {k} /\ k \notin Live
  BY <1>1, <1>2, <1>3 DEF Live, SlotInv, SlotTypes
<1>5. Cardinality(Live') = Cardinality(Live) + 1 /\ Cardinality(Live) \in Nat
  BY <1>4, LiveFinite
<1>6. NoClaim.conn \notin Conns
  BY ConnsAssumption DEF NoClaim
<1>7. Members(backlog) \subseteq Conns
  BY DEF SlotInv, SlotTypes, Members
<1>8. SlotTypes'
  BY <1>1, Zenon DEF SlotInv, SlotTypes, HandlerStates
<1>9. OnePlace'
  BY <1>1, <1>2, <1>3, <1>6, <1>7 DEF SlotInv, SlotTypes, OnePlace, Pending
<1>10. Counted'
  BY <1>1, <1>2, <1>5, MaxAssumption DEF SlotInv, Counted, SlotAccounting
<1> QED BY <1>8, <1>9, <1>10 DEF SlotInv

\* Every step keeps the slots in order.
LEMMA SlotNext == SlotInv /\ [Next]_vars => SlotInv'
<1> SUFFICES ASSUME SlotInv, [Next]_vars PROVE SlotInv'
  OBVIOUS
<1>1. ASSUME UNCHANGED slotVars PROVE SlotInv'
  BY <1>1 DEF slotVars, SlotInv, SlotTypes, OnePlace, Pending, Counted, SlotAccounting, Live, Members
<1>2. CASE Serve
  BY <1>2, AcceptSlot, RefuseSlot, SpawnSlot DEF Serve
<1>3. CASE Manager \/ Broadcast \/ Done \/ UNCHANGED vars
  <2>1. UNCHANGED slotVars
    BY <1>3 DEF Manager, HandleRegister, HandleUnregister, HandleRequest, Broadcast, Done,
                vars, client, server, slotVars
  <2> QED BY <1>1, <2>1
<1>4. ASSUME NEW k \in Conns, Client(k) \/ Read(k) PROVE SlotInv'
  <2>1. CASE Connect(k)
    BY <2>1, ConnectSlot
  <2>2. CASE Close(k)
    BY <2>2, CloseSlot
  <2>3. CASE ReadMessage(k) \/ \E r \in Requests : CallServer(k, r)
    <3>1. UNCHANGED slotVars
      BY <2>3, Zenon DEF ReadMessage, CallServer, server, slotVars
    <3> QED BY <1>1, <3>1
  <2> QED BY <1>4, <2>1, <2>2, <2>3 DEF Client, Read, ReadEof
<1>5. ASSUME NEW k \in Conns, Handler(k) PROVE SlotInv'
  <2>1. CASE StartFails(k) \/ Join(k)
    <3>1. hpc[k] # "none" /\ hpc' = [hpc EXCEPT ![k] = "none"] /\ active' = active - 1
          /\ UNCHANGED <<conn, backlog, claim>>
      BY <2>1 DEF StartFails, Join, client
    <3> QED BY <3>1, HandlerEnds, Zenon
  <2>2. CASE Start(k) \/ Registered(k) \/ ReadRequest(k) \/ ReadFails(k) \/ TakeReply(k)
             \/ LockWriter(k) \/ WriteResponse(k) \/ WriteFails(k)
    <3>1. PICK to \in HandlerStates \ {"none"} :
            hpc[k] # "none" /\ hpc' = [hpc EXCEPT ![k] = to] /\ UNCHANGED <<conn, backlog, claim, active>>
      BY <2>2 DEF Start, Registered, ReadRequest, ReadFails, TakeReply, LockWriter, WriteResponse,
                  WriteFails, Leave, client, server, HandlerStates
    <3> QED BY <3>1, HandlerMoves, ZenonT(30)
  <2> QED BY <1>5, <2>1, <2>2 DEF Handler
<1>6. ASSUME NEW k \in Conns, Events(k) PROVE SlotInv'
  <2>1. UNCHANGED slotVars
    BY <1>6, Zenon DEF Events, ReceiveEvent, EventsEnd, LockEventWriter, WriteEvent, WriteEventFails,
                client, server, slotVars
  <2> QED BY <1>1, <2>1
<1> QED BY <1>2, <1>3, <1>4, <1>5, <1>6 DEF Next

\* serve starts with a counter of 0 and no connection (serve).
LEMMA SlotInit == Init => SlotInv
<1> SUFFICES ASSUME Init PROVE SlotInv
  OBVIOUS
<1>1. Live = {} /\ Cardinality(Live) = 0
  BY FS_EmptySet, Zenon DEF Init, Live
<1>2. Members(backlog) = {}
  BY DEF Init, Members
<1>3. NoClaim.conn \notin Conns
  BY ConnsAssumption DEF NoClaim
<1>4. SlotTypes
  BY DEF Init, SlotTypes, HandlerStates
<1> QED BY <1>1, <1>2, <1>3, <1>4, MaxAssumption
        DEF Init, SlotInv, OnePlace, Pending, Counted, SlotAccounting

\* The counter that serve, the handlers and ConnectionSlot::drop share is exact,
\* and the cap holds, for any number of connections and any cap.
THEOREM SlotsAccounted == Spec => []SlotAccounting
<1>1. SlotInv => SlotAccounting
  BY DEF SlotInv, Counted
<1> QED BY <1>1, SlotInit, SlotNext, PTL DEF Spec
-----------------------------------------------------------------------------
(* Frames and registrations *)

\* A response and an event are never being written to one socket at the same
\* time (the Mutex around the writer in handle_connection).
THEOREM FramesAreWhole == Spec => []WholeFrames
<1>1. Init => LockInv
  BY DEF Init, LockInv, HandlerStates
<1>2. LockInv => WholeFrames
  BY DEF LockInv, WholeFrames
<1> QED BY <1>1, <1>2, SlotInit, SlotNext, LockNext, PTL DEF Spec

\* No registration outlives its connection: while the bus knows a client whose
\* handler is leaving or gone, the command that removes it is on the channel
\* (the end of handle_connection, EventBus::unregister).
THEOREM RegistrationsEnd == Spec => []NoStaleRegistration
<1>1. RegInv => NoStaleRegistration
  BY Zenon DEF RegInv, NoStaleRegistration, Members
<1> QED BY <1>1, RegInit, RegNext, SlotInit, SlotNext, PTL DEF Spec
-----------------------------------------------------------------------------
(* The event stream, the types and the service *)

\* The invariants of the threads hold when the daemon starts and are kept by
\* every step.
LEMMA ThreadInvariant ==
  /\ Init => ThreadInv
  /\ ThreadInv /\ [Next]_vars => ThreadInv'
<1>1. Init => LockInv /\ CallTypes
  BY DEF Init, LockInv, HandlerStates, CallTypes, Fate
<1>2. StreamInv => StreamTypes
  BY DEF StreamInv
<1> QED BY <1>1, <1>2, SlotInit, RegInit, StreamInit, SlotNext, LockNext, RegNext, CallTypesNext,
           StreamNext, SMTT(30) DEF ThreadInv

\* A client that is still there reads the events in the order they were broadcast
\* and without a gap from its registration, up to the last one as long as the bus
\* knows it (EventBus::broadcast, the event thread of handle_connection).
THEOREM StreamsAreInOrder == Spec => []StreamInOrder
<1>1. ThreadInv => StreamInOrder
  <2> SUFFICES ASSUME ThreadInv, NEW k \in joined, conn[k] = "open"
               PROVE  /\ \A i \in DOMAIN Unread(k) : Unread(k)[i] = seen[k] + i
                      /\ k \in bus => Len(Unread(k)) = sent - seen[k]
    BY Zenon DEF StreamInOrder
  <2>1. k \in Conns /\ Stream(k) /\ StreamTypes
    BY Zenon DEF ThreadInv, RegInv, StreamInv
  <2>2. /\ Ordered(UnreadEvents(k), hand[k], evq[k], seen[k])
        /\ k \in bus => Last(UnreadEvents(k), hand[k], evq[k], seen[k]) = sent
    BY <2>1, ZenonT(30) DEF Stream
  <2> QED BY <2>1, <2>2, UnreadOrdered, Zenon
<1> QED BY <1>1, ThreadInvariant, PTL DEF Spec

\* Every variable has its type: the sockets hold responses and events, and the
\* channel holds commands of connections (ipc/server.rs, manager/events.rs).
THEOREM TypeCorrect == Spec => []TypeOK
<1>1. ThreadInv => TypeOK
  BY DEF ThreadInv, SlotInv, SlotTypes, LockInv, RegInv, CallTypes, StreamInv, StreamTypes, TypeOK,
         HandlerStates, Messages, Number, Commands
<1> QED BY <1>1, ThreadInvariant, PTL DEF Spec

\* The threads, sockets, locks and queues do what IpcService promises: a permitted
\* call is executed exactly once before it is answered, a denied one never, the
\* answer is the call's own, and the events come one by one from the registration
\* on (ipc/server.rs, ipc/client.rs, manager/events.rs).
THEOREM ImplementsService == Spec => ServiceSpec
<1>1. Init => Service!Init
  <2> SUFFICES ASSUME Init PROVE Service!Init
    OBVIOUS
  <2>1. {k \in Conns : conn[k] = "closed"} = {}
    BY DEF Init
  <2> QED BY <2>1 DEF Init, Service!Init, Service!NoCall, NoCall, None
<1> QED BY <1>1, ServiceStep, ThreadInvariant, CallInvariant, PTL DEF Spec, ServiceSpec, Service!Spec
=============================================================================
