--------------------------- MODULE IpcCallProofs ----------------------------
(***************************************************************************)
(* The life of a call in Ipc: the steps of every thread keep a client's    *)
(* one outstanding call in one place (its socket, the command channel, its *)
(* handler, the answer), and each is a step of IpcService or a stutter.    *)
(***************************************************************************)
EXTENDS IpcStreamProofs

(* The life of a call *)

\* The client sends its next request (Client::request).
LEMMA CallBegins ==
  ASSUME NEW k, NEW c, NEW in, NEW h, NEW asked, NEW rep, NEW rsp, NEW written, NEW out,
         OneCall(k, c, in, h, asked, rep, rsp, written, out),
         c = NoCall, NEW r, r # NoCall
  PROVE  in = <<>> /\ OneCall(k, r, <<r>>, h, asked, rep, rsp, written, out)
BY DEF OneCall, Busy, None

\* The handler reads the request and asks the manager, or denies it
\* (request_loop).
LEMMA CallIsRead ==
  ASSUME NEW k, NEW c, NEW in, NEW h, NEW asked, NEW rep, NEW rsp, NEW written, NEW out,
         OneCall(k, c, in, h, asked, rep, rsp, written, out),
         h = "read", in # <<>>
  PROVE  /\ in = <<c>> /\ asked = <<>> /\ c # NoCall /\ out = None
         /\ <<k, c>> \in Permitted =>
              OneCall(k, c, <<>>, "ask", <<Request(k, c)>>, rep, rsp, written, out)
         /\ OneCall(k, c, <<>>, "answer", asked, rep, "Denied", written, "Denied")
BY DEF OneCall, Busy, None

\* The manager executes the request and replies (handle_request).
LEMMA CallIsExecuted ==
  ASSUME NEW k, NEW c, NEW in, NEW h, NEW asked, NEW rep, NEW rsp, NEW written, NEW out,
         OneCall(k, c, in, h, asked, rep, rsp, written, out),
         asked # <<>>
  PROVE  /\ asked = <<Request(k, c)>> /\ c # NoCall /\ out = None /\ <<k, c>> \in Permitted
         /\ OneCall(k, c, in, h, <<>>, "Done", rsp, written, "Done")
BY DEF OneCall, Busy, None

\* The handler takes the reply (request_loop).
LEMMA CallHasReply ==
  ASSUME NEW k, NEW c, NEW in, NEW h, NEW asked, NEW rep, NEW rsp, NEW written, NEW out,
         OneCall(k, c, in, h, asked, rep, rsp, written, out),
         h = "ask", rep # None
  PROVE  OneCall(k, c, in, "answer", asked, None, rep, written, out)
BY DEF OneCall, Busy, None

\* The handler writes the response, or leaves when it cannot (write_message).
LEMMA CallIsWritten ==
  ASSUME NEW k, NEW c, NEW in, NEW h, NEW asked, NEW rep, NEW rsp, NEW written, NEW out,
         OneCall(k, c, in, h, asked, rep, rsp, written, out),
         h = "write"
  PROVE  /\ written = <<>>
         /\ OneCall(k, c, in, "read", asked, rep, None, <<Response(rsp)>>, out)
         /\ OneCall(k, c, in, "join", asked, rep, None, written, out)
BY DEF OneCall, Busy, None

\* The client reads the response to its request (Client::request).
LEMMA CallReturns ==
  ASSUME NEW k, NEW c, NEW in, NEW h, NEW asked, NEW rep, NEW rsp, NEW written, NEW out,
         OneCall(k, c, in, h, asked, rep, rsp, written, out),
         written # <<>>
  PROVE  /\ written = <<Response(out)>> /\ out # None
         /\ OneCall(k, NoCall, in, h, asked, rep, rsp, <<>>, None)
BY DEF OneCall, Busy, None

\* A handler that is not at work on a request stays so, or nothing moves.
LEMMA CallKept ==
  ASSUME NEW k \in Conns, CallOf(k),
         call'[k] = call[k], inbox'[k] = inbox[k], reply'[k] = reply[k], resp'[k] = resp[k],
         outcome'[k] = outcome[k], Asked(k)' = Asked(k), UnreadResponses(k)' = UnreadResponses(k),
         hpc'[k] = hpc[k] \/ (hpc[k] \notin Busy /\ hpc'[k] \notin Busy)
  PROVE  CallOf(k)'
BY DEF CallOf, OneCall, Busy

\* Whose request a command is (Command::Ipc).
LEMMA RequestKinds ==
  /\ \A j, k \in Conns : Register(k) \notin RequestsOf(j) /\ Unregister(k) \notin RequestsOf(j)
  /\ \A j, k \in Conns, r \in Requests : Request(k, r) \in RequestsOf(j) <=> j = k
  /\ \A c \in Commands : c.type = "Request" => \E r \in Requests : c = Request(c.conn, r)
  /\ \A c \in Commands : c.type # "Request" => \A j \in Conns : c \notin RequestsOf(j)
<1>1. ASSUME NEW k, NEW r PROVE /\ Request(k, r).type = "Request" /\ Request(k, r).conn = k
                                /\ Register(k).type = "Register" /\ Unregister(k).type = "Unregister"
  BY DEF Request, Register, Unregister
<1>2. ASSUME NEW j \in Conns, NEW c \in RequestsOf(j) PROVE c.type = "Request" /\ c.conn = j
  BY <1>1 DEF RequestsOf
<1>3. \A j \in Conns, r \in Requests : Request(j, r) \in RequestsOf(j)
  BY DEF RequestsOf
<1>4. \A c \in Commands : c.type = "Request" => \E r \in Requests : c = Request(c.conn, r)
  BY <1>1 DEF Commands
<1> QED BY <1>1, <1>2, <1>3, <1>4

\* A command is sent on the channel.
LEMMA AskedSend ==
  ASSUME RegInv, NEW c \in Commands, cmds' = Append(cmds, c), NEW j \in Conns
  PROVE  Asked(j)' = IF c \in RequestsOf(j) THEN Append(Asked(j), c) ELSE Asked(j)
<1>1. cmds \in Seq(Commands)
  BY DEF RegInv
<1>2. Filter(Append(cmds, c), RequestsOf(j))
        = IF c \in RequestsOf(j) THEN Append(Filter(cmds, RequestsOf(j)), c) ELSE Filter(cmds, RequestsOf(j))
  BY <1>1, FilterAppend, Zenon
<1> QED BY <1>2 DEF Asked

\* The manager takes a command from the channel.
LEMMA AskedTake ==
  ASSUME RegInv, cmds # <<>>, cmds' = Tail(cmds), NEW j \in Conns
  PROVE  /\ Head(cmds) \in RequestsOf(j) => /\ Asked(j) # <<>> /\ Head(Asked(j)) = Head(cmds)
                                            /\ Asked(j)' = Tail(Asked(j))
         /\ Head(cmds) \notin RequestsOf(j) => Asked(j)' = Asked(j)
<1>1. cmds \in Seq(Commands)
  BY DEF RegInv
<1>2. Asked(j)' = Filter(Tail(cmds), RequestsOf(j))
  BY DEF Asked
<1> QED BY <1>1, <1>2, FilterTail DEF Asked

\* A request is permitted when the policy's check lets it pass (policy_check,
\* required_capability).
LEMMA CheckPermits ==
  ASSUME NEW k \in Conns, NEW r \in Requests
  PROVE  policy_check(Peer[k], required_capability(r)) <=> <<k, r>> \in Permitted
BY DEF policy_check, required_capability, Permitted, ViewRequests

\* The steps of serve and of the clients, apart from reading.
LEMMA CallClient ==
  ASSUME SlotInv, CallTypes, RegInv, CallInv, Serve \/ \E k \in Conns : Client(k) \/ ReadEof(k)
  PROVE  CallInv'
<1>1. UNCHANGED <<sock, cmds, reply, resp, outcome>>
  BY DEF Serve, Accept, Refuse, Spawn, Client, Connect, Close, CallServer, ReadEof,
         socket, replies
<1>2. \A k \in Conns : Asked(k)' = Asked(k) /\ UnreadResponses(k)' = UnreadResponses(k)
  BY <1>1 DEF Asked, UnreadResponses
<1>3. CASE Spawn
  <2>1. UNCHANGED <<call, inbox>> /\ hpc' = [hpc EXCEPT ![claim.conn] = "start"]
    BY <1>3 DEF Spawn, client
  <2>2. hpc \in [Conns -> HandlerStates] /\ \A k \in Conns : claim.conn = k => hpc[k] = "none"
    BY DEF SlotInv, SlotTypes, OnePlace, Pending
  <2>3. ASSUME NEW k \in Conns PROVE hpc'[k] = hpc[k] \/ (hpc[k] \notin Busy /\ hpc'[k] \notin Busy)
    <3>1. CASE claim.conn = k
      <4>1. hpc[k] = "none" /\ hpc'[k] = "start"
        BY <2>1, <2>2, <3>1
      <4> QED BY <4>1 DEF Busy
    <3>2. CASE claim.conn # k
      BY <2>1, <2>2, <3>2
    <3> QED BY <3>1, <3>2
  <2> QED BY <1>1, <1>2, <2>1, <2>3, CallKept DEF CallInv
<1>4. ASSUME NEW k \in Conns, NEW r \in Requests, CallServer(k, r) PROVE CallInv'
  <2>1. /\ call[k] = NoCall /\ call' = [call EXCEPT ![k] = r] /\ hpc' = hpc
        /\ inbox' = [inbox EXCEPT ![k] = Append(inbox[k], r)]
    BY <1>4 DEF CallServer, Waiting
  <2>2. /\ call'[k] = r /\ inbox'[k] = Append(inbox[k], r)
        /\ \A j \in Conns : j # k => call'[j] = call[j] /\ inbox'[j] = inbox[j]
    BY <2>1 DEF CallTypes, RegInv
  <2>3. CallOf(k)
    BY DEF CallInv
  <2>4. r # NoCall
    BY RequestsAssumption
  <2>5. /\ inbox[k] = <<>>
        /\ OneCall(k, r, <<r>>, hpc[k], Asked(k), reply[k], resp[k], UnreadResponses(k), outcome[k])
    BY <2>1, <2>3, <2>4, CallBegins DEF CallOf
  <2>6. inbox'[k] = <<r>>
    BY <2>2, <2>5
  <2>7. CallOf(k)'
    <3>1. hpc'[k] = hpc[k] /\ reply'[k] = reply[k] /\ resp'[k] = resp[k] /\ outcome'[k] = outcome[k]
      BY <1>1, <2>1
    <3> QED BY <1>2, <2>2, <2>5, <2>6, <3>1, Zenon DEF CallOf
  <2>8. ASSUME NEW j \in Conns, j # k PROVE CallOf(j)'
    <3>1. /\ hpc'[j] = hpc[j] /\ reply'[j] = reply[j] /\ resp'[j] = resp[j] /\ outcome'[j] = outcome[j]
          /\ call'[j] = call[j] /\ inbox'[j] = inbox[j] /\ CallOf(j)
      BY <1>1, <2>1, <2>2, <2>8 DEF CallInv
    <3> QED BY <1>2, <3>1, CallKept
  <2> QED BY <2>7, <2>8 DEF CallInv
<1>5. CASE UNCHANGED <<call, inbox, hpc>>
  BY <1>1, <1>2, <1>5, CallKept DEF CallInv
<1>6. Accept \/ Refuse \/ (\E k \in Conns : Connect(k) \/ Close(k) \/ ReadEof(k)) => UNCHANGED <<call, inbox, hpc>>
  BY DEF Accept, Refuse, Connect, Close, ReadEof, client
<1> QED BY <1>3, <1>4, <1>5, <1>6 DEF Serve, Client

\* The client takes the response to its call, and passes over events
\* (Client::request, next_event): what it returns is the call's outcome.
LEMMA CallRead ==
  ASSUME StreamTypes, CallTypes, CallInv, NEW k \in Conns, ReadMessage(k)
  PROVE  /\ CallInv'
         /\ Head(sock[k]).type = "Response" => outcome[k] # None /\ Head(sock[k]).fate = outcome[k]
<1>1. /\ sock[k] # <<>> /\ sock' = [sock EXCEPT ![k] = Tail(sock[k])]
      /\ UNCHANGED <<inbox, hpc, resp, reply, cmds>> /\ Head(sock[k]).type \in {"Event", "Response"}
  BY DEF ReadMessage
<1>2. sock \in [Conns -> Seq(Messages)] /\ sock[k] \in Seq(Messages)
  BY DEF StreamTypes
<1>3. sock'[k] = Tail(sock[k]) /\ \A j \in Conns : j # k => sock'[j] = sock[j]
  BY <1>1, <1>2
<1>4. /\ \A j \in Conns : Asked(j)' = Asked(j)
      /\ \A j \in Conns : j # k => UnreadResponses(j)' = UnreadResponses(j)
  BY <1>1, <1>3 DEF Asked, UnreadResponses
<1>5. /\ Head(sock[k]) \in Responses =>
           /\ UnreadResponses(k) # <<>> /\ Head(UnreadResponses(k)) = Head(sock[k])
           /\ UnreadResponses(k)' = Tail(UnreadResponses(k))
      /\ Head(sock[k]) \notin Responses => UnreadResponses(k)' = UnreadResponses(k)
  <2>1. UnreadResponses(k)' = Filter(Tail(sock[k]), Responses)
    BY <1>3 DEF UnreadResponses
  <2> QED BY <1>1, <1>2, <2>1, FilterTail DEF UnreadResponses
<1>6. Head(sock[k]) \in Messages
  BY <1>1, <1>2, MembersTail
<1>7. CallOf(k)
  BY DEF CallInv
<1>8. CASE Head(sock[k]).type = "Event"
  <2>1. UNCHANGED <<call, outcome>>
    BY <1>8 DEF ReadMessage
  <2>2. UnreadResponses(k)' = UnreadResponses(k)
    BY <1>5, <1>6, <1>8, MessageKinds
  <2>3. ASSUME NEW j \in Conns PROVE CallOf(j)'
    <3>1. UnreadResponses(j)' = UnreadResponses(j)
      BY <1>4, <2>2
    <3>2. /\ hpc'[j] = hpc[j] /\ reply'[j] = reply[j] /\ resp'[j] = resp[j] /\ outcome'[j] = outcome[j]
          /\ call'[j] = call[j] /\ inbox'[j] = inbox[j] /\ CallOf(j)
      BY <1>1, <2>1 DEF CallInv
    <3> QED BY <1>4, <3>1, <3>2, CallKept
  <2> QED BY <1>8, <2>3 DEF CallInv
<1>9. CASE Head(sock[k]).type = "Response"
  <2>1. call' = [call EXCEPT ![k] = NoCall] /\ outcome' = [outcome EXCEPT ![k] = None]
    BY <1>9 DEF ReadMessage
  <2>2. /\ call'[k] = NoCall /\ outcome'[k] = None
        /\ \A j \in Conns : j # k => call'[j] = call[j] /\ outcome'[j] = outcome[j]
    BY <2>1 DEF CallTypes
  <2>3. Head(sock[k]) \in Responses
    BY <1>6, <1>9, MessageKinds
  <2>4. /\ UnreadResponses(k) = <<Response(outcome[k])>> /\ outcome[k] # None
        /\ OneCall(k, NoCall, inbox[k], hpc[k], Asked(k), reply[k], resp[k], <<>>, None)
    BY <1>5, <1>7, <2>3, CallReturns DEF CallOf
  <2>5. Head(sock[k]) = Response(outcome[k]) /\ UnreadResponses(k)' = <<>>
    BY <1>5, <2>3, <2>4
  <2>6. Head(sock[k]).fate = outcome[k]
    BY <2>5 DEF Response
  <2>7. CallOf(k)'
    <3>1. hpc'[k] = hpc[k] /\ reply'[k] = reply[k] /\ resp'[k] = resp[k] /\ inbox'[k] = inbox[k]
      BY <1>1
    <3> QED BY <1>4, <2>2, <2>4, <2>5, <3>1, Zenon DEF CallOf
  <2>8. ASSUME NEW j \in Conns, j # k PROVE CallOf(j)'
    <3>1. /\ hpc'[j] = hpc[j] /\ reply'[j] = reply[j] /\ resp'[j] = resp[j] /\ outcome'[j] = outcome[j]
          /\ call'[j] = call[j] /\ inbox'[j] = inbox[j] /\ CallOf(j)
      BY <1>1, <2>2, <2>8 DEF CallInv
    <3> QED BY <1>4, <2>8, <3>1, CallKept, Zenon
  <2> QED BY <2>4, <2>6, <2>7, <2>8 DEF CallInv
<1> QED BY <1>1, <1>8, <1>9

\* The manager executes a request that is permitted and has had no outcome
\* (handle_request).
LEMMA CallExecute ==
  ASSUME RegInv, CallTypes, CallInv, HandleRequest
  PROVE  /\ CallInv'
         /\ \E k \in Conns : /\ call[k] # NoCall /\ outcome[k] = None /\ <<k, call[k]>> \in Permitted
                             /\ outcome' = [outcome EXCEPT ![k] = "Done"]
<1>1. /\ cmds # <<>> /\ Head(cmds).type = "Request" /\ cmds' = Tail(cmds)
      /\ UNCHANGED <<call, inbox, hpc, resp, sock>>
  BY DEF HandleRequest, client, socket
<1>2. Head(cmds) \in Commands
  BY <1>1, MembersTail DEF RegInv
<1>3. PICK k \in Conns : Head(cmds).conn = k
  BY <1>2, CommandKinds
<1>4. reply' = [reply EXCEPT ![k] = "Done"] /\ outcome' = [outcome EXCEPT ![k] = "Done"]
  <2>1. /\ reply' = [reply EXCEPT ![Head(cmds).conn] = "Done"]
        /\ outcome' = [outcome EXCEPT ![Head(cmds).conn] = "Done"]
    BY Zenon DEF HandleRequest
  <2> QED BY <1>3, <2>1, Zenon
<1>5. \A j \in Conns : Head(cmds) \in RequestsOf(j) <=> j = k
  BY <1>1, <1>2, <1>3, RequestKinds
<1>6. /\ Asked(k) # <<>> /\ Asked(k)' = Tail(Asked(k))
      /\ \A j \in Conns : j # k => Asked(j)' = Asked(j)
  BY <1>1, <1>5, AskedTake
<1>7. \A j \in Conns : UnreadResponses(j)' = UnreadResponses(j)
  BY <1>1 DEF UnreadResponses
<1>8. CallOf(k)
  BY DEF CallInv
<1>9. /\ Asked(k) = <<Request(k, call[k])>> /\ call[k] # NoCall /\ outcome[k] = None
      /\ <<k, call[k]>> \in Permitted
      /\ OneCall(k, call[k], inbox[k], hpc[k], <<>>, "Done", resp[k], UnreadResponses(k), "Done")
  BY <1>6, <1>8, CallIsExecuted DEF CallOf
<1>10. Asked(k)' = <<>>
  BY <1>6, <1>9
<1>11. /\ reply'[k] = "Done" /\ outcome'[k] = "Done"
       /\ \A j \in Conns : j # k => reply'[j] = reply[j] /\ outcome'[j] = outcome[j]
  BY <1>4 DEF CallTypes
<1>12. CallOf(k)'
  <2>1. call'[k] = call[k] /\ hpc'[k] = hpc[k] /\ resp'[k] = resp[k] /\ inbox'[k] = inbox[k]
    BY <1>1
  <2> QED BY <1>7, <1>9, <1>10, <1>11, <2>1, Zenon DEF CallOf
<1>13. ASSUME NEW j \in Conns, j # k PROVE CallOf(j)'
  <2>1. /\ hpc'[j] = hpc[j] /\ reply'[j] = reply[j] /\ resp'[j] = resp[j] /\ outcome'[j] = outcome[j]
        /\ call'[j] = call[j] /\ inbox'[j] = inbox[j] /\ CallOf(j)
    BY <1>1, <1>11, <1>13 DEF CallInv
  <2> QED BY <1>6, <1>7, <1>13, <2>1, CallKept
<1>14. \E j \in Conns : /\ call[j] # NoCall /\ outcome[j] = None /\ <<j, call[j]>> \in Permitted
                        /\ outcome' = [outcome EXCEPT ![j] = "Done"]
  BY <1>3, <1>4, <1>9, Zenon
<1>15. CallInv'
  BY <1>12, <1>13 DEF CallInv
<1> QED BY <1>14, <1>15, Zenon

\* The handler carries a request to the manager and the response to the client;
\* it denies only what is not permitted (request_loop).
LEMMA CallHandler ==
  ASSUME SlotInv, RegInv, CallTypes, StreamTypes, CallInv, NEW k \in Conns, Handler(k)
  PROVE  /\ CallInv'
         /\ outcome' = outcome \/ /\ call[k] # NoCall /\ outcome[k] = None /\ <<k, call[k]>> \notin Permitted
                                  /\ outcome' = [outcome EXCEPT ![k] = "Denied"]
<1>1. /\ call' = call /\ hpc \in [Conns -> HandlerStates] /\ CallOf(k)
      /\ inbox \in [Conns -> Seq(Requests)] /\ sock \in [Conns -> Seq(Messages)]
      /\ resp \in [Conns -> Fate] /\ reply \in [Conns -> Fate] /\ outcome \in [Conns -> Fate]
  BY DEF Handler, Start, StartFails, Registered, ReadRequest, ReadFails, TakeReply, LockWriter,
         WriteResponse, WriteFails, Join, client, SlotInv, SlotTypes, RegInv, CallTypes, StreamTypes,
         CallInv
<1>2. \A j \in Conns : j # k => /\ hpc'[j] = hpc[j] /\ inbox'[j] = inbox[j] /\ resp'[j] = resp[j]
                                /\ reply'[j] = reply[j] /\ outcome'[j] = outcome[j] /\ sock'[j] = sock[j]
  <2>1. \A j \in Conns : j # k => hpc'[j] = hpc[j]
    BY <1>1, Zenon DEF Handler, Start, StartFails, Registered, ReadRequest, ReadFails, TakeReply, LockWriter,
                WriteResponse, WriteFails, Join, Leave
  <2>2. \A j \in Conns : j # k => inbox'[j] = inbox[j] /\ sock'[j] = sock[j]
    BY <1>1, Zenon DEF Handler, Start, StartFails, Registered, ReadRequest, ReadFails, TakeReply, LockWriter,
                WriteResponse, WriteFails, Join, client, socket
  <2>3. \A j \in Conns : j # k => resp'[j] = resp[j] /\ reply'[j] = reply[j] /\ outcome'[j] = outcome[j]
    <3>1. CASE ReadRequest(k) \/ TakeReply(k) \/ WriteResponse(k) \/ WriteFails(k)
      BY <1>1, <3>1, Zenon DEF ReadRequest, TakeReply, WriteResponse, WriteFails
    <3>2. CASE Start(k) \/ StartFails(k) \/ Registered(k) \/ ReadFails(k) \/ LockWriter(k) \/ Join(k)
      BY <3>2, Zenon DEF Start, StartFails, Registered, ReadFails, LockWriter, Join, replies
    <3> QED BY <3>1, <3>2, Zenon DEF Handler
  <2> QED BY <2>1, <2>2, <2>3, ZenonT(30)
<1>3. \A j \in Conns : j # k => UnreadResponses(j)' = UnreadResponses(j)
  BY <1>2 DEF UnreadResponses
<1>4. ASSUME \A j \in Conns : j # k => Asked(j)' = Asked(j), CallOf(k)'
      PROVE  CallInv'
  <2>1. ASSUME NEW j \in Conns, j # k PROVE CallOf(j)'
    <3>1. CallOf(j) /\ call'[j] = call[j]
      BY <1>1 DEF CallInv
    <3> QED BY <1>2, <1>3, <1>4, <2>1, <3>1, CallKept, Zenon
  <2> QED BY <1>4, <2>1 DEF CallInv
<1>5. ASSUME NEW c \in Commands, cmds' = Append(cmds, c), c.type # "Request"
      PROVE  \A j \in Conns : Asked(j)' = Asked(j)
  BY <1>5, AskedSend, RequestKinds
<1>6. cmds' = cmds => \A j \in Conns : Asked(j)' = Asked(j)
  BY DEF Asked
<1>7. sock' = sock => UnreadResponses(k)' = UnreadResponses(k)
  BY DEF UnreadResponses
<1>8. CASE Start(k) \/ StartFails(k) \/ Registered(k) \/ ReadFails(k) \/ Join(k)
  <2>1. /\ UNCHANGED <<inbox, resp, reply, outcome, sock>>
        /\ cmds' = cmds \/ cmds' = Append(cmds, Register(k)) \/ cmds' = Append(cmds, Unregister(k))
    BY <1>8 DEF Start, StartFails, Registered, ReadFails, Join, Leave, client, replies, socket
  <2>2. \A j \in Conns : Asked(j)' = Asked(j)
    BY <1>5, <1>6, <2>1, CommandKinds, Zenon
  <2>3. hpc[k] \notin Busy /\ hpc'[k] \notin Busy
    BY <1>1, <1>8 DEF Start, StartFails, Registered, ReadFails, Join, Leave, Busy
  <2>4. /\ call'[k] = call[k] /\ inbox'[k] = inbox[k] /\ reply'[k] = reply[k] /\ resp'[k] = resp[k]
        /\ outcome'[k] = outcome[k]
    BY <1>1, <2>1, Zenon
  <2>5. CallOf(k)'
    BY <1>1, <1>7, <2>1, <2>2, <2>3, <2>4, CallKept
  <2> QED BY <1>4, <2>1, <2>2, <2>5, Zenon
<1>9. CASE ReadRequest(k)
  <2>1. /\ hpc[k] = "read" /\ inbox[k] # <<>> /\ inbox' = [inbox EXCEPT ![k] = Tail(inbox[k])]
        /\ UNCHANGED <<reply, sock>>
    BY <1>9, Zenon DEF ReadRequest, socket
  <2>2. /\ inbox[k] = <<call[k]>> /\ Asked(k) = <<>> /\ call[k] # NoCall /\ outcome[k] = None
        /\ <<k, call[k]>> \in Permitted =>
             OneCall(k, call[k], <<>>, "ask", <<Request(k, call[k])>>, reply[k], resp[k],
                     UnreadResponses(k), outcome[k])
        /\ OneCall(k, call[k], <<>>, "answer", Asked(k), reply[k], "Denied", UnreadResponses(k), "Denied")
    BY <1>1, <2>1, CallIsRead, Zenon DEF CallOf
  <2>3. Head(inbox[k]) = call[k] /\ inbox'[k] = <<>>
    <3>1. inbox'[k] = Tail(inbox[k])
      BY <1>1, <2>1, Zenon
    <3> QED BY <2>2, <3>1
  <2>4. call[k] \in Requests
    BY <2>2 DEF CallTypes
  <2>5. \/ /\ <<k, call[k]>> \in Permitted /\ cmds' = Append(cmds, Request(k, call[k]))
           /\ hpc' = [hpc EXCEPT ![k] = "ask"] /\ UNCHANGED <<resp, outcome>>
        \/ /\ <<k, call[k]>> \notin Permitted /\ cmds' = cmds
           /\ hpc' = [hpc EXCEPT ![k] = "answer"] /\ resp' = [resp EXCEPT ![k] = "Denied"]
           /\ outcome' = [outcome EXCEPT ![k] = "Denied"]
    <3>1. policy_check(Peer[k], required_capability(call[k])) <=> <<k, call[k]>> \in Permitted
      BY <2>4, CheckPermits
    <3>2. \/ /\ policy_check(Peer[k], required_capability(Head(inbox[k])))
             /\ cmds' = Append(cmds, Request(k, Head(inbox[k])))
             /\ hpc' = [hpc EXCEPT ![k] = "ask"] /\ UNCHANGED <<resp, outcome>>
          \/ /\ ~policy_check(Peer[k], required_capability(Head(inbox[k]))) /\ cmds' = cmds
             /\ hpc' = [hpc EXCEPT ![k] = "answer"] /\ resp' = [resp EXCEPT ![k] = "Denied"]
             /\ outcome' = [outcome EXCEPT ![k] = "Denied"]
      BY <1>9, Zenon DEF ReadRequest
    <3> QED BY <2>3, <3>1, <3>2, Zenon
  <2>6. UnreadResponses(k)' = UnreadResponses(k) /\ call'[k] = call[k] /\ reply'[k] = reply[k]
    BY <1>1, <1>7, <2>1
  <2>7. CASE <<k, call[k]>> \in Permitted
    <3>1. /\ cmds' = Append(cmds, Request(k, call[k])) /\ hpc' = [hpc EXCEPT ![k] = "ask"]
          /\ UNCHANGED <<resp, outcome>>
      BY <2>5, <2>7
    <3>2. hpc'[k] = "ask" /\ resp'[k] = resp[k] /\ outcome'[k] = outcome[k]
      BY <1>1, <3>1
    <3>3. /\ Request(k, call[k]) \in Commands
          /\ \A j \in Conns : Request(k, call[k]) \in RequestsOf(j) <=> j = k
      BY <2>4, CommandKinds, RequestKinds
    <3>4. /\ Asked(k)' = Append(Asked(k), Request(k, call[k]))
          /\ \A j \in Conns : j # k => Asked(j)' = Asked(j)
      BY <3>1, <3>3, AskedSend, Zenon
    <3>5. Asked(k)' = <<Request(k, call[k])>>
      BY <2>2, <3>4
    <3>6. CallOf(k)'
      <4>1. OneCall(k, call[k], <<>>, "ask", <<Request(k, call[k])>>, reply[k], resp[k],
                    UnreadResponses(k), outcome[k])
        BY <2>2, <2>7, Zenon
      <4> QED BY <2>3, <2>6, <3>2, <3>5, <4>1, ZenonT(30) DEF CallOf
    <3> QED BY <1>4, <3>1, <3>4, <3>6
  <2>8. CASE <<k, call[k]>> \notin Permitted
    <3>1. /\ cmds' = cmds /\ hpc' = [hpc EXCEPT ![k] = "answer"]
          /\ resp' = [resp EXCEPT ![k] = "Denied"] /\ outcome' = [outcome EXCEPT ![k] = "Denied"]
      BY <2>5, <2>8
    <3>2. hpc'[k] = "answer" /\ resp'[k] = "Denied" /\ outcome'[k] = "Denied"
      BY <1>1, <3>1
    <3>3. \A j \in Conns : Asked(j)' = Asked(j)
      BY <1>6, <3>1
    <3>4. CallOf(k)'
      BY <2>2, <2>3, <2>6, <3>2, <3>3, Zenon DEF CallOf
    <3> QED BY <1>4, <2>2, <2>8, <3>1, <3>3, <3>4, Zenon
  <2> QED BY <2>7, <2>8
<1>10. CASE TakeReply(k) \/ LockWriter(k) \/ WriteResponse(k) \/ WriteFails(k)
  <2>1. /\ UNCHANGED <<inbox, outcome>>
        /\ cmds' = cmds \/ cmds' = Append(cmds, Unregister(k))
    BY <1>10 DEF TakeReply, LockWriter, WriteResponse, WriteFails, Leave, client, replies
  <2>2. \A j \in Conns : Asked(j)' = Asked(j)
    BY <1>5, <1>6, <2>1, CommandKinds
  <2>3. call'[k] = call[k] /\ inbox'[k] = inbox[k] /\ outcome'[k] = outcome[k]
    BY <1>1, <2>1
  <2>4. CASE TakeReply(k)
    <3>1. /\ hpc[k] = "ask" /\ reply[k] # None /\ sock' = sock
          /\ resp' = [resp EXCEPT ![k] = reply[k]] /\ reply' = [reply EXCEPT ![k] = None]
          /\ hpc' = [hpc EXCEPT ![k] = "answer"]
      BY <2>4 DEF TakeReply, socket
    <3>2. resp'[k] = reply[k] /\ reply'[k] = None /\ hpc'[k] = "answer"
      BY <1>1, <3>1
    <3>3. OneCall(k, call[k], inbox[k], "answer", Asked(k), None, reply[k], UnreadResponses(k), outcome[k])
      BY <1>1, <3>1, CallHasReply DEF CallOf
    <3>4. CallOf(k)'
      BY <1>7, <2>2, <2>3, <3>1, <3>2, <3>3, Zenon DEF CallOf
    <3> QED BY <1>4, <2>1, <2>2, <3>4
  <2>5. CASE LockWriter(k)
    <3>1. /\ hpc[k] = "answer" /\ UNCHANGED <<sock, resp, reply>> /\ hpc' = [hpc EXCEPT ![k] = "write"]
      BY <2>5 DEF LockWriter, replies
    <3>2. resp'[k] = resp[k] /\ reply'[k] = reply[k] /\ hpc'[k] = "write"
      BY <1>1, <3>1, Zenon
    <3>3. OneCall(k, call[k], inbox[k], "write", Asked(k), reply[k], resp[k], UnreadResponses(k), outcome[k])
      BY <1>1, <3>1 DEF CallOf, OneCall, Busy
    <3>4. CallOf(k)'
      BY <1>7, <2>2, <2>3, <3>1, <3>2, <3>3, Zenon DEF CallOf
    <3> QED BY <1>4, <2>1, <2>2, <3>4
  <2>6. CASE WriteResponse(k) \/ WriteFails(k)
    <3>1. /\ hpc[k] = "write" /\ reply' = reply /\ resp' = [resp EXCEPT ![k] = None]
      BY <2>6 DEF WriteResponse, WriteFails
    <3>2. resp'[k] = None /\ reply'[k] = reply[k]
      BY <1>1, <3>1
    <3>3. /\ UnreadResponses(k) = <<>>
          /\ OneCall(k, call[k], inbox[k], "read", Asked(k), reply[k], None, <<Response(resp[k])>>, outcome[k])
          /\ OneCall(k, call[k], inbox[k], "join", Asked(k), reply[k], None, UnreadResponses(k), outcome[k])
      BY <1>1, <3>1, CallIsWritten, Zenon DEF CallOf
    <3>4. CASE WriteResponse(k)
      <4>1. /\ sock' = [sock EXCEPT ![k] = Append(sock[k], Response(resp[k]))]
            /\ hpc' = [hpc EXCEPT ![k] = "read"]
        BY <3>4 DEF WriteResponse
      <4>2. sock'[k] = Append(sock[k], Response(resp[k])) /\ hpc'[k] = "read"
            /\ sock[k] \in Seq(Messages) /\ resp[k] \in Fate
        BY <1>1, <4>1
      <4>3. Response(resp[k]) \in Responses /\ Response(resp[k]) \in Messages
        BY <4>2, MessageKinds
      <4>4. Filter(Append(sock[k], Response(resp[k])), Responses)
              = Append(Filter(sock[k], Responses), Response(resp[k]))
        BY <4>2, <4>3, FilterKeeps, Zenon
      <4>5. UnreadResponses(k)' = Append(UnreadResponses(k), Response(resp[k]))
        BY <4>2, <4>4, Zenon DEF UnreadResponses
      <4>6. UnreadResponses(k)' = <<Response(resp[k])>>
        BY <3>3, <4>5
      <4>7. CallOf(k)'
        BY <2>2, <2>3, <3>2, <3>3, <4>2, <4>6, Zenon DEF CallOf
      <4> QED BY <1>4, <2>1, <2>2, <4>7
    <3>5. CASE WriteFails(k)
      <4>1. sock' = sock /\ hpc' = [hpc EXCEPT ![k] = "join"]
        BY <3>5 DEF WriteFails, Leave
      <4>2. hpc'[k] = "join"
        BY <1>1, <4>1
      <4>3. CallOf(k)'
        BY <1>7, <2>2, <2>3, <3>2, <3>3, <4>1, <4>2, Zenon DEF CallOf
      <4> QED BY <1>4, <2>1, <2>2, <4>3
    <3> QED BY <2>6, <3>4, <3>5
  <2> QED BY <1>10, <2>4, <2>5, <2>6, Zenon
<1> QED BY <1>8, <1>9, <1>10, Zenon DEF Handler

\* The other steps of the manager, and those of the event thread, leave the
\* calls alone (manager/events.rs, handle_connection).
LEMMA CallRest ==
  ASSUME RegInv, StreamInv, CallInv,
         \/ HandleRegister \/ HandleUnregister \/ Broadcast \/ Done \/ UNCHANGED vars
         \/ \E k \in Conns : Events(k)
  PROVE  CallInv'
<1>1. UNCHANGED <<call, inbox, hpc, reply, resp, outcome>>
  BY Zenon DEF HandleRegister, HandleUnregister, Broadcast, Done, vars, Events, ReceiveEvent, EventsEnd,
         LockEventWriter, WriteEvent, WriteEventFails, client, replies
<1>2. \A j \in Conns : Asked(j)' = Asked(j)
  <2>1. CASE HandleRegister \/ HandleUnregister
    <3>1. cmds # <<>> /\ cmds' = Tail(cmds) /\ Head(cmds).type # "Request"
      BY <2>1 DEF HandleRegister, HandleUnregister
    <3>2. Head(cmds) \in Commands
      BY <3>1, MembersTail DEF RegInv
    <3> QED BY <3>1, <3>2, AskedTake, RequestKinds, Zenon
  <2>2. CASE ~(HandleRegister \/ HandleUnregister)
    <3>1. cmds' = cmds
      BY <2>2, Zenon DEF Broadcast, Done, vars, Events, ReceiveEvent, EventsEnd, LockEventWriter, WriteEvent,
                  WriteEventFails
    <3> QED BY <3>1 DEF Asked
  <2> QED BY <2>1, <2>2
<1>3. \A j \in Conns : UnreadResponses(j)' = UnreadResponses(j)
  <2>1. ASSUME NEW k \in Conns, WriteEvent(k), NEW j \in Conns
        PROVE  UnreadResponses(j)' = UnreadResponses(j)
    <3>1. /\ epc[k] = "write" /\ sock' = [sock EXCEPT ![k] = Append(sock[k], Event(hand[k]))]
      BY <2>1, Zenon DEF WriteEvent
    <3>2. /\ sock \in [Conns -> Seq(Messages)] /\ sock[k] \in Seq(Messages)
          /\ hand[k] \in 1 .. MaxEvents
      <4>1. StreamTypes /\ hand[k] # 0
        BY <3>1, Zenon DEF StreamInv, Stream
      <4> QED BY <4>1, MaxAssumption DEF StreamTypes
    <3>3. sock'[k] = Append(sock[k], Event(hand[k])) /\ (j # k => sock'[j] = sock[j])
      BY <3>1, <3>2
    <3>4. Event(hand[k]) \in Messages /\ Event(hand[k]) \notin Responses
      BY <3>2, MessageKinds
    <3>5. Filter(Append(sock[k], Event(hand[k])), Responses) = Filter(sock[k], Responses)
      BY <3>2, <3>4, FilterDrops, Zenon
    <3> QED BY <3>3, <3>5, Zenon DEF UnreadResponses
  <2>2. CASE ~ \E k \in Conns : WriteEvent(k)
    <3>1. CASE HandleRegister \/ HandleUnregister \/ Broadcast \/ Done \/ UNCHANGED vars
      BY <3>1, Zenon DEF HandleRegister, HandleUnregister, Broadcast, Done, vars, socket, UnreadResponses
    <3>2. ASSUME NEW k \in Conns,
                 ReceiveEvent(k) \/ EventsEnd(k) \/ LockEventWriter(k) \/ WriteEventFails(k)
          PROVE  sock' = sock
      <4>1. CASE ReceiveEvent(k) \/ EventsEnd(k)
        BY <4>1, Zenon DEF ReceiveEvent, EventsEnd, socket
      <4>2. CASE LockEventWriter(k) \/ WriteEventFails(k)
        BY <4>2, Zenon DEF LockEventWriter, WriteEventFails
      <4> QED BY <3>2, <4>1, <4>2, Zenon
    <3> QED BY <2>2, <3>1, <3>2, Zenon DEF Events, UnreadResponses
  <2> QED BY <2>1, <2>2
<1>4. ASSUME NEW j \in Conns PROVE CallOf(j)'
  <2>1. /\ hpc'[j] = hpc[j] /\ reply'[j] = reply[j] /\ resp'[j] = resp[j] /\ outcome'[j] = outcome[j]
        /\ call'[j] = call[j] /\ inbox'[j] = inbox[j] /\ CallOf(j)
    BY <1>1 DEF CallInv
  <2> QED BY <1>2, <1>3, <2>1, CallKept, Zenon
<1> QED BY <1>4 DEF CallInv

\* A call is in one place in every state that the threads reach.
LEMMA CallInvariant ==
  /\ Init => CallInv
  /\ ThreadInv /\ CallInv /\ [Next]_vars => CallInv'
<1>1. ASSUME Init PROVE CallInv
  <2>1. ASSUME NEW k \in Conns PROVE CallOf(k)
    <3>1. Asked(k) = <<>> /\ UnreadResponses(k) = <<>>
      BY <1>1, FilterEmpty DEF Init, Asked, UnreadResponses
    <3> QED BY <1>1, <3>1 DEF Init, CallOf, OneCall, Busy
  <2> QED BY <2>1 DEF CallInv
<1>2. ASSUME ThreadInv, CallInv, [Next]_vars PROVE CallInv'
  <2>1. SlotInv /\ RegInv /\ CallTypes /\ StreamInv /\ StreamTypes
    BY <1>2 DEF ThreadInv, StreamInv
  <2> QED BY <1>2, <2>1, CallClient, CallRead, CallExecute, CallHandler, CallRest, Zenon
          DEF Next, Manager, Read
<1> QED BY <1>1, <1>2
-----------------------------------------------------------------------------
(* The threads implement the service *)

\* What IpcService sees.
serviceVars == <<joined, conn, call, outcome, answer, executed, sent, seen>>

\* Every step of the threads is a step of the service, or none that it sees.
LEMMA ServiceStep ==
  ThreadInv /\ CallInv /\ [Next]_vars => [Service!Next]_(Service!vars)
<1> SUFFICES ASSUME ThreadInv, CallInv, [Next]_vars PROVE [Service!Next]_(Service!vars)
  OBVIOUS
<1> DEFINE ended == {k \in Conns : conn[k] = "closed"}
<1>1. /\ SlotInv /\ RegInv /\ CallTypes /\ StreamInv /\ StreamTypes
      /\ conn \in [Conns -> {"none", "open", "closed"}]
  BY DEF ThreadInv, StreamInv, SlotInv, SlotTypes
<1>2. conn' = conn => ended' = ended
  OBVIOUS
<1>3. ASSUME UNCHANGED serviceVars PROVE UNCHANGED Service!vars
  BY <1>3 DEF serviceVars, Service!vars
<1>4. CASE Serve \/ HandleUnregister \/ Done \/ UNCHANGED vars \/ \E k \in Conns : Events(k)
  <2>1. UNCHANGED serviceVars
    BY <1>4, Zenon DEF Serve, Accept, Refuse, Spawn, HandleUnregister, Done, vars, Events, ReceiveEvent, EventsEnd,
                LockEventWriter, WriteEvent, WriteEventFails, serviceVars, client, replies, manager
  <2> QED BY <1>3, <2>1
<1>5. CASE Broadcast
  <2>1. sent' = sent + 1 /\ UNCHANGED <<joined, conn, call, outcome, answer, executed, seen>>
    BY <1>5 DEF Broadcast, client, replies
  <2>2. Service!Broadcast
    BY <1>2, <2>1 DEF Service!Broadcast
  <2> QED BY <2>2, Zenon DEF Service!Next
<1>6. CASE HandleRegister
  <2>1. /\ cmds # <<>> /\ Head(cmds).type = "Register"
        /\ UNCHANGED <<conn, call, outcome, answer, executed, sent>>
    BY <1>6 DEF HandleRegister, client, replies
  <2>2. PICK k \in Conns : Head(cmds).conn = k /\ Register(k) \in Members(cmds)
    <3>1. Head(cmds) \in Commands /\ Head(cmds) \in Members(cmds)
      BY <1>1, <2>1, MembersTail DEF RegInv
    <3> QED BY <2>1, <3>1, CommandKinds
  <2>3. k \notin joined /\ joined' = joined \cup {k} /\ seen' = [seen EXCEPT ![k] = sent]
    <3>1. k \notin joined
      BY <1>1, <2>2 DEF RegInv
    <3>2. /\ joined' = joined \cup {Head(cmds).conn}
          /\ seen' = [seen EXCEPT ![Head(cmds).conn] = sent]
      BY <1>6, Zenon DEF HandleRegister
    <3> QED BY <2>2, <3>1, <3>2, Zenon
  <2>4. Service!Join(k)
    BY <1>2, <2>1, <2>3 DEF Service!Join
  <2> QED BY <2>2, <2>4, Zenon DEF Service!Next
<1>7. CASE HandleRequest
  <2>1. executed' = executed + 1 /\ UNCHANGED <<conn, call, answer, joined, sent, seen>>
    BY <1>7 DEF HandleRequest, client
  <2>2. PICK k \in Conns : /\ call[k] # NoCall /\ outcome[k] = None /\ <<k, call[k]>> \in Permitted
                           /\ outcome' = [outcome EXCEPT ![k] = "Done"]
    BY <1>1, <1>7, CallExecute, Zenon
  <2>3. Service!Execute(k)
    BY <1>2, <2>1, <2>2 DEF Service!Execute, Service!NoCall, NoCall, None
  <2> QED BY <2>2, <2>3, Zenon DEF Service!Next
<1>8. ASSUME NEW k \in Conns, Connect(k) PROVE UNCHANGED Service!vars
  <2>1. /\ conn[k] = "none" /\ conn' = [conn EXCEPT ![k] = "open"]
        /\ UNCHANGED <<joined, call, outcome, answer, executed, sent, seen>>
    BY <1>8 DEF Connect, replies, manager
  <2>2. ended' = ended
    BY <1>1, <2>1
  <2> QED BY <2>1, <2>2 DEF Service!vars
<1>9. ASSUME NEW k \in Conns, Close(k) \/ ReadEof(k) PROVE Service!Next
  <2>1. /\ conn[k] = "open" /\ conn' = [conn EXCEPT ![k] = "closed"]
        /\ UNCHANGED <<joined, call, outcome, answer, executed, sent, seen>>
    BY <1>9 DEF Close, ReadEof, replies, manager
  <2>2. k \notin ended /\ ended' = ended \cup {k}
    BY <1>1, <2>1
  <2>3. Service!End(k)
    BY <2>1, <2>2 DEF Service!End
  <2> QED BY <2>3, Zenon DEF Service!Next
<1>10. ASSUME NEW k \in Conns, NEW r \in Requests, CallServer(k, r) PROVE Service!Next
  <2>1. /\ conn[k] = "open" /\ call[k] = NoCall /\ call' = [call EXCEPT ![k] = r]
        /\ UNCHANGED <<conn, joined, outcome, answer, executed, sent, seen>>
    BY <1>10 DEF CallServer, Waiting, replies, manager
  <2>2. k \notin ended
    BY <2>1
  <2>3. Service!Call(k, r)
    BY <1>2, <2>1, <2>2, Zenon DEF Service!Call, Service!NoCall, NoCall
  <2> QED BY <2>3, Zenon DEF Service!Next
<1>11. ASSUME NEW k \in Conns, ReadMessage(k) PROVE Service!Next
  <2>1. conn[k] = "open" /\ UNCHANGED <<conn, joined, executed, sent>>
    BY <1>11 DEF ReadMessage, manager
  <2>2. k \notin ended
    BY <2>1
  <2>3. CASE Head(sock[k]).type = "Event"
    <3>1. UNCHANGED <<call, answer, outcome>>
      BY <1>11, <2>3 DEF ReadMessage
    <3>2. k \in joined /\ seen[k] < sent /\ seen' = [seen EXCEPT ![k] = @ + 1]
      BY <1>1, <1>11, <2>3, StreamRead
    <3>3. Service!See(k)
      BY <1>2, <2>1, <2>2, <3>1, <3>2 DEF Service!See
    <3> QED BY <3>3, Zenon DEF Service!Next
  <2>4. CASE Head(sock[k]).type = "Response"
    <3>1. /\ call' = [call EXCEPT ![k] = NoCall] /\ answer' = [answer EXCEPT ![k] = Head(sock[k]).fate]
          /\ outcome' = [outcome EXCEPT ![k] = None] /\ seen' = seen
      BY <1>11, <2>4 DEF ReadMessage
    <3>2. outcome[k] # None /\ Head(sock[k]).fate = outcome[k]
      BY <1>1, <1>11, <2>4, CallRead
    <3>3. Service!Return(k)
      BY <1>2, <2>1, <2>2, <3>1, <3>2, Zenon DEF Service!Return, Service!NoCall, NoCall, None
    <3> QED BY <3>3, Zenon DEF Service!Next
  <2> QED BY <1>11, <2>3, <2>4, Zenon DEF ReadMessage
<1>12. ASSUME NEW k \in Conns, Handler(k) PROVE [Service!Next]_(Service!vars)
  <2>1. UNCHANGED <<conn, call, answer, joined, executed, sent, seen>>
    BY <1>12, Zenon DEF Handler, Start, StartFails, Registered, ReadRequest, ReadFails, TakeReply, LockWriter,
                 WriteResponse, WriteFails, Join, client, manager
  <2>2. CASE outcome' = outcome
    BY <1>3, <2>1, <2>2 DEF serviceVars
  <2>3. CASE outcome' # outcome
    <3>1. /\ call[k] # NoCall /\ outcome[k] = None /\ <<k, call[k]>> \notin Permitted
          /\ outcome' = [outcome EXCEPT ![k] = "Denied"]
      BY <1>1, <1>12, <2>3, CallHandler, Zenon
    <3>2. Service!Execute(k)
      BY <1>2, <2>1, <3>1 DEF Service!Execute, Service!NoCall, NoCall, None
    <3> QED BY <3>2, Zenon DEF Service!Next
  <2> QED BY <2>2, <2>3
<1> QED BY <1>4, <1>5, <1>6, <1>7, <1>8, <1>9, <1>10, <1>11, <1>12, Zenon DEF Next, Manager, Client, Read
=============================================================================
