------------------------------ MODULE IpcService ------------------------------
(***************************************************************************)
(* What the IPC layer promises a client, with no socket, thread, lock or    *)
(* queue in sight: a connection makes one call at a time, a call the peer   *)
(* may make is executed exactly once before it is answered, a call the peer *)
(* may not make is answered "Denied" and is never executed, and a           *)
(* connection that has ended gets no further answer.  Events are numbered   *)
(* in the order the manager broadcasts them; a connection sees them one by  *)
(* one, in that order and without a gap, from the point where it joined.    *)
(*                                                                         *)
(* Ipc.tla implements this specification.                                  *)
(***************************************************************************)
EXTENDS Naturals

CONSTANTS
  Conns,              \* connections
  Requests,           \* what a client may ask for
  Permitted           \* the <<k, r>> such that the peer of k may ask for r

VARIABLES
  joined,             \* connections that have joined the event stream
  ended,              \* connections whose client is gone
  call,               \* [Conns -> the request being made, or NoCall]
  outcome,            \* [Conns -> {"None", "Done", "Denied"}] of that request
  answer,             \* [Conns -> what the last call of the connection returned]
  executed,           \* number of requests the manager has executed
  sent,               \* number of events broadcast so far
  seen                \* [Conns -> number of the last event seen]

NoCall == "NoCall"

vars == <<joined, ended, call, outcome, answer, executed, sent, seen>>

Init ==
  /\ joined = {}
  /\ ended = {}
  /\ call = [k \in Conns |-> NoCall]
  /\ outcome = [k \in Conns |-> "None"]
  /\ answer = [k \in Conns |-> "None"]
  /\ executed = 0
  /\ sent = 0
  /\ seen = [k \in Conns |-> 0]

\* The events of a connection start at the moment it joins.
Join(k) ==
  /\ k \notin joined
  /\ joined' = joined \cup {k}
  /\ seen' = [seen EXCEPT ![k] = sent]
  /\ UNCHANGED <<ended, call, outcome, answer, executed, sent>>

\* A client may write its request before the server has let it join.
Call(k, r) ==
  /\ k \notin ended
  /\ call[k] = NoCall
  /\ call' = [call EXCEPT ![k] = r]
  /\ UNCHANGED <<joined, ended, outcome, answer, executed, sent, seen>>

\* A call that is already under way is carried out even if its client ends.
Execute(k) ==
  /\ call[k] # NoCall
  /\ outcome[k] = "None"
  /\ \/ /\ <<k, call[k]>> \in Permitted
        /\ outcome' = [outcome EXCEPT ![k] = "Done"]
        /\ executed' = executed + 1
     \/ /\ <<k, call[k]>> \notin Permitted
        /\ outcome' = [outcome EXCEPT ![k] = "Denied"]
        /\ UNCHANGED executed
  /\ UNCHANGED <<joined, ended, call, answer, sent, seen>>

Return(k) ==
  /\ k \notin ended
  /\ outcome[k] # "None"
  /\ call' = [call EXCEPT ![k] = NoCall]
  /\ answer' = [answer EXCEPT ![k] = outcome[k]]
  /\ outcome' = [outcome EXCEPT ![k] = "None"]
  /\ UNCHANGED <<joined, ended, executed, sent, seen>>

Broadcast ==
  /\ sent' = sent + 1
  /\ UNCHANGED <<joined, ended, call, outcome, answer, executed, seen>>

See(k) ==
  /\ k \in joined \ ended
  /\ seen[k] < sent
  /\ seen' = [seen EXCEPT ![k] = @ + 1]
  /\ UNCHANGED <<joined, ended, call, outcome, answer, executed, sent>>

End(k) ==
  /\ k \notin ended
  /\ ended' = ended \cup {k}
  /\ UNCHANGED <<joined, call, outcome, answer, executed, sent, seen>>

Next ==
  \/ Broadcast
  \/ \E k \in Conns : Join(k) \/ Execute(k) \/ Return(k) \/ See(k) \/ End(k)
  \/ \E k \in Conns, r \in Requests : Call(k, r)

Spec == Init /\ [][Next]_vars
=============================================================================
