--------------------------------- MODULE Pipes ---------------------------------
(* What the relay through the worker promises the two ends of each pair       *)
(* (worker.js 217-295): they are joined by two pipes.  What an end receives   *)
(* are the messages of the end joined to it, each after it was sent, in order *)
(* and without a gap, and nothing once its socket is closed; a closed socket  *)
(* stays closed.  Nothing is said of queues, close codes and the object.      *)
EXTENDS Naturals, Sequences

CONSTANTS
  End,
  Source   \* [End -> the end joined to it]

VARIABLES
  state,     \* [End -> "none", "open" or "closed"]
  sent,      \* [End -> number of messages it has sent]
  received   \* [End -> the messages it has received: whose, and which]

pvars == <<state, sent, received>>

Init ==
  /\ state = [e \in End |-> "none"]
  /\ sent = [e \in End |-> 0]
  /\ received = [e \in End |-> <<>>]

\* Sockets open or close, those of several ends together.
Turn ==
  /\ state' \in [End -> {"none", "open", "closed"}]
  /\ \A e \in End : \/ state'[e] = state[e]
                    \/ state[e] = "none" /\ state'[e] = "open"
                    \/ state[e] # "none" /\ state'[e] = "closed"
  /\ UNCHANGED <<sent, received>>

Send(e) ==
  /\ state[e] # "none"
  /\ sent' = [sent EXCEPT ![e] = @ + 1]
  /\ UNCHANGED <<state, received>>

Receive(e) ==
  LET n == Len(received[e])
  IN /\ state[e] = "open" /\ n < sent[Source[e]]
     /\ received' = [received EXCEPT ![e] = Append(@, <<Source[e], n + 1>>)]
     /\ UNCHANGED <<state, sent>>

Next == Turn \/ \E e \in End : Send(e) \/ Receive(e)

Spec == Init /\ [][Next]_pvars
=============================================================================
