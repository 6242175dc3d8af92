-------------------------------- MODULE Relay --------------------------------
(* openRelay of boot.js (661-689) and the two calls connect() makes of it     *)
(* (594-598): up to DirectTries sockets straight to the relay, then up to     *)
(* WorkerTries through the worker.  Each try has a WebSocket, a 7 s timer and *)
(* a `settled` flag; a try that fails arms a back-off timer for the next one. *)
(* Event handlers and timers are tasks of their own, in any order.            *)
EXTENDS Naturals

CONSTANTS DirectTries, WorkerTries   \* 3 and 6 in boot.js

ASSUME TriesAssumption == DirectTries \in Nat \ {0} /\ WorkerTries \in Nat \ {0}

Tries == [direct |-> DirectTries, worker |-> WorkerTries]
Sockets == {"direct"} \X (1..DirectTries) \union {"worker"} \X (1..WorkerTries)

VARIABLES
  sock,     \* [Sockets -> the state of the try's WebSocket, see below]
  settled,  \* [Sockets -> the try's `settled`]
  timer,    \* [Sockets -> its 7 s timer is armed]
  retry,    \* [Sockets -> the back-off timer it left is armed]
  outcome   \* what connect() awaits: "pending", "resolved" or "rejected"

vars == <<sock, settled, timer, retry, outcome>>

\* "opening": an open event is queued; "late": the socket was closed since;
\* "failed", "closing": a close event will follow.
Active == {"connecting", "opening", "open"}
SocketStates == Active \union {"none", "late", "failed", "closing", "closed"}

Init ==
  /\ sock = [s \in Sockets |->
               IF s = <<"direct", 1>> THEN "connecting" ELSE "none"]
  /\ settled = [s \in Sockets |-> FALSE]
  /\ timer = [s \in Sockets |-> s = <<"direct", 1>>]
  /\ retry = [s \in Sockets |-> FALSE]
  /\ outcome = "pending"

-----------------------------------------------------------------------------
(* The try that follows when s has failed for good, without a pause: the      *)
(* worker's first after the last direct one; none after the worker's last.    *)
Last(s) == s[2] = Tries[s[1]]

\* attempt(n): a new socket, given what the sockets are otherwise.
Attempt(s, so, ti) ==
  /\ sock' = [so EXCEPT ![s] = "connecting"]
  /\ timer' = [ti EXCEPT ![s] = TRUE]

(* Mutant: a try that is given up leaves its socket open. *)
LeaveOpen(s, so) == so

(* ws.close(), where the sockets are `so`: an open event may be under way.    *)
Close(s, so) ==
  [so EXCEPT ![s] = CASE @ = "closed" -> "closed"
                      [] @ = "opening" -> "late"
                      [] OTHER -> "closing"]

(* Mutant: finish() that may run more than once for a try. *)
NoSettledFlag(s) == FALSE

Settled(s) == settled[s]

(* Mutant: finish() leaves the 7 s timer armed. *)
KeepTimer(s) == timer

ClearTimer(s) == [timer EXCEPT ![s] = FALSE]

(* finish(ok) of try s, where the sockets are `so` once the event that caused *)
(* it is accounted for.                                                       *)
FinishOk(s, so) ==
  /\ settled' = [settled EXCEPT ![s] = TRUE]
  /\ sock' = so
  /\ timer' = ClearTimer(s)
  /\ outcome' = IF outcome = "pending" THEN "resolved" ELSE outcome
  /\ UNCHANGED retry

FinishFailed(s, so) ==
  LET ti == ClearTimer(s)
      cl == Close(s, so)
  IN /\ settled' = [settled EXCEPT ![s] = TRUE]
     /\ \/ /\ ~Last(s)
           /\ retry' = [retry EXCEPT ![s] = TRUE]
           /\ sock' = cl /\ timer' = ti
           /\ UNCHANGED outcome
        \/ /\ Last(s) /\ s[1] = "direct"
           /\ Attempt(<<"worker", 1>>, cl, ti)
           /\ UNCHANGED <<retry, outcome>>
        \/ /\ Last(s) /\ s[1] = "worker"
           /\ sock' = cl /\ timer' = ti
           /\ outcome' = IF outcome = "pending" THEN "rejected" ELSE outcome
           /\ UNCHANGED retry

Ignored(so) == sock' = so /\ UNCHANGED <<settled, timer, retry, outcome>>

-----------------------------------------------------------------------------
(* The network *)

Established(s) ==
  /\ sock[s] = "connecting"
  /\ sock' = [sock EXCEPT ![s] = "opening"]
  /\ UNCHANGED <<settled, timer, retry, outcome>>

(* The handshake is refused (some browsers: the first upgrade, always). *)
Refused(s) ==
  /\ sock[s] = "connecting"
  /\ sock' = [sock EXCEPT ![s] = "failed"]
  /\ UNCHANGED <<settled, timer, retry, outcome>>

-----------------------------------------------------------------------------
(* Tasks of the page *)

\* The open event, which may overtake a close() made since it was queued.
OnOpen(s) ==
  /\ sock[s] \in {"opening", "late"}
  /\ LET so == [sock EXCEPT ![s] = IF @ = "late" THEN "closing" ELSE "open"]
     IN IF Settled(s) THEN Ignored(so) ELSE FinishOk(s, so)

OnClose(s) ==
  /\ sock[s] \in {"failed", "closing", "late"}
  /\ LET so == [sock EXCEPT ![s] = "closed"]
     IN IF Settled(s) THEN Ignored(so) ELSE FinishFailed(s, so)

(* Mutant: no 7 s limit. *)
NoLimit(s) == FALSE

LimitPasses(s) == timer[s]

(* 7 s are over; finish() clears this timer. *)
Timeout(s) ==
  /\ LimitPasses(s)
  /\ IF Settled(s) THEN Ignored(sock) ELSE FinishFailed(s, sock)

(* The back-off is over. *)
Retry(s) ==
  /\ retry[s]
  /\ retry' = [retry EXCEPT ![s] = FALSE]
  /\ Attempt(<<s[1], s[2] + 1>>, sock, timer)
  /\ UNCHANGED <<settled, outcome>>

Task(s) == OnOpen(s) \/ OnClose(s) \/ Timeout(s) \/ Retry(s)

Next == \E s \in Sockets : Established(s) \/ Refused(s) \/ Task(s)

\* Queued events and timers run; nothing is assumed of the network.
Fairness == \A s \in Sockets : WF_vars(Task(s))

Spec == Init /\ [][Next]_vars /\ Fairness

-----------------------------------------------------------------------------
(* Properties *)

(* Types; a try's timer runs exactly from the making of its socket to the end *)
(* of the try.                                                                *)
TypeOK ==
  /\ sock \in [Sockets -> SocketStates]
  /\ settled \in [Sockets -> BOOLEAN]
  /\ timer \in [Sockets -> BOOLEAN]
  /\ retry \in [Sockets -> BOOLEAN]
  /\ outcome \in {"pending", "resolved", "rejected"}
  /\ \A s \in Sockets : timer[s] <=> sock[s] # "none" /\ ~settled[s]

\* Try s is under way, or its back-off, or it has delivered its socket.
Holds(s) == sock[s] \in Active \/ timer[s] \/ retry[s]

(* There is one chain of tries: whatever the order of timers, late open       *)
(* events and close events, no two sockets are ever open or opening, and no   *)
(* try begins while another one, or its back-off, is under way.               *)
OneChain == \A s, t \in Sockets : Holds(s) /\ Holds(t) => s = t

(* connect() is given a socket that is open, and an error only when every try *)
(* has failed and its socket has been closed.                                 *)
OutcomeHonest ==
  /\ outcome = "resolved" => \E s \in Sockets : sock[s] = "open"
  /\ outcome = "rejected" =>
       \A s \in Sockets : settled[s] /\ sock[s] \notin Active

(* connect() never waits for nothing: as long as openRelay is awaited, a timer *)
(* runs that will move the chain of tries on, that of a try or of a back-off. *)
NeverStuck ==
  outcome = "pending" => \E s \in Sockets : timer[s] \/ retry[s]

(* The await of openRelay always ends, whatever the network does: connect()   *)
(* cannot hang here.                                                          *)
RelaySettles == outcome = "pending" ~> outcome # "pending"
=============================================================================
