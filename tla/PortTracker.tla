----------------------------- MODULE PortTracker -----------------------------
(* portTracker of tunnel.go (23-59): the SDK calls Add when the host forwards *)
(* a port, and WaitForPort blocks until then or until its context is done.    *)
(* The mutex makes Add and the first half of wait atomic; the select of wait  *)
(* is a step of its own.  Every call of wait has a channel of its own, so a   *)
(* call stands for its channel.                                               *)
CONSTANTS Ports,   \* port numbers
          Calls,   \* calls of WaitForPort
          NoPort   \* stands for the port of a call not made yet

ASSUME NoPortAssumption == NoPort \notin Ports

VARIABLES
  ports,     \* the ports forwarded so far
  waiters,   \* [Ports -> the channels registered under that port]
  closed,    \* the channels that have been closed
  port,      \* [Calls -> the port it waits for, once made]
  state,     \* [Calls -> "new", "waiting", "ok" or "timeout"]
  ctxDone    \* the calls whose context is done

vars == <<ports, waiters, closed, port, state, ctxDone>>

Init ==
  /\ ports = {}
  /\ waiters = [p \in Ports |-> {}]
  /\ closed = {}
  /\ port = [c \in Calls |-> NoPort]
  /\ state = [c \in Calls |-> "new"]
  /\ ctxDone = {}

-----------------------------------------------------------------------------
(* Mutant: Add leaves the waiters it has woken on the list. *)
KeepWaiters(p) == waiters' = waiters

DeleteWaiters(p) == waiters' = [waiters EXCEPT ![p] = {}]

(* Mutant: Add wakes the waiters of every port. *)
EveryWaiter(p) == UNION {waiters[q] : q \in Ports}

Woken(p) == waiters[p]

(* Add(port); the host may forward a port more than once. *)
Add(p) ==
  /\ ports' = ports \union {p}
  /\ closed' = closed \union Woken(p)
  /\ DeleteWaiters(p)
  /\ UNCHANGED <<port, state, ctxDone>>

(* Mutant: wait does not look at the ports already forwarded. *)
NeverKnown(p) == FALSE

Known(p) == p \in ports

(* Mutant: the channel is registered under every port. *)
RegisterAll(c, p) == waiters' = [q \in Ports |-> waiters[q] \union {c}]

Register(c, p) == waiters' = [waiters EXCEPT ![p] = @ \union {c}]

(* wait, up to its select: under the mutex, look and register. *)
Wait(c, p) ==
  /\ state[c] = "new"
  /\ port' = [port EXCEPT ![c] = p]
  /\ \/ /\ Known(p)
        /\ state' = [state EXCEPT ![c] = "ok"]
        /\ UNCHANGED waiters
     \/ /\ ~Known(p)
        /\ state' = [state EXCEPT ![c] = "waiting"]
        /\ Register(c, p)
  /\ UNCHANGED <<ports, closed, ctxDone>>

(* Mutant: the select has no ctx.Done() case. *)
NoTimeout(c) == FALSE

TimedOut(c) == c \in ctxDone

(* The select: with both channels ready either case may be taken.  A call     *)
(* that times out leaves its channel on the list.                             *)
Return(c) ==
  /\ state[c] = "waiting"
  /\ \/ c \in closed /\ state' = [state EXCEPT ![c] = "ok"]
     \/ TimedOut(c) /\ state' = [state EXCEPT ![c] = "timeout"]
  /\ UNCHANGED <<ports, waiters, closed, port, ctxDone>>

(* The 8 s of waitAndReady (main.go:223), or the 90 s of run(), have passed.  *)
Deadline(c) ==
  /\ state[c] = "waiting" /\ c \notin ctxDone
  /\ ctxDone' = ctxDone \union {c}
  /\ UNCHANGED <<ports, waiters, closed, port, state>>

Next ==
  \/ \E p \in Ports : Add(p) \/ \E c \in Calls : Wait(c, p)
  \/ \E c \in Calls : Return(c) \/ Deadline(c)

Fairness == \A c \in Calls : WF_vars(Return(c)) /\ WF_vars(Deadline(c))

Spec == Init /\ [][Next]_vars /\ Fairness

-----------------------------------------------------------------------------
(* Properties *)

(* Types; a channel is on a list only for a call that waits, or gave up       *)
(* waiting, for that very port.                                               *)
TypeOK ==
  /\ ports \subseteq Ports /\ closed \subseteq Calls /\ ctxDone \subseteq Calls
  /\ waiters \in [Ports -> SUBSET Calls]
  /\ port \in [Calls -> Ports \union {NoPort}]
  /\ state \in [Calls -> {"new", "waiting", "ok", "timeout"}]
  /\ \A p \in Ports : \A c \in waiters[p] :
       port[c] = p /\ state[c] \in {"waiting", "timeout"}

(* No wakeup is lost between the look at `ports` and the select: whoever      *)
(* still waits for a forwarded port has a closed channel in hand.             *)
NoLostWakeup ==
  \A c \in Calls : state[c] = "waiting" /\ port[c] \in ports => c \in closed

(* No channel is closed twice (Go would panic): what a later Add of a port    *)
(* will close is still open.                                                  *)
ClosedOnce == \A p \in Ports : waiters[p] \intersect closed = {}

(* WaitForPort returns nil only for a port the host did forward. *)
OkMeansForwarded == \A c \in Calls : state[c] = "ok" => port[c] \in ports

W == INSTANCE PortWait
       WITH forwarded <- ports, asked <- port, late <- ctxDone, answer <- state

(* The lists of channels, closed by Add, and the select keep the promise of   *)
(* WaitForPort: whichever way Add, wait and deadlines interleave, a call is   *)
(* never answered with a port that is not there or a deadline that has not    *)
(* passed.                                                                    *)
KeepsPromise == W!Spec

(* A call of WaitForPort returns, also when the host never forwards its port. *)
WaitReturns ==
  \A c \in Calls : state[c] = "waiting" ~> state[c] \in {"ok", "timeout"}
=============================================================================
