-------------------------- MODULE PortTrackerProofs --------------------------
(* The safety properties of PortTracker, for every set of ports and calls.    *)
EXTENDS PortTracker, TLAPS

(* A waiting call's channel is closed, or on the list of its own port, which  *)
(* then has not been forwarded; only calls made have a channel.               *)
Tracked ==
  /\ \A c \in Calls : state[c] = "waiting" =>
       c \in closed \/ (port[c] \notin ports /\ c \in waiters[port[c]])
  /\ \A c \in closed : state[c] # "new" /\ port[c] \in ports
  /\ \A c \in Calls : state[c] # "new" => port[c] \in Ports
  /\ \A p \in ports : waiters[p] = {}

IInv == TypeOK /\ Tracked /\ ClosedOnce /\ OkMeansForwarded

USE NoPortAssumption

LEMMA InvInit == Init => IInv
BY DEF Init, IInv, TypeOK, Tracked, ClosedOnce, OkMeansForwarded

(* Add: the woken calls all wait for the port that is now forwarded. *)
LEMMA AddStep ==
  ASSUME IInv, NEW p \in Ports, Add(p)
  PROVE  IInv'
<1> USE DEF IInv, Add, DeleteWaiters, Woken
<1>1. TypeOK'
  BY DEF TypeOK
<1>2. Tracked'
  BY DEF TypeOK, Tracked
<1>3. ClosedOnce'
  BY DEF TypeOK, ClosedOnce
<1>4. OkMeansForwarded'
  BY DEF TypeOK, OkMeansForwarded
<1>5. QED
  BY <1>1, <1>2, <1>3, <1>4

LEMMA WaitStep ==
  ASSUME IInv, NEW c \in Calls, NEW p \in Ports, Wait(c, p)
  PROVE  IInv'
<1> USE DEF IInv, Wait, Known, Register
<1>1. TypeOK'
  BY DEF TypeOK
<1>2. Tracked'
  BY DEF TypeOK, Tracked
<1>3. ClosedOnce'
  BY DEF TypeOK, Tracked, ClosedOnce
<1>4. OkMeansForwarded'
  BY DEF TypeOK, OkMeansForwarded
<1>5. QED
  BY <1>1, <1>2, <1>3, <1>4

LEMMA ReturnStep ==
  ASSUME IInv, NEW c \in Calls, Return(c) \/ Deadline(c)
  PROVE  IInv'
<1> USE DEF IInv, Return, Deadline, TimedOut
<1>1. TypeOK'
  BY DEF TypeOK, Tracked
<1>2. Tracked'
  BY DEF TypeOK, Tracked
<1>3. ClosedOnce'
  BY DEF ClosedOnce
<1>4. OkMeansForwarded'
  BY DEF TypeOK, Tracked, OkMeansForwarded
<1>5. QED
  BY <1>1, <1>2, <1>3, <1>4

(* Every reachable state satisfies the inductive invariant. *)
THEOREM PortTrackerInvariant == Spec => []IInv
<1>1. IInv /\ [Next]_vars => IInv'
  <2> SUFFICES ASSUME IInv, [Next]_vars PROVE IInv'
    OBVIOUS
  <2>1. CASE UNCHANGED vars
    BY <2>1 DEF vars, IInv, TypeOK, Tracked, ClosedOnce, OkMeansForwarded
  <2>2. QED
    BY <2>1, AddStep, WaitStep, ReturnStep DEF Next
<1>2. QED
  BY <1>1, InvInit, PTL DEF Spec

(* A list holds only channels of calls for its port (tunnel.go:34-52). *)
THEOREM PortTrackerTypeOK == Spec => []TypeOK
BY PortTrackerInvariant, PTL DEF IInv

(* No wakeup is lost, however Add and wait interleave (tunnel.go:34-59). *)
THEOREM PortTrackerNoLostWakeup == Spec => []NoLostWakeup
<1>1. IInv => NoLostWakeup
  BY DEF IInv, Tracked, NoLostWakeup
<1>2. QED
  BY <1>1, PortTrackerInvariant, PTL

(* No channel is closed twice (tunnel.go:38-41). *)
THEOREM PortTrackerClosedOnce == Spec => []ClosedOnce
BY PortTrackerInvariant, PTL DEF IInv

(* A wait that succeeds waited for a forwarded port (tunnel.go:46, 54). *)
THEOREM PortTrackerOk == Spec => []OkMeansForwarded
BY PortTrackerInvariant, PTL DEF IInv

(* A closed channel in hand means that the port is there: the one fact the    *)
(* abstract step needs that the tracker does not look at.                     *)
LEMMA ReturnRefines ==
  ASSUME IInv, NEW c \in Calls, Return(c)
  PROVE  W!Succeed(c) \/ W!GiveUp(c)
<1>1. CASE c \in closed /\ state' = [state EXCEPT ![c] = "ok"]
  <2>1. port[c] \in ports
    BY <1>1 DEF IInv, Tracked
  <2>2. QED
    BY <1>1, <2>1 DEF Return, W!Succeed
<1>2. CASE TimedOut(c) /\ state' = [state EXCEPT ![c] = "timeout"]
  BY <1>2 DEF Return, TimedOut, W!GiveUp
<1>3. QED
  BY <1>1, <1>2 DEF Return

(* The tracker implements what WaitForPort promises (tunnel.go:33-59).        *)
THEOREM PortTrackerKeepsPromise == Spec => KeepsPromise
<1>1. IInv /\ [Next]_vars => [W!Next]_(W!wvars)
  <2> SUFFICES ASSUME IInv, [Next]_vars
               PROVE  W!Next \/ UNCHANGED W!wvars
    OBVIOUS
  <2>1. ASSUME NEW p \in Ports, Add(p) PROVE W!Next
    BY <2>1 DEF Add, W!Next, W!Forward
  <2>2. ASSUME NEW p \in Ports, NEW c \in Calls, Wait(c, p) PROVE W!Next
    <3>1. W!Ask(c, p) \/ W!AskKnown(c, p)
      BY <2>2 DEF Wait, Known, W!Ask, W!AskKnown
    <3>2. QED
      BY <3>1 DEF W!Next
  <2>3. ASSUME NEW c \in Calls, Return(c) PROVE W!Next
    BY <2>3, ReturnRefines DEF W!Next
  <2>4. ASSUME NEW c \in Calls, Deadline(c) PROVE W!Next
    BY <2>4 DEF Deadline, W!Next, W!TimeUp
  <2>5. CASE UNCHANGED vars
    BY <2>5 DEF vars, W!wvars
  <2>6. QED
    BY <2>1, <2>2, <2>3, <2>4, <2>5 DEF Next
<1>2. Init => W!Init
  BY DEF Init, W!Init
<1>3. QED
  BY <1>1, <1>2, PortTrackerInvariant, PTL DEF Spec, KeepsPromise, W!Spec
=============================================================================
