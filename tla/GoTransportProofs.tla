-------------------------- MODULE GoTransportProofs --------------------------
(* GoTransport implements the Transport contract that Session is built on.    *)
EXTENDS GoTransport, TLAPS

(* Only the goroutines that belong to an opened shell report its end, and the *)
(* flag of notifyClosed says whether one of them has.                         *)
ReportersExist ==
  /\ closedOnce => stage \in {"opened", "resolved"}
  /\ closedOnce => calls = 1
  /\ ~closedOnce => calls = 0

IInv == TypeOK /\ ReportersExist

LEMMA InvInit == Init => IInv
<1>1. Init => TypeOK
  <2>1. Init => calls \in Nat
    BY DEF Init
  <2>2. Init => /\ stage = "idle" /\ link = "up" /\ shell = "none"
                /\ monitor = "off" /\ pinger = "off" /\ tunnelPing = "off"
    BY DEF Init
  <2>3. Init => ctxDone \in BOOLEAN /\ closedOnce \in BOOLEAN
    BY DEF Init
  <2>4. QED
    BY <2>1, <2>2, <2>3 DEF TypeOK, GoroutineStates
<1>2. Init => ReportersExist
  BY DEF Init, ReportersExist
<1>3. QED
  BY <1>1, <1>2 DEF IInv

(* notifyClosed invokes onClosed once, however often it is called. *)
LEMMA NotifyOnce ==
  ASSUME IInv, NotifyClosed
  PROVE  closedOnce' = TRUE /\ calls' = 1
<1>1. CASE closedOnce
  BY <1>1 DEF IInv, TypeOK, ReportersExist, NotifyClosed, noticeVars
<1>2. CASE ~closedOnce
  BY <1>2 DEF IInv, ReportersExist, NotifyClosed
<1>3. QED
  BY <1>1, <1>2

(* Completing a stage leads to the next one, and to "opened" from the last.   *)
LEMMA ProceedStage ==
  ASSUME TypeOK, Proceed
  PROVE  /\ stage \in Working
         /\ \/ stage' \in Working /\ UNCHANGED <<monitor, shell>>
            \/ /\ stage = "shell" /\ stage' = "opened"
               /\ monitor' = "asking" /\ shell' = "open"
         /\ UNCHANGED <<link, ctxDone, pinger, noticeVars>>
         /\ tunnelPing' \in GoroutineStates
BY DEF TypeOK, Proceed, After, StartMonitor, Working, UnderContext, Refreshes,
       Waits, Settled, GoroutineStates

LEMMA StagesDiffer ==
  /\ "idle" \notin Working \union Settled
  /\ Working \intersect Settled = {}
BY DEF Working, UnderContext, Refreshes, Waits, Settled

LEMMA InvStep ==
  ASSUME IInv, [Next]_vars
  PROVE  IInv'
<1> USE DEF IInv, TypeOK, ReportersExist, GoroutineStates, noticeVars
<1>1. CASE Connect
  BY <1>1 DEF Connect, Working, UnderContext
<1>2. CASE Environment
  <2>1. UNCHANGED <<stage, monitor, pinger, tunnelPing, noticeVars>>
    BY <1>2 DEF Environment, SocketCloses, SessionEnds, ShellExits,
                ConnectionEnds, DeadlinePasses
  <2>2. link' \in {"up", "ended", "silent"}
    BY <1>2 DEF Environment, SocketCloses, SessionEnds, ShellExits,
                ConnectionEnds, DeadlinePasses
  <2>3. ctxDone' \in BOOLEAN /\ shell' \in {"none", "open", "exited", "cut"}
    BY <1>2 DEF Environment, SocketCloses, SessionEnds, ShellExits,
                ConnectionEnds, DeadlinePasses
  <2>4. QED
    BY <2>1, <2>2, <2>3
<1>3. CASE Proceed
  <2>1. UNCHANGED <<link, ctxDone, pinger, noticeVars>>
        /\ tunnelPing' \in GoroutineStates
    BY <1>3, ProceedStage
  <2>2. stage \in Working /\ stage \notin {"opened", "resolved", "idle"}
    BY <1>3, ProceedStage, StagesDiffer DEF Settled
  <2>3. CASE stage' \in Working /\ UNCHANGED <<monitor, shell>>
    <3>1. stage' \notin {"opened", "resolved"}
      BY <2>3, StagesDiffer DEF Settled
    <3>2. QED
      BY <2>1, <2>2, <2>3, <3>1
  <2>4. CASE stage' = "opened" /\ monitor' = "asking" /\ shell' = "open"
    BY <2>1, <2>2, <2>4 DEF Settled
  <2>5. QED
    BY <1>3, <2>3, <2>4, ProceedStage
<1>4. CASE Fail
  BY <1>4 DEF Fail, MayFail, TimedOut, Settled, UnderContext
<1>5. CASE Resolve
  BY <1>5 DEF Resolve, Settled
<1>6. CASE MonitorReports
  <2>1. stage \in {"opened", "resolved"}
    BY <1>6 DEF MonitorReports
  <2>2. closedOnce' = TRUE /\ calls' = 1
    BY <1>6, NotifyOnce DEF MonitorReports
  <2>3. ReportersExist'
    BY <1>6, <2>1, <2>2 DEF MonitorReports
  <2>4. calls' \in Nat
    BY <2>2
  <2>5. QED
    BY <1>6, <2>2, <2>3, <2>4 DEF MonitorReports
<1>7. CASE Ping
  <2>1. CASE PingFails
    <3>1. stage \in {"opened", "resolved"}
      BY <2>1 DEF PingFails
    <3>2. closedOnce' = TRUE /\ calls' = 1
      BY <2>1, NotifyOnce DEF PingFails
    <3>3. ReportersExist'
      BY <2>1, <3>1, <3>2 DEF PingFails
    <3>4. calls' \in Nat
      BY <3>2
    <3>5. QED
      BY <2>1, <3>2, <3>3, <3>4 DEF PingFails
  <2>2. CASE PingSent \/ PingAnswered
    BY <2>2 DEF PingSent, PingAnswered
  <2>3. QED
    BY <1>7, <2>1, <2>2 DEF Ping
<1>8. CASE TunnelPing
  BY <1>8 DEF TunnelPing
<1>9. CASE UNCHANGED vars
  BY <1>9 DEF vars
<1>10. QED
  BY <1>1, <1>2, <1>3, <1>4, <1>5, <1>6, <1>7, <1>8, <1>9
     DEF Next, Run, HostAnswers, HostNotifies, WaitGivesUp

(* Types and goroutine ownership hold in every reachable state. *)
THEOREM GoTransportTypeOK == Spec => []TypeOK
<1>1. IInv => TypeOK
  BY DEF IInv
<1>2. IInv /\ [Next]_vars => IInv'
  BY InvStep
<1>3. QED
  BY <1>1, <1>2, InvInit, PTL DEF Spec

-----------------------------------------------------------------------------
(* The reports of a shell's end *)

(* A session that has ended takes its shell along, a monitor that is done has *)
(* reported, there is a shell exactly once it was opened, no monitor sleeps.  *)
Reported ==
  /\ link = "ended" => shell \in {"none", "cut"}
  /\ monitor = "done" => closedOnce
  /\ shell # "none" <=> stage \in {"opened", "resolved"}
  /\ monitor # "sleeping"

LEMMA ReportedStep ==
  ASSUME IInv, Reported, ToldTruly, [Next]_vars
  PROVE  Reported' /\ ToldTruly'
<1> USE DEF Reported, ToldTruly, ShellGone, noticeVars
<1>1. CASE Connect
  BY <1>1 DEF Connect
<1>2. CASE Environment
  BY <1>2 DEF Environment, SocketCloses, SessionEnds, ShellExits,
                ConnectionEnds, DeadlinePasses
<1>3. CASE HostAnswers \/ HostNotifies \/ WaitGivesUp
  <2>1. Proceed
    BY <1>3 DEF HostAnswers, HostNotifies, WaitGivesUp
  <2>2. stage \notin {"opened", "resolved"} /\ UNCHANGED <<link, noticeVars>>
    BY <2>1, ProceedStage, StagesDiffer DEF IInv, Settled
  <2>3. ~closedOnce /\ calls = 0 /\ shell = "none"
    BY <2>2 DEF IInv, ReportersExist
  <2>4. CASE stage = "shell"
    <3>1. link = "up"
      BY <1>3, <2>4 DEF HostAnswers, HostNotifies, WaitGivesUp, Answered, WaitTimesOut,
                        Waits, Refreshes
    <3>2. stage' = "opened" /\ monitor' = "asking" /\ shell' = "open"
      BY <2>1, <2>4 DEF Proceed, After, StartMonitor
    <3>3. QED
      BY <2>2, <2>3, <3>1, <3>2
  <2>5. CASE stage # "shell"
    <3>1. UNCHANGED <<monitor, shell>>
      BY <2>1, <2>5 DEF Proceed
    <3>2. stage' \notin {"opened", "resolved"}
      BY <2>1, <2>5 DEF Proceed, After
    <3>3. QED
      BY <2>2, <2>3, <3>1, <3>2
  <2>6. QED
    BY <2>4, <2>5
<1>4. CASE Fail
  <2>1. stage \notin {"opened", "resolved"}
    BY <1>4, StagesDiffer DEF Fail, MayFail, TimedOut, Working, Settled
  <2>2. QED
    BY <1>4, <2>1 DEF Fail
<1>5. CASE Resolve
  BY <1>5 DEF Resolve
<1>6. CASE MonitorReports
  BY <1>6, NotifyOnce DEF MonitorReports
<1>7. CASE Ping
  BY <1>7, NotifyOnce DEF Ping, PingSent, PingAnswered, PingFails
<1>8. CASE TunnelPing
  BY <1>8 DEF TunnelPing
<1>9. CASE UNCHANGED vars
  BY <1>9 DEF vars
<1>10. QED
  BY <1>1, <1>2, <1>3, <1>4, <1>5, <1>6, <1>7, <1>8, <1>9 DEF Next, Run

LEMMA GoTransportReported == Spec => [](IInv /\ Reported /\ ToldTruly)
<1>1. Init => Reported /\ ToldTruly
  BY DEF Init, Reported, ToldTruly
<1>2. IInv /\ [Next]_vars => IInv'
  BY InvStep
<1>3. IInv /\ Reported /\ ToldTruly /\ [Next]_vars => Reported' /\ ToldTruly'
  BY ReportedStep
<1>4. QED
  BY <1>1, <1>2, <1>3, InvInit, PTL DEF Spec

(* boot.js is told of the end of a shell only when it has ended               *)
(* (main.go:60-74, 116-127; sshshell.go:110-119).                             *)
THEOREM GoTransportToldTruly == Spec => []ToldTruly
BY GoTransportReported, PTL

(* Until boot.js is told, the monitor of an opened shell waits for its end:   *)
(* the safety that ShellEndReported rests on (sshshell.go:110-119).           *)
THEOREM GoTransportWatched == Spec => []Watched
<1>1. IInv /\ Reported => Watched
  BY DEF IInv, TypeOK, ReportersExist, Reported, Watched, GoroutineStates
<1>2. QED
  BY <1>1, GoTransportReported, PTL

-----------------------------------------------------------------------------
(* The refinement *)

LEMMA InitRefines == Init => C!Init
BY DEF Init, C!Init, phase, Working, UnderContext, Refreshes, Waits

(* Every step is a step of the contract, or invisible to boot.js. *)
LEMMA StepRefines ==
  ASSUME IInv, [Next]_vars
  PROVE  C!Next \/ UNCHANGED C!tvars
<1> USE DEF C!tvars, phase, noticeVars
<1>1. CASE Connect
  <2>1. phase = "idle" /\ phase' = "pending"
    BY <1>1 DEF Connect, Working, UnderContext, Refreshes, Waits
  <2>2. QED
    BY <1>1, <2>1 DEF Connect, C!Next, C!Call, C!Becomes
<1>2. CASE Environment
  <2>1. UNCHANGED <<stage, calls>>
    BY <1>2 DEF Environment, SocketCloses, SessionEnds, ShellExits,
                ConnectionEnds, DeadlinePasses
  <2>2. link' = link \/ (link = "up" /\ link' # "up")
    BY <1>2 DEF Environment, SocketCloses, SessionEnds, ShellExits,
                ConnectionEnds, DeadlinePasses
  <2>3. QED
    BY <2>1, <2>2 DEF C!Next, C!Lose
<1>3. CASE HostAnswers \/ HostNotifies \/ WaitGivesUp
  <2>0. Proceed
    BY <1>3 DEF HostAnswers, HostNotifies, WaitGivesUp
  <2>1. CASE stage' \in Working
    BY <2>0, <2>1, ProceedStage DEF IInv
  <2>2. CASE stage' = "opened"
    <3>1. phase = "pending" /\ phase' = "opened" /\ UNCHANGED <<calls, link>>
      BY <2>0, <2>2, ProceedStage, StagesDiffer DEF IInv, Settled
    <3>2. stage = "shell"
      BY <2>0, <2>2, ProceedStage, StagesDiffer DEF IInv, Settled
    <3>3. link = "up"
      BY <1>3, <3>2 DEF HostAnswers, HostNotifies, WaitGivesUp, Answered,
                        WaitTimesOut, Waits, Refreshes
    <3>4. QED
      BY <3>1, <3>3 DEF C!Next, C!Opened, C!Becomes
  <2>3. QED
    BY <2>0, <2>1, <2>2, ProceedStage DEF IInv
<1>4. CASE Fail
  <2>1. stage \in Working
    BY <1>4 DEF Fail, MayFail, TimedOut, Working
  <2>2. phase = "pending" /\ phase' = "rejected" /\ UNCHANGED <<calls, link>>
    BY <1>4, <2>1, StagesDiffer DEF Fail, Settled
  <2>3. QED
    BY <2>2 DEF C!Next, C!Reject, C!Becomes
<1>5. CASE Resolve
  <2>1. phase = "opened" /\ phase' = "resolved" /\ UNCHANGED <<calls, link>>
    BY <1>5, StagesDiffer DEF Resolve, Settled
  <2>2. QED
    BY <2>1 DEF C!Next, C!Resolve, C!Becomes
<1>6. CASE MonitorReports \/ PingFails
  <2>1. stage \in {"opened", "resolved"} /\ UNCHANGED <<stage, link>>
    BY <1>6 DEF MonitorReports, PingFails, IInv, TypeOK
  <2>2. phase \in {"opened", "resolved"} /\ phase' = phase
    BY <2>1, StagesDiffer DEF Settled
  <2>3. CASE closedOnce
    BY <1>6, <2>1, <2>2, <2>3 DEF MonitorReports, PingFails, NotifyClosed
  <2>4. CASE ~closedOnce
    <3>1. calls = 0 /\ calls' = 1
      BY <1>6, <2>4 DEF MonitorReports, PingFails, NotifyClosed, IInv,
                        ReportersExist
    <3>2. QED
      BY <2>1, <2>2, <3>1 DEF C!Next, C!Tell
  <2>5. QED
    BY <2>3, <2>4
<1>7. CASE PingSent \/ PingAnswered \/ TunnelPing
  BY <1>7 DEF PingSent, PingAnswered, TunnelPing
<1>8. CASE UNCHANGED vars
  BY <1>8 DEF vars
<1>9. QED
  BY <1>1, <1>2, <1>3, <1>4, <1>5, <1>6, <1>7, <1>8
     DEF Next, Run, Ping

(* main.go keeps the contract boot.js relies on, whatever the link does. *)
THEOREM GoTransportContract == Spec => Contract
<1>1. IInv /\ [Next]_vars => IInv'
  BY InvStep
<1>2. IInv /\ [Next]_vars => [C!Next]_(C!tvars)
  BY StepRefines
<1>3. QED
  BY <1>1, <1>2, InvInit, InitRefines, PTL DEF Spec, Contract, C!Spec
=============================================================================
