----------------------------- MODULE GoTransport -----------------------------
(* One call of spacehatchSSHConnect (main.go 48-218): the goroutine of run(), *)
(* stage by stage, the shell-end monitor of sshshell.Open, the 2 s keepalive  *)
(* of the promise executor and the 20 s keepalive of tunnel.Connect.          *)
(*                                                                            *)
(* All of them talk over one link, the relay socket behind bridge.Conn:       *)
(*   "up"     requests are answered                                           *)
(*   "ended"  the relay SSH session is over and Go knows: requests fail       *)
(*   "silent" the socket is closed in boot.js.  Nobody calls CloseWithError   *)
(*            and the sink swallows send errors, so Go waits for answers that *)
(*            cannot come.                                                    *)
(* The SSH connection of the shell runs inside it, over a tunnel channel of   *)
(* its own, and can end while the relay session goes on.                      *)
EXTENDS Naturals

VARIABLES
  stage,      \* where run() is, and then what became of the promise
  link,       \* the relay socket as Go sees it
  ctxDone,    \* the 90 s deadline of run()'s context has passed
  shell,      \* "none"; "open"; "exited": its channel is closed, the SSH
              \* connection lives on; "cut": the SSH connection is over, too
  monitor,    \* the goroutine waiting in session.Wait()
  pinger,     \* the goroutine of the 2 s keepalive
  tunnelPing, \* the goroutine of the 20 s session-level keepalive
  closedOnce, \* notifyClosed has been called
  calls       \* history: how often onClosed was invoked

noticeVars == <<closedOnce, calls>>
vars == <<stage, link, ctxDone, shell, monitor, pinger, tunnelPing, noticeVars>>

\* Stages that fail when the context is done; the others do not look at it.
\* startServer is a gRPC call with it; that the dev-tunnels SDK ends the other
\* three with the context it is given is assumed of that library.
UnderContext == {"relay", "openAgent", "startServer", "openSsh"}
\* RefreshPorts: any answer, an error too, is ignored.
Refreshes == {"refreshAgent", "refreshSsh"}
\* waitAndReady: at most 8 s, then on, whatever happened.
Waits == {"waitAgent", "waitSsh"}
Working == UnderContext \union Refreshes \union Waits \union {"register", "shell"}
Settled == {"opened", "resolved", "rejected"}

GoroutineStates == {"off", "sleeping", "asking", "done"}

After ==
  [relay |-> "refreshAgent", refreshAgent |-> "waitAgent",
   waitAgent |-> "openAgent", openAgent |-> "startServer",
   startServer |-> "register", register |-> "refreshSsh",
   refreshSsh |-> "waitSsh", waitSsh |-> "openSsh", openSsh |-> "shell",
   shell |-> "opened"]

Init ==
  /\ stage = "idle" /\ link = "up" /\ ctxDone = FALSE
  /\ shell = "none" /\ closedOnce = FALSE /\ calls = 0
  /\ monitor = "off" /\ pinger = "off" /\ tunnelPing = "off"

-----------------------------------------------------------------------------
(* The environment *)

(* The relay socket closes in boot.js; Go is not told. *)
SocketCloses ==
  /\ stage # "idle" /\ link = "up"
  /\ link' = "silent"
  /\ UNCHANGED <<stage, ctxDone, shell, monitor, pinger, tunnelPing, noticeVars>>

(* The relay ends the SSH session in band (a disconnect message, EOF). *)
SessionEnds ==
  /\ stage # "idle" /\ link = "up"
  /\ link' = "ended"
  /\ shell' = IF shell = "none" THEN "none" ELSE "cut"
  /\ UNCHANGED <<stage, ctxDone, monitor, pinger, tunnelPing, noticeVars>>

(* The codespace closes the shell's channel; the connection stays up. *)
ShellExits ==
  /\ shell = "open" /\ link = "up"
  /\ shell' = "exited"
  /\ UNCHANGED <<stage, link, ctxDone, monitor, pinger, tunnelPing, noticeVars>>

(* The SSH connection of the shell ends; the relay session goes on. *)
ConnectionEnds ==
  /\ shell \in {"open", "exited"} /\ link = "up"
  /\ shell' = "cut"
  /\ UNCHANGED <<stage, link, ctxDone, monitor, pinger, tunnelPing, noticeVars>>

(* 90 s have passed since run() began; run() cancels the context on return. *)
DeadlinePasses ==
  /\ stage \in Working /\ ~ctxDone
  /\ ctxDone' = TRUE
  /\ UNCHANGED <<stage, link, shell, monitor, pinger, tunnelPing, noticeVars>>

-----------------------------------------------------------------------------
(* run() *)

(* spacehatchSSHConnect: the promise executor starts run() in a goroutine. *)
Connect ==
  /\ stage = "idle"
  /\ stage' = "relay"
  /\ UNCHANGED <<link, ctxDone, shell, monitor, pinger, tunnelPing, noticeVars>>

(* Mutant: the shell's end is not watched. *)
NoMonitor == monitor' = monitor

StartMonitor == monitor' = "asking"

(* The stage is completed.  tunnel.Connect leaves its keepalive running;      *)
(* sshshell.Open its monitor.                                                 *)
Proceed ==
  /\ stage \in DOMAIN After
  /\ stage' = After[stage]
  /\ tunnelPing' = IF stage = "relay" THEN "sleeping" ELSE tunnelPing
  /\ IF stage = "shell" THEN StartMonitor /\ shell' = "open"
                        ELSE UNCHANGED <<monitor, shell>>
  /\ UNCHANGED <<link, ctxDone, pinger, noticeVars>>

(* Mutant: waitAndReady without its 8 s timeout: wait for the notification. *)
WaitsForever == FALSE

WaitTimesOut == stage \in Waits

(* What lets run() leave its stage: an answer; for RefreshPorts an error as   *)
(* well; registerPort goes over HTTP, and its outcome is only a warning.      *)
Answered ==
  \/ link = "up" /\ stage \in Working /\ (ctxDone => stage \notin UnderContext)
  \/ link = "ended" /\ stage \in Refreshes
  \/ stage = "register"

HostAnswers == Answered /\ stage \notin Waits /\ Proceed
HostNotifies == link = "up" /\ stage \in Waits /\ Proceed
WaitGivesUp == WaitTimesOut /\ Proceed

(* Mutant: run() still looks at an error after the shell is open. *)
MayFailLate == stage \in UnderContext \union {"shell", "opened"} /\ link = "up"

MayFail == stage \in UnderContext \union {"shell"} /\ link # "silent"

TimedOut == stage \in UnderContext /\ ctxDone

(* run() returns an error: the promise is rejected.  The tunnel is not closed.*)
Fail ==
  /\ MayFail \/ TimedOut
  /\ stage' = "rejected"
  /\ UNCHANGED <<link, ctxDone, shell, monitor, pinger, tunnelPing, noticeVars>>

(* run() returned the shell: the executor starts the keepalive and resolves.  *)
Resolve ==
  /\ stage = "opened"
  /\ stage' = "resolved"
  /\ pinger' = "sleeping"
  /\ UNCHANGED <<link, ctxDone, shell, monitor, tunnelPing, noticeVars>>

-----------------------------------------------------------------------------
(* The goroutines run() leaves behind *)

(* Mutant: every reporter calls onClosed. *)
NotifyAlways == closedOnce' = TRUE /\ calls' = calls + 1

NotifyClosed ==
  \/ closedOnce /\ UNCHANGED noticeVars
  \/ ~closedOnce /\ closedOnce' = TRUE /\ calls' = calls + 1

ShellGone == shell \in {"exited", "cut"}

(* session.Wait() returned and the end was not our own Close(): boot.js never *)
(* calls the shell's close, so `closing` is always false.                     *)
MonitorReports ==
  /\ monitor = "asking" /\ ShellGone
  /\ monitor' = "done"
  /\ NotifyClosed
  /\ UNCHANGED <<stage, link, ctxDone, shell, pinger, tunnelPing>>

(* The 2 s keepalive: a Ping is sent over the shell's SSH connection, and     *)
(* answered, also when the shell has exited, or failed.                       *)
PingSent ==
  /\ pinger = "sleeping"
  /\ pinger' = "asking"
  /\ UNCHANGED <<stage, link, ctxDone, shell, monitor, tunnelPing, noticeVars>>

PingAnswered ==
  /\ pinger = "asking" /\ link = "up" /\ shell # "cut"
  /\ pinger' = "sleeping"
  /\ UNCHANGED <<stage, link, ctxDone, shell, monitor, tunnelPing, noticeVars>>

PingFails ==
  /\ pinger = "asking" /\ shell = "cut"
  /\ pinger' = "done"
  /\ NotifyClosed
  /\ UNCHANGED <<stage, link, ctxDone, shell, monitor, tunnelPing>>

(* The 20 s keepalive of the tunnel stops on an error and tells nobody. *)
TunnelPing ==
  /\ \/ tunnelPing = "sleeping" /\ tunnelPing' = "asking"
     \/ tunnelPing = "asking" /\ link = "up" /\ tunnelPing' = "sleeping"
     \/ tunnelPing = "asking" /\ link = "ended" /\ tunnelPing' = "done"
  /\ UNCHANGED <<stage, link, ctxDone, shell, monitor, pinger, noticeVars>>

-----------------------------------------------------------------------------
Environment ==
  SocketCloses \/ SessionEnds \/ ShellExits \/ ConnectionEnds \/ DeadlinePasses
Run == HostAnswers \/ WaitGivesUp \/ Fail \/ Resolve
Ping == PingSent \/ PingAnswered \/ PingFails

Next ==
  Connect \/ Environment \/ Run \/ HostNotifies \/ MonitorReports \/ Ping \/ TunnelPing

(* Timers fire, goroutines that can run do, and a host that is reached        *)
(* answers requests.  That it announces a port is not assumed, nor is anything*)
(* of the link: it may stay up, end or go silent.                             *)
Fairness ==
  /\ WF_vars(DeadlinePasses) /\ WF_vars(Run)
  /\ WF_vars(MonitorReports) /\ WF_vars(Ping)

Spec == Init /\ [][Next]_vars /\ Fairness

-----------------------------------------------------------------------------
(* Properties *)

(* Types, and who runs when: the shell's monitor exists exactly beside an     *)
(* opened shell and the 2 s keepalive exactly beside a resolved promise, so   *)
(* nothing can report the end of a shell that boot.js will never be given.    *)
TypeOK ==
  /\ stage \in Working \union Settled \union {"idle"}
  /\ link \in {"up", "ended", "silent"}
  /\ shell \in {"none", "open", "exited", "cut"}
  /\ ctxDone \in BOOLEAN /\ closedOnce \in BOOLEAN /\ calls \in Nat
  /\ monitor \in GoroutineStates /\ pinger \in GoroutineStates
  /\ tunnelPing \in GoroutineStates
  /\ monitor # "off" <=> stage \in {"opened", "resolved"}
  /\ pinger # "off" <=> stage = "resolved"

phase == IF stage \in Working THEN "pending" ELSE stage

C == INSTANCE Transport WITH
       promise <- phase, told <- calls, reachable <- link = "up"

(* The ten stages, four goroutines and two reporters of the end of a shell    *)
(* implement the contract boot.js relies on: the promise settles once, and    *)
(* opens a shell only over a link that is up; onClosed is invoked at most     *)
(* once, although both reporters may see the same end, only for an opened     *)
(* shell and never beside a rejection.                                        *)
Contract == C!Spec

(* onClosed is never a false alarm: when boot.js is told, and tears the        *)
(* session down, the shell is gone, whichever of the two reporters it was.    *)
ToldTruly == calls > 0 => ShellGone

(* The end of a shell always has its reporter: as long as boot.js has not     *)
(* been told, the monitor of an opened shell waits for it.                    *)
Watched ==
  stage \in {"opened", "resolved"} /\ calls = 0 => monitor = "asking"

(* run() never hangs while its link speaks, or has said that it is over, also *)
(* when the host never announces a port run() waits for.                      *)
HandshakeSettles == stage \in Working ~> stage \in Settled \/ link = "silent"

(* The end of an opened shell always reaches boot.js, also when the           *)
(* connection stays up and every keepalive is answered (main.go 60-64).       *)
ShellEndReported == ShellGone ~> calls > 0

(* "drops during the connect handshake fall through to connect()'s own error  *)
(* path" (boot.js:467-468): a handshake whose socket is gone is given up.     *)
HandshakeDropReported ==
  stage \in Working /\ link = "silent" ~> stage \in Settled
=============================================================================
