------------------------------- MODULE Session -------------------------------
(* The session orchestrator of boot.js (464-659): connect(), teardownSession, *)
(* handleDisconnect and the callbacks they wire.                              *)
(*                                                                            *)
(* Attempts are numbered by `gen`.  A JS task together with the microtasks it *)
(* queues is one step; between the awaits of connect() other tasks may run.   *)
(* A run of the Go scheduler, which all attempts share, happens inside one    *)
(* task: between Go's resolve/reject and the microtask that runs the .then or *)
(* .catch handler only callbacks of that Go run, of any attempt, can happen;  *)
(* every other task waits for the microtasks (see Quiet).                     *)
EXTENDS Integers, Sequences, FiniteSets

CONSTANTS
  MaxGen,          \* bound: connect attempts explored
  ReconnectLimit,  \* automatic reconnects allowed in a minute (3 in boot.js)
  Minute           \* ticks in that minute (60 000 ms)

ASSUME MaxGenAssumption == MaxGen \in Nat \ {0}
ASSUME LimitAssumption == ReconnectLimit \in Nat \ {0}
ASSUME MinuteAssumption == Minute \in Nat \ {0}

Gens == 1..MaxGen
None == 0             \* null

VARIABLES
  gen,          \* number of the latest attempt
  connecting,   \* a connect() coroutine is running
  live,         \* an interactive shell is believed to be up
  curShell,     \* attempt whose shell receives the keyboard, or None
  curWs,        \* attempt whose socket teardownSession closes, or None
  reconnects,   \* the automatic reconnects on record, by number
  ages,         \* history: how long ago each automatic reconnect was, in
                \* ticks; Minute stands for a minute or more
  status,       \* the status line
  spin,         \* attempt whose boot step is spinning, or None
  ioTerm,       \* attempt whose Terminal has onData bound; None: ioBound unset
  wasm,         \* goReady: "unset", or the promise's fixed outcome
  pc,           \* [Gens -> where that attempt's coroutine is]
  ws,           \* [Gens -> its relay socket]
  go,           \* [Gens -> its Go transport, see Transport]
  told,         \* [Gens -> closedOnce of that transport]
  overlapped    \* history: the user started an attempt over a running one

uiVars == <<status, spin, ioTerm>>
curVars == <<live, curShell, curWs>>
attemptVars == <<gen, connecting, pc>>
transportVars == <<ws, go, told>>
budgetVars == <<reconnects, ages>>
vars == <<uiVars, curVars, attemptVars, transportVars, budgetVars, wasm,
          overlapped>>

Phases == {"launch", "tunnel", "attach", "load", "relay"}
Statuses == {"idle", "refused", "launching", "waiting", "connecting",
             "connected", "disconnected", "failed", "error"}

Init ==
  /\ gen = 0 /\ connecting = FALSE /\ live = FALSE
  /\ curShell = None /\ curWs = None
  /\ reconnects = {} /\ ages = <<>>
  /\ status = "idle" /\ spin = None /\ ioTerm = None
  /\ wasm = "unset"
  /\ pc = [s \in Gens |-> "none"]
  /\ ws = [s \in Gens |-> "none"]
  /\ go = [s \in Gens |-> "idle"]
  /\ told = [s \in Gens |-> FALSE]
  /\ overlapped = FALSE

-----------------------------------------------------------------------------
(* Helpers                                                                    *)

\* A Go run has settled a promise whose handler has not run yet.
Settling(s) == go[s] \in {"opened", "rejecting"}

\* No microtask is pending: a new task (click, timer, network) may start.  The
\* steps of Go do not wait for it, they may belong to the run that settled.
Quiet == \A s \in Gens : ~Settling(s)

\* The Go side of s is at work or up: a second attempt would run beside it.
Pending(s) == go[s] \in {"handshake", "opened", "rejecting"}

(* Mutant: a connect() that does not refuse to run twice. *)
NoReentryGuard == TRUE

Reentrant == ~connecting

(* stepStart: the step of whichever attempt was spinning is marked OK, and a  *)
(* step of attempt s spins instead.                                           *)
StepStart(s) == spin' = s

(* The synchronous prefix of connect(): a new gen, a new Terminal (ensureTerm *)
(* disposes the old one and with it its onData binding) and the first step.   *)
StartAttempt ==
  /\ gen < MaxGen
  /\ gen' = gen + 1
  /\ connecting' = TRUE
  /\ pc' = [pc EXCEPT ![gen + 1] = "launch"]
  /\ status' = "launching"
  /\ StepStart(gen + 1)

(* connect() with an empty owner or repo field. *)
RefuseAttempt ==
  /\ status' = "refused"
  /\ UNCHANGED <<attemptVars, spin>>

ConnectBody == StartAttempt \/ RefuseAttempt

(* Mutant: a teardown that leaves the socket and its handlers in place. *)
LeakSocket(w) == w

(* teardownSession detaches the handlers of the adopted socket and closes it. *)
(* The handle spacehatchSSHConnect returned has no close(): Go is not told.   *)
Detach(w) == IF curWs = None THEN w ELSE [w EXCEPT ![curWs] = "detached"]

(* Mutant: events are not tied to the attempt they were wired under. *)
AnySessionsEvent(s) == live /\ ~connecting

(* Mutant: an attempt captures `gen` before it is bumped. *)
EarlyCapture(s) == s - 1 = gen /\ live /\ ~connecting

\* handleDisconnect acts on an event of the latest attempt under a live shell.
Heeded(s) == s = gen /\ live /\ ~connecting

(* Mutant: the stamps that are too old are kept, too. *)
NeverExpires == reconnects

\* The stamps on record that are younger than a minute.
Young == {r \in reconnects : ages[r] < Minute}

(* Mutant: one reconnect too many. *)
MayReconnectOnceMore == Cardinality(Young) <= ReconnectLimit

MayReconnect == Cardinality(Young) < ReconnectLimit

\* Another automatic reconnect is put on record.
Stamp ==
  /\ ages' = Append(ages, 0)
  /\ reconnects' = Young \union {Len(ages) + 1}

(* Mutant: giving up leaves the status line as it was. *)
SilentLoss == status' = status

ReportLost == status' = "disconnected"

(* handleDisconnect(reason, s), where w is what the sockets are once the      *)
(* event that caused the call is accounted for.                               *)
HandleDisconnect(s, w) ==
  \/ /\ ~Heeded(s)
     /\ ws' = w
     /\ UNCHANGED <<curVars, attemptVars, budgetVars, status, spin>>
  \/ /\ Heeded(s)
     /\ ws' = Detach(w)
     /\ live' = FALSE /\ curShell' = None /\ curWs' = None
     /\ \/ MayReconnect /\ Stamp /\ ConnectBody
        \/ /\ ~MayReconnect
           /\ reconnects' = Young
           /\ ReportLost
           /\ UNCHANGED <<ages, attemptVars, spin>>

-----------------------------------------------------------------------------
(* The user *)

(* A click on Connect.  The button is enabled whenever no coroutine runs,     *)
(* also under a live shell and during the Go handshake; nothing is torn down. *)
Click ==
  /\ Quiet
  /\ Reentrant
  /\ \/ /\ StartAttempt
        /\ overlapped' = (overlapped \/ live \/ \E s \in Gens : Pending(s))
     \/ /\ RefuseAttempt
        /\ UNCHANGED overlapped
  /\ UNCHANGED <<curVars, transportVars, budgetVars, ioTerm, wasm>>

(* The clock goes on. *)
Tick ==
  /\ \E r \in DOMAIN ages : ages[r] < Minute
  /\ ages' = [r \in DOMAIN ages |-> IF ages[r] < Minute THEN ages[r] + 1 ELSE Minute]
  /\ UNCHANGED <<uiVars, curVars, attemptVars, transportVars, reconnects, wasm,
                 overlapped>>

-----------------------------------------------------------------------------
(* The coroutine of attempt s, one step per await *)

NextPhase == [launch |-> "tunnel", tunnel |-> "attach", attach |-> "load"]

(* launch(), tunnelProps() and the tunnel-host poll complete, in turn. *)
Advance(s) ==
  /\ Quiet
  /\ pc[s] \in DOMAIN NextPhase
  /\ pc' = [pc EXCEPT ![s] = NextPhase[pc[s]]]
  /\ status' = IF pc[s] = "tunnel" THEN "waiting" ELSE status
  /\ StepStart(s)
  /\ UNCHANGED <<gen, connecting, curVars, transportVars, budgetVars,
                 ioTerm, wasm, overlapped>>

(* await loadGo(): the module is loaded at most once, its promise is kept. *)
LoadTransport(s) ==
  /\ Quiet
  /\ pc[s] = "load" /\ wasm # "bad"
  /\ wasm' = "ok"
  /\ pc' = [pc EXCEPT ![s] = "relay"]
  /\ status' = "connecting"
  /\ StepStart(s)
  /\ UNCHANGED <<gen, connecting, curVars, transportVars, budgetVars,
                 ioTerm, overlapped>>

(* Mutant: the finally block does not release the guard. *)
NoFinally == connecting' = connecting

Finally == connecting' = FALSE

(* openRelay resolved: the socket is wired to a new Go transport and connect()*)
(* returns, its finally block included; the promise is not awaited.           *)
OpenRelay(s) ==
  /\ Quiet
  /\ pc[s] = "relay"
  /\ pc' = [pc EXCEPT ![s] = "wired"]
  /\ ws' = [ws EXCEPT ![s] = "open"]
  /\ go' = [go EXCEPT ![s] = "handshake"]
  /\ Finally
  /\ StepStart(s)
  /\ UNCHANGED <<gen, curVars, told, budgetVars, status, ioTerm, wasm,
                 overlapped>>

(* Mutant: an attempt that fails leaves its step spinning. *)
NoStepFail == spin' = spin

StepEnds == spin' = None

(* Any await of the coroutine throws: catch, then finally.  A failed loadGo   *)
(* leaves its rejected promise behind for every later attempt.                *)
Abort(s) ==
  /\ Quiet
  /\ pc[s] \in Phases
  /\ pc[s] = "load" => wasm # "ok"
  /\ wasm' = IF pc[s] = "load" THEN "bad" ELSE wasm
  /\ pc' = [pc EXCEPT ![s] = "aborted"]
  /\ StepEnds
  /\ status' = "error"
  /\ Finally
  /\ UNCHANGED <<gen, curVars, transportVars, budgetVars, ioTerm,
                 overlapped>>

-----------------------------------------------------------------------------
(* The Go transport of attempt s and the handlers of its promise *)

(* onStatus("… …") during the handshake starts a step, whether the socket is  *)
(* still there or not: Go finds out by timeouts only.                         *)
GoStatus(s) ==
  /\ go[s] = "handshake"
  /\ StepStart(s)
  /\ UNCHANGED <<curVars, attemptVars, transportVars, budgetVars, status, ioTerm, wasm, overlapped>>

(* run() opened the shell: onStatus("shell: connected") ends the step and the *)
(* promise is resolved; .then is a microtask still to run.  The last thing    *)
(* run() waits for is an answer of the host, which came over the socket.      *)
GoOpened(s) ==
  /\ go[s] = "handshake" /\ ws[s] = "open"
  /\ go' = [go EXCEPT ![s] = "opened"]
  /\ StepEnds
  /\ UNCHANGED <<curVars, attemptVars, ws, told, budgetVars, status,
                 ioTerm, wasm, overlapped>>

(* run() failed.  With the socket gone only a timeout of run() gets here. *)
GoReject(s) ==
  /\ go[s] = "handshake"
  /\ go' = [go EXCEPT ![s] = "rejecting"]
  /\ UNCHANGED <<uiVars, curVars, attemptVars, ws, told, budgetVars, wasm,
                 overlapped>>

(* Mutant: the .then handler forgets to record the socket it adopts. *)
AdoptShellOnly(s) == curShell' = s /\ curWs' = curWs /\ live' = TRUE

Adopt(s) == curShell' = s /\ curWs' = s /\ live' = TRUE

(* promise.then: adopt the transport as the current one.  The keyboard is     *)
(* bound to the current Terminal once only (ioBound).                         *)
Then(s) ==
  /\ go[s] = "opened"
  /\ go' = [go EXCEPT ![s] = "up"]
  /\ Adopt(s)
  /\ ioTerm' = IF ioTerm = None THEN gen ELSE ioTerm
  /\ StepEnds
  /\ status' = "connected"
  /\ UNCHANGED <<attemptVars, ws, told, budgetVars, wasm, overlapped>>

(* promise.catch: the socket is left open. *)
Catch(s) ==
  /\ go[s] = "rejecting"
  /\ go' = [go EXCEPT ![s] = "failed"]
  /\ StepEnds
  /\ status' = "failed"
  /\ UNCHANGED <<curVars, attemptVars, ws, told, budgetVars, ioTerm,
                 wasm, overlapped>>

(* The shell of s has been opened.  The .then microtask may still be to come, *)
(* when the callback happens in the Go run that opened it.                    *)
ShellUp(s) == go[s] \in {"opened", "up"}

(* notifyClosed: the shell ended or a keepalive failed, with the socket open  *)
(* or after its end, and boot.js has not been called for s before.            *)
TransportEnd(s) ==
  /\ ShellUp(s)
  /\ ~told[s]
  /\ told' = [told EXCEPT ![s] = TRUE]
  /\ HandleDisconnect(s, ws)
  /\ UNCHANGED <<go, ioTerm, wasm, overlapped>>

(* ws.onclose.  Nothing tells Go: its bridge only sees silence. *)
WsClose(s) ==
  /\ Quiet
  /\ ws[s] = "open"
  /\ HandleDisconnect(s, [ws EXCEPT ![s] = "closed"])
  /\ UNCHANGED <<go, told, ioTerm, wasm, overlapped>>

-----------------------------------------------------------------------------
ConnectStep(s) == Advance(s) \/ LoadTransport(s) \/ OpenRelay(s) \/ Abort(s)
Microtask(s) == Then(s) \/ Catch(s)
GoStep(s) == GoStatus(s) \/ GoOpened(s) \/ GoReject(s) \/ TransportEnd(s)

Next ==
  \/ Click \/ Tick
  \/ \E s \in Gens : ConnectStep(s) \/ Microtask(s) \/ GoStep(s) \/ WsClose(s)

(* An await of connect() ends: its fetches fail rather than hang for ever and *)
(* its loops are bounded.  A queued microtask runs.                           *)
Fairness ==
  \A s \in Gens : WF_vars(ConnectStep(s)) /\ WF_vars(Microtask(s))

Spec == Init /\ [][Next]_vars /\ Fairness

-----------------------------------------------------------------------------
(* Properties *)

TypeUi ==
  /\ status \in Statuses
  /\ spin \in 0..MaxGen /\ ioTerm \in 0..MaxGen

TypeFlags ==
  /\ connecting \in BOOLEAN /\ live \in BOOLEAN /\ overlapped \in BOOLEAN
  /\ wasm \in {"unset", "ok", "bad"}

TypeNumbers ==
  /\ gen \in 0..MaxGen /\ curShell \in 0..MaxGen /\ curWs \in 0..MaxGen

TypeBudget ==
  /\ ages \in Seq(0..Minute) /\ reconnects \subseteq DOMAIN ages
  /\ Cardinality(reconnects) <= ReconnectLimit

PcStates == Phases \union {"none", "wired", "aborted"}
WsStates == {"none", "open", "closed", "detached"}
GoStates == {"idle", "handshake", "opened", "rejecting", "up", "failed"}

TypeAttempts ==
  /\ pc \in [Gens -> PcStates] /\ ws \in [Gens -> WsStates]
  /\ go \in [Gens -> GoStates] /\ told \in [Gens -> BOOLEAN]

(* The type invariant; its bound on `reconnects` is the code's own: at most   *)
(* ReconnectLimit automatic reconnects are on record (boot.js 504-511).       *)
TypeOK == TypeUi /\ TypeFlags /\ TypeNumbers /\ TypeBudget /\ TypeAttempts

(* At most one connect() coroutine is between its awaits, it is the latest    *)
(* attempt's, and `connecting` says exactly that: a double click or a         *)
(* reconnect that overlaps a click never runs two attempts.                   *)
OneAttempt ==
  \A s \in Gens : pc[s] \in Phases <=> (connecting /\ s = gen)

(* `live` means that a transport is adopted: the shell that gets the keyboard *)
(* and the socket teardownSession would close belong to the same attempt,     *)
(* whose promise did resolve.                                                 *)
LiveAdopted ==
  /\ live <=> curShell # None
  /\ curWs = curShell
  /\ live => go[curShell] = "up"

(* As long as the user starts an attempt only when none is running, a live    *)
(* session is the latest attempt's, on an open socket, with no coroutine or   *)
(* handshake beside it; the status line says connected, or asks for the       *)
(* fields it needed when Connect was clicked again.                           *)
UndisturbedLive ==
  ~overlapped /\ live =>
    /\ curShell = gen /\ ws[gen] = "open"
    /\ ~connecting
    /\ \A s \in Gens : ~Pending(s)
    /\ status \in {"connected", "refused"}

(* The verb of the system line, renderSysinfo's reading of the status. *)
Verb ==
  CASE status = "disconnected"       -> "disconnected"
    [] status = "connected"          -> "connected"
    [] status \in {"failed", "error"} -> "couldn't connect"
    [] OTHER                         -> "connecting"

(* The system line agrees with `live`: it says connected only when boot.js    *)
(* believes a shell to be up, disconnected only when it does not.  Unless the *)
(* user started an attempt over another, it is also right about the socket:   *)
(* what it calls connected is the latest attempt, whose relay socket is open. *)
(* Of the shell it may be wrong: see LiveHasShell.  With overlap it may be    *)
(* wrong of the socket, too, for the .then of an older attempt can come last. *)
StatusHonest ==
  /\ Verb = "connected" => live
  /\ Verb = "disconnected" => ~live
  /\ ~overlapped /\ Verb = "connected" => curShell = gen /\ ws[curShell] = "open"

(* A relay socket that carried a session is open only while that session is   *)
(* live: whatever ends it, teardownSession closes the socket, unless the user *)
(* started another attempt over it.                                           *)
SocketReleased ==
  ~overlapped =>
    \A s \in Gens : go[s] = "up" /\ ws[s] = "open" => live /\ curWs = s

(* Attempt s is under way: its coroutine is between two awaits, or run() has  *)
(* neither opened the shell nor had its error handled.  A handshake that hangs*)
(* on a closed socket is under way, for ever if no timeout of run() covers it:*)
(* HandshakeDropReported of GoTransport is about that.                        *)
UnderWay(s) == pc[s] \in Phases \/ go[s] \in {"handshake", "rejecting"}

(* A step of the boot console spins only while the attempt that started it is *)
(* under way: however it ends, and whatever other attempts do to the one      *)
(* stepActive meanwhile, no spinner outlives its attempt.  Without overlap it *)
(* is the latest attempt's.                                                   *)
SpinnerHonest ==
  spin # None => UnderWay(spin) /\ (~overlapped => spin = gen)

(* The transport of s has just died under boot.js. *)
Dies(s) == (ws[s] = "open" /\ ws'[s] # "open") \/ (~told[s] /\ told'[s])

(* A live session ends only because the latest attempt's own transport died,  *)
(* and, without overlap, that is the session that ends: an event of an older  *)
(* attempt, whose socket may still be open and wired, never tears it down.    *)
DropIsCurrent ==
  [][live /\ ~live' => Dies(gen) /\ (~overlapped => curShell = gen)]_vars

(* The converse: without overlap no death of the adopted transport is taken   *)
(* for a stale or a duplicate event, so the session it carried ends with it.  *)
DropNoticed ==
  [][~overlapped /\ live /\ Dies(curShell) => ~live']_vars

\* The automatic reconnects of the last minute, on record or not.
Recent == {r \in DOMAIN ages : ages[r] < Minute}

(* Never are there more than ReconnectLimit automatic reconnects in a minute. *)
BudgetKept == Cardinality(Recent) <= ReconnectLimit

(* A session that drops is reconnected exactly when fewer than ReconnectLimit *)
(* automatic reconnects were made in the last minute, and nothing else is     *)
(* reconnected: forgetting old stamps, giving up and clicks in between never  *)
(* make the record differ from what happened (boot.js 480-481, 503-511).      *)
Reconnects == Len(ages') > Len(ages)
ReconnectBudget ==
  [][/\ Reconnects => live /\ ~live'
     /\ live /\ ~live' => (Reconnects <=> Cardinality(Recent) < ReconnectLimit)]_vars

(* connect() always comes back and re-enables the Connect button. *)
ConnectReturns == connecting ~> ~connecting

(* What comments of boot.js say and the code does not do.                     *)

(* "`live` is true only while an interactive shell is up" (boot.js:466): the  *)
(* adopted shell has not reported its end.                                    *)
LiveHasShell == ~overlapped /\ live => ~told[curShell]

(* "a later reconnect swaps curShell without stacking duplicate handlers"     *)
(* (boot.js:632-634): under a live session the keyboard of the Terminal on    *)
(* screen reaches the current shell.                                          *)
InputReachesShell == ~overlapped /\ live => ioTerm = gen
=============================================================================
