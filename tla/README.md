# Spacehatch in TLA+

Spacehatch is a browser terminal for GitHub Codespaces. A page (`boot.js`)
starts a codespace over GitHub's REST API, opens one WebSocket to the dev-tunnels
relay and hands its bytes to a Go program compiled to WebAssembly, which speaks
the relay's SSH, asks the codespace's agent over gRPC to start an SSH server and
opens a shell there. A small worker proxies the two management calls a browser
may not make, and the relay itself as a fallback.

This directory models the parts of it in which order, failure and time matter.
Paths below are relative to the repository: *boot* is
`frontend-ssh-wasm/boot.js`, *main*, *tunnel*, *sshshell*, *bridge* and *agent*
are the files of that name under `ssh-wasm-src/`, *worker* is
`auth-worker/worker.js`. `PROJECT.json` gives the source lines of every
definition.

## The system

| part | state | operations | what makes it correct |
|---|---|---|---|
| session orchestration, boot 464-659 | `gen`, `connecting`, `live`, `curShell`, `curWs`, `reconnects`, status, `ioBound` | `connect`, `handleDisconnect`, `teardownSession`, promise handlers, `onStatus`, `onClosed`, `ws.onclose` | one attempt at a time; a live session is the latest attempt's and has its shell and socket; only its own transport's death ends it; reconnects are bounded; `connect` returns |
| codespace lifecycle, boot 325-428 | `poll`'s counter and the time of the last start | `launch`, `poll`, `tunnelProps`, `gh` | starts are throttled but repeated; the wait ends |
| relay socket, boot 661-689 | per try: socket, timer, `settled` | `openRelay`, `finish` | one chain of tries; the promise gets an open socket or an error; it ends |
| WASM loader, boot 430-446 | `goReady` | `loadGo` | the module runs once |
| boot console, boot 159-201 | the active step and its interval | `stepStart`, `stepFinish`, `detail` | a spinning step belongs to what is under way |
| predictive echo, boot 34-93 | pending predictions, pause, alternate screen | `predictInput`, `predictOutput`, `predictClear`, `predictReset` | the Terminal shows what the server sent; no prediction in a pause or the alternate screen |
| system line, boot 203-314 | status, codespace name, RTT average | `renderSysinfo`, `fitCodespace`, `showRtt` | it says what is; the rest is formatting |
| Go transport, main, sshshell, agent | the stage of `run`, `closedOnce`, four goroutines | `connect`, `run`, `notifyClosed`, keepalives, `Open`, `Ping` | the promise settles once; `onClosed` comes at most once, for an opened shell only; the end of the shell is reported |
| tunnel client and port tracker, tunnel | forwarded ports, waiters | `Add`, `WaitForPort`, `RefreshPorts`, `OpenPort`, `keepAlive` | no wakeup is lost, no channel closed twice, a wait ends |
| byte bridge, bridge | buffer, `closed`, `err` | `Push`, `Read`, `Write`, `Close`, `CloseWithError` | an ordered byte stream with an end |
| auth worker, worker 52-214 | none | `/gh-api`, `/tunnel`, `/port`, `/relay` | what one route hands out the other accepts; the page's polling of `/tunnel` ends |
| RelayProxy, worker 217-295 | two sockets per client, `_bridge` | `fetch`, message, close and error handlers | both directions in order, clients apart; one side's end ends the other |

How they interact. `connect` awaits the codespace, the tunnel, the worker's
`/tunnel`, the WASM module and `openRelay` in turn, then calls
`spacehatchSSHConnect` and returns: **the promise of the transport is not
awaited**. From then on everything is callbacks: the socket's `message` handler
pushes bytes into `bridge.Conn`; goroutines read them, write to the sink, call
`onStatus`, `onData`, `onClosed` and settle the promise; `ws.onclose` and
`onClosed` call `handleDisconnect`, which may call `connect` again. The page has
one thread. Tasks (clicks, timers, network events, runs of the Go scheduler)
interleave at every `await`; microtasks (`.then`, `.catch`) follow the task that
queued them. Go runs its goroutines one at a time inside such a task.

What is hard: an event of an old attempt arriving under a new one; Connect being
clicked at any moment, also over a live session, which tears nothing down; a
drop during the handshake, when nobody listens; the end of the shell between
`resolve` and `.then`; timers racing the events they guard; a codespace that
bounces; a host that never announces its port; wakeups of condition variables
and channels. `PROJECT.json` lists the main hazards at their lines.

## The modules

| module | models | checked by | proofs |
|---|---|---|---|
| `Session` | session orchestration, one instance of everything per attempt | `session.cfg`, `session_shell.cfg`, `session_keyboard.cfg` | `SessionProofs` |
| `Transport` | the contract of one Go transport, abstract | refined by `GoTransport` | |
| `GoTransport` | the Go transport: `run`, its goroutines, the link | `transport.cfg`, `transport_drop.cfg` | `GoTransportProofs` |
| `PortWait` | what `WaitForPort` promises its callers, abstract | refined by `PortTracker` | |
| `PortTracker` | `portTracker` | `ports.cfg` | `PortTrackerProofs` |
| `ByteStream` | what a `net.Conn` promises, abstract | refined by `Bridge` | |
| `Bridge`, `MCBridge` | `bridge.Conn`; values for TLC | `bridge.cfg` | `BridgeProofs` |
| `Codespace` | `launch` and `poll` against the codespace | `codespace.cfg` | `CodespaceProofs` |
| `Relay` | `openRelay` and its fallback | `relay.cfg` | `RelayProofs` |
| `PredictEcho` | predictive local echo against an echoing pty | `predict.cfg`, `predict_resync.cfg` | `PredictEchoProofs` |
| `Pipes` | what the relay through the worker promises the ends of each pair, abstract | refined by `AuthWorker` | |
| `AuthWorker` | `/tunnel` with the page's polling, `/relay`, `RelayProxy` | `worker.cfg` | `AuthWorkerProofs` |

`Transport` is the seam between the page and Go. `GoTransport` implements it
(`Contract`). The Go steps of `Session` are written to be no narrower than it:
`GoOpened`, `GoReject`, `Then`, `Catch` and `TransportEnd` may be taken in every
phase of the promise in which `Transport` takes its own, whatever the page is
doing, so that the page meets every order of events the contract allows. No run
checks that direction, since it is a fact about guards; one step, `GoOpened`,
asks for the open socket that a reachable host presupposes. `Codespace` and `Relay` are two of the awaits that `Session` takes as
single steps; that those awaits end (`LaunchReturns`, `RelaySettles`) is what
justifies the fairness `Session` assumes of `connect`. `AuthWorker` takes a third
of them apart, the polling of `/tunnel` (`PollEnds`), and what stands behind the
tries that `Relay` makes through the worker. `PredictEcho` stands between the
Terminal and the session that is live.

### Session

Attempts are numbered by `gen`, as in the code. `pc[s]` says which await the
coroutine of attempt `s` is at, `ws[s]` and `go[s]` are its socket and transport,
`told[s]` its `closedOnce`. A task and the microtasks it queues make one step,
with one exception: `resolve` and `reject` are called in a Go run, in which other
goroutines may still call back before the microtask with the handler runs.
`GoOpened`/`GoReject` and `Then`/`Catch` are therefore two steps, and between
them (`~Quiet`) only what the same Go run may still bring comes: `onClosed`,
`onStatus`, or the outcome of another attempt.

The one-minute window of the reconnect budget is kept in ticks, `Minute` of them.
`ages` is the history of all automatic reconnects, with the time since each, up
to a minute; `reconnects`, as in the code, are those still on record, which
`handleDisconnect` thins out only when a session drops. `ReconnectBudget`
compares the decisions made on that record with the history: the two never
disagree.

`ioTerm` is the attempt whose Terminal has the `onData` handler; `ensureTerm`
makes a new Terminal for each attempt. `overlapped` records that the user
clicked Connect over a live session or a handshake: nothing in the code orders
two transports then, and the properties that speak of a single transport are
stated without it. `OneAttempt`, `LiveAdopted`, `ConnectReturns`,
`ReconnectBudget`, the first halves of `SpinnerHonest` and `DropIsCurrent` and the
first two conjuncts of `StatusHonest` hold with it too. `Verb` is what the system
line says. `StatusHonest` says that it agrees with the page's own `live`, and,
without overlap, that what it calls connected is the latest attempt with its
socket open. It does not say that there is a shell: `LiveHasShell` shows how
`live` outlasts it. With overlap the socket may be gone as well, since the
`.then` of an older attempt may come last.

`UnderWay(s)` means that the coroutine of attempt `s` has not ended, or that its
handshake has not: `run` has neither opened the shell nor had its error handled.
A handshake whose socket has closed counts, and a status of it may still start a
step (main 193, after the 8 s of `waitAndReady`): it spins until `run` returns,
which it may never do (`HandshakeDropReported`). `SpinnerHonest` says that a step
spins for such an attempt only. `DropIsCurrent` and `DropNoticed` are converses: a
live session ends only by the death of the latest attempt's transport, and no
death of the adopted transport is overlooked.

Left out: what the Terminal shows; the tab-return probe, which the code leaves
at boot 525 because the handle of main 142 has no `ping`; `rttAvg` and the
resize listener; a script of the page that failed to load (`ensureTerm` would
throw outside the `try`).

### GoTransport

`stage` is the request `run` is waiting for; `UnderContext`, `Refreshes` and
`Waits` say how a stage may end: by the 90 s context, by any reply, after 8 s at
the latest. `link` is the socket as Go sees it. It is `"silent"` when boot.js has
closed or lost it, because `CloseWithError` has no caller and the sink swallows
errors; it is `"ended"` when the relay says so in band. `shell` is the shell's
channel and the SSH connection it runs over, which is tunnelled through the link
and may end while the link stays up (`"cut"`). The monitor of `sshshell.Open`, the
2 s and the 20 s keepalive are three more processes. Monitor and 2 s keepalive may
both report the end of one shell; `closedOnce` lets the first through, `calls`
counts the invocations of `onClosed`, and `Contract` fails if there are two. SSH,
gRPC and the tunnel protocol are external: a stage is answered, fails or stays
unanswered. That the dev-tunnels SDK, which is not in the repository, gives up
connecting and opening a port when the context it was handed is done is assumed
(`UnderContext`).

### PortTracker, Bridge

The mutex makes `Add`, the first half of `wait`, `Push` and the closes single
steps. The `select` of `wait` is a step of its own that may take either ready
case; a call that times out leaves its channel on the list. `PortWait` says the
same of a call without locks, lists and channels: that it succeeds only for a
port that is there and gives up only when its time is up. `Read` gives up the
mutex in `cond.Wait` and is woken by `Broadcast` to look again. `Write` holds it
only while it looks at `closed`, so that it is two steps and a close may come
between them; a write is refused only once the conn is closed.

### Codespace, Relay

In `Codespace` each request samples the codespace or acts on it, and the
codespace moves on its own in between. Shutdown and Unavailable are one state,
the transitional ones another, Failed and Deleted a third, as the code treats
them; of the repository's codespaces only the newest, the one `launch` picks, is
there. Time is counted in `poll`'s 2 s; a round takes at least one tick and at
most `MaxDelay`.

In `Relay` each try has its WebSocket, timer and `settled` flag. An open event
may overtake the `close()` that a timeout made before it (`"late"`).

### PredictEcho

`keys` and `wire` are the two directions between the page and the pty. The pty
answers a key with its echo when `echo` is on; a program may print and turn the
echo off or on at any time. `onData` gets any prefix of `wire`: `OutputArrives`
is the part of `predictOutput` that looks at the whole chunk, `Confirm`,
`Diverge` and `Show` are its loop, a byte a step, with nothing else running until
the chunk is used up. A password prompt is two symbols, so that a chunk may end
inside it.

The Terminal is rows of `Width` columns, a cursor and the characters shown. A
character printed behind the last column wraps; `\b` stops at the beginning of its
row, and from behind the last column it starts at the last one, as in xterm.js.
An editing key makes the pty rub out, move the cursor left, move it right (by
writing once more what stands there), write pasted text, or do nothing. Enter and
a change of screen take the cursor to a blank row. `screen` is what the Terminal
shows, `truth` what the server's output alone would have made of it; the module's
question is whether the two differ by the predictions, which stand over the
server's row from its cursor on, and by nothing else (`InSync`).

The step may be lost in these ways, and `SyncKept` says that there are no others;
leave any of them out and TLC finds the property violated:

* `GivesUp`: predictions are forgotten and left standing, by an editing key (boot
  67), by the alternate screen (boot 76) or by the shell of a second attempt over
  the same Terminal (boot 631);
* `GoesOn`: a chunk goes on after an echo while predictions wait (boot 87);
* `Misses`: predictions that fail are erased (boot 48), but reach the end of the
  server's row, where `\b` does not lead back far enough, or stand in the middle of
  a line, where erasing them blanks characters of the server.

The claim is about this Terminal: one width, characters one cell wide, a cursor
that never goes up, one line editor. A resize, wide characters and programs that
place the cursor freely outside the alternate screen are left out.

`io` is the page's `ioBound` and the Terminal that `onData` is bound to: input is
bound in the first session only, so that from the second on no key reaches the
shell (`InputReachesShell`, below) and the model only prints there.

### AuthWorker

`page[c]` is where a client is: asking `/tunnel`, waiting 750 ms, opening its
socket, or served or turned away. `names` are the two names in its tunnel
properties, which the worker's patterns accept or not. A pair is two `Ends`;
`sock` is the object's socket to an end, `inq` what that end sent and the object
has not handled, `out` what the object sent it. An end closes with a code that
`close()` takes, with one it does not, or is lost with messages still on the
way. The object's handlers close over their own pair; `_bridge` is modelled
because each client overwrites it, and the mutant of `ImplementsPipes` uses it.

`Pipes` is what is left for the two ends when queues, close codes and the object
are taken away: each receives the next message of the other, after it was sent
and before its own socket is closed. `InOrder` says less (nothing of sockets, nor
that a message was sent before it is received) and is only proved.

A close received is not answered by the runtime: the object's socket stays open
for sending until the object closes it, or the other side's end does.

## What TLC checks

| run | bounds | states | shows |
|---|---|---|---|
| `session` | 3 attempts, 1 automatic reconnect a minute, a minute of 2 ticks | 45 087 | all properties of `Session` |
| `session_shell` | 2 attempts | | `LiveHasShell` fails, see below |
| `session_keyboard` | 2 attempts | | `InputReachesShell` fails, see below |
| `transport` | none | 337 | `GoTransport` implements `Transport`; handshakes settle; ends are reported |
| `transport_drop` | none | | `HandshakeDropReported` fails, see below |
| `ports` | 2 ports, 3 calls | 4 540 | the port tracker |
| `bridge` | 2 readers, 4 bytes, reads of up to 2, chunks of 1 and 2, 4 writes | 14 560 | the bridge, and that it implements `ByteStream` |
| `codespace` | 8 tries, a start after more than 2 ticks, rounds of 1 or 2 ticks | 7 360 | `launch` and `poll` |
| `relay` | 2 direct tries, 3 through the worker | 838 | `openRelay` |
| `predict` | 2 keys, 3 columns, 3 keystrokes, 1 output, pauses of 1, 1 and 2 ticks | 654 510 | the predictions, and when they get out of step |
| `predict_resync` | 2 keys, 3 columns, 3 keystrokes, no output of programs | | `Resyncs` fails, see below |
| `worker` | 2 clients, 1 repeated poll, 2 messages | 183 641 | the worker and its relay object |

Why the bounds suffice. Three attempts with one reconnect allow: connect, drop,
reconnect, drop again, give up, click; and an old socket's event under two later
attempts. A minute of two ticks lets a stamp be young, half a minute old and
forgotten, before and after a click. Two waits on one port and one on the other allow a shared channel
list, a repeated `Add` and a stale channel. Four bytes in chunks of one and two,
read two at a time, split a chunk over reads and a read over chunks, with two
readers asleep at once. Eight tries leave room for three starts with bounces
between. The real numbers (3 reconnects, 90 tries, 3 and 6 sockets) only repeat
these cases, and the safety properties are proved for all of them. Three
keystrokes and one output put an output before, between and after pending
predictions, in chunks that end anywhere, also inside a prompt; an editing key or
an Enter may come between; three keystrokes fill a row of three columns, and wrap
behind an output; a key, an arrow and a key put a prediction in the middle of a
line. Every way of losing the step occurs. Two clients are the least that can overwrite each
other's `_bridge`, and two messages the least that can be put out of order.

Deadlock checking is off in `transport`, `relay`, `codespace`, `predict` and
`worker`: their components stop for good when they have settled, or when the
bounds on keystrokes, outputs or messages are used up.

### Fairness

* `Session`: an await of `connect` ends and a queued microtask runs. Nothing is
  assumed of clicks, of Go or of the network. `Codespace` and `Relay` show two of
  these awaits to end; `/tunnel` is polled at most 41 times and `loadGo` waits at
  most 200 times 10 ms.
* `GoTransport`: the deadline passes, a goroutine that can run does, a host that
  is reached answers. Nothing is assumed of the link.
* `PortTracker`: the select runs, the context's deadline passes.
* `Bridge`: a goroutine that reads keeps reading, as the SSH library does.
* `Codespace`, `Relay`: requests are answered or fail, timers and queued events
  run; nothing is assumed of GitHub or the network.
* `AuthWorker`: the same, of the polling loop and of the object's handlers;
  nothing is assumed of either end.
* `PredictEcho` has no liveness property, and no fairness.

### Where the code does something else than its comments say

* `InputReachesShell` (boot 632-638). `onData` is bound once, to the Terminal of
  the first session. Each `connect` disposes the Terminal and makes a new one, so
  after a reconnect the keyboard reaches nobody.
* `HandshakeDropReported` (boot 466-468, 498). A socket that closes during the Go
  handshake is ignored by `handleDisconnect`; `connect` has returned, so there is
  no error path to fall through to, and `run` waits for ever in a request without
  a context (`RefreshPorts`, or the SSH handshake of the shell).
* `LiveHasShell` (boot 466, 629). If the shell ends in the Go run that resolves
  the promise, `onClosed` comes before `.then`, is ignored, and is not repeated;
  `.then` then marks a dead shell as live.
* `Resyncs` (boot 41-42, 67). "Any non-printable key or a scan diverging from
  prediction resyncs to the server's truth": an editing key forgets the pending
  predictions without erasing them, and their echoes, when they come, are written
  a second time. `SyncKept` lists the ways in which the step is lost (see *PredictEcho*).

## What is proved

The theorems hold for every value of the constants: any number of attempts,
tries, ports, calls, readers, bytes. The assumptions are the named `ASSUME`s of
the modules: a bound is a number, most often a positive one, a row has a column; "none" is not among
the clients or ports; what is pushed are bytes; a key is not a control sequence;
no pause is longer than the one after a password prompt. TLC evaluates them in
the runs above.

* **Session** (`SessionProofs`). None of its invariants is inductive. `IInv`
  joins `TypeOK`; `Order`, which adds to `OneAttempt` that attempts not yet made
  have no state and that a transport exists only when its coroutine is over;
  `Adopted`, which is `LiveAdopted` and the part of `StatusHonest` that holds with
  overlap; `Alone`, which says that
  without overlap a handshake is the latest attempt's with no live session beside
  it, and an open shell the adopted one; `SpinnerHonest`; and `Recorded`, which
  says that the reconnects of the last minute are all on record. The order
  matters: each part is preserved with the help of those before it.
  `handleDisconnect` is called by two actions, so it has lemmas of its own, as has
  the start of an attempt. The rest of `StatusHonest`, `UndisturbedLive`, `SocketReleased` and `BudgetKept`
  follow from the invariant, and the action properties `DropIsCurrent`,
  `DropNoticed` and `ReconnectBudget` from the invariant and the step.
  `ReconnectBudget` rests on `RecentIsYoung`: with `Recorded`, the young stamps on
  record are exactly the reconnects of the last minute.
* **GoTransport** (`GoTransportProofs`). `TypeOK`, which ties the goroutines to
  the stages that start them, is inductive together with `ReportersExist`; with it
  every step maps to a step of `Transport` or a stutter. `calls` is 1 exactly when
  `closedOnce` is set, so that the second reporter of an end is a stutter. `Reported` adds what each
  end of a shell leaves behind, and gives `ToldTruly` (no false alarm: `onClosed`
  means that the shell is gone) and `Watched`, the safety in `ShellEndReported`:
  a shell whose end boot.js has not heard of has a monitor that waits for it.
* **PortTracker** (`PortTrackerProofs`). `TypeOK` says whose channel may be on a
  list; `ClosedOnce` needs in addition that calls not yet made are on none. Every
  step is one of `PortWait` (`KeepsPromise`). The one abstract guard the tracker
  does not look at is that of `Succeed`: a closed channel in hand means that the
  port was forwarded, which the invariant provides.
* **Bridge** (`BridgeProofs`). The invariant is the conjunction of the module's
  own; the refinement of `ByteStream` uses facts about concatenation and
  subsequences.
* **Relay** (`RelayProofs`). The tries are ordered; `Sequenced` says that a try
  begins only when all before it are over. `OneChain` follows. `NeverStuck` is the
  safety that `RelaySettles` rests on: as long as `connect` waits, a timer runs.
* **Codespace** (`CodespaceProofs`). `Counted` compares the samples that led to
  no start with the time since the last one; `NudgeRate` and `Patient` follow.
  `Paced` bounds the wait by its rounds on both sides, so that the bound on
  `elapsed` in `Sleep` is never in the way (`RoomLeft`): it is there for TLC alone.
* **PredictEcho** (`PredictEchoProofs`). `TypeOK` with `ScanBegins`, which says
  that the scan of a chunk starts only when there are a chunk and predictions, is
  inductive, and gives `PauseKept`: each pause that is set anew is no shorter than
  the one it replaces. For `SyncKept` every action either keeps `InSync` or
  `Strays`. `InSync` is preserved in its three parts: the cursor, the cells, and the
  rows, where `screen` may be some rows further than `truth`. Printing a prediction
  may take it one row further (`WriteGetsAhead`), confirming one brings `truth` one
  row nearer (`WriteCatchesUp`), and up to the last column both are in the same row
  (`SameRow`), which is why an erasure there leaves exactly `truth`
  (`ClearedIsTruth`). The comment of boot 41-42, which fails as it stands (`Resyncs`
  above), is proved of every behaviour that never strays (`PredictEchoInSync`).
* **AuthWorker** (`AuthWorkerProofs`). `InOrder` needs `Continues`: while the
  other socket is open, what waits to be handled goes on where what was passed on
  stops. `Paired` gives it its start, and `Admitted`, which says that a page past
  the worker's checks has well-formed names, gives `PageServed`. The refinement of
  `Pipes` takes `Causal` as well: what was received and what is queued was sent,
  also when a break has lost some of it, where `Continues` is silent. `PassedOn`
  is the safety in `EndsPassOn`: an end that has been handled has its other side
  closed, for good. `NothingCut` is what `Continues` says at that moment: the
  close of an end that did not break comes behind everything it sent.

Only model-checked: the liveness properties (`ConnectReturns`,
`HandshakeSettles`, `ShellEndReported`, `WaitReturns`, `AllDelivered`,
`RelaySettles`, `LaunchReturns`, `EndsPassOn`, `PollEnds`), since TLAPS does not
prove liveness under fairness. Only proved, because the runs check a property
that covers the same ground: `EndAfterData`, `CloseIsFinal` and `NoByteLost` of
`Bridge` (`ImplementsStream`, `AllDelivered`), `OkMeansForwarded` of `PortTracker`
(`KeepsPromise`), `InOrder` of `AuthWorker` (`ImplementsPipes`), `BudgetKept` of
`Session` (`TypeOK`, `ReconnectBudget`), `NeverStuck` of `Relay` (`RelaySettles`),
`ToldTruly` and `Watched` of `GoTransport` (`ShellEndReported`), `PassedOn` and
`NothingCut` of `AuthWorker` (`EndsPassOn`, `ImplementsPipes`).

## Not modelled

* `/gh-api` and `/port` of the worker: one request, one answer and no state, so
  that nothing can come in between. That `/port`'s status is ignored is a hazard
  of `main` 229; the wait that follows it is in `GoTransport`.
* The system line's colours, clock, version, RTT average and the search for the
  longest name that fits (boot 278-284): formatting that no other state depends
  on. What it claims of the connection is `Verb` of `Session`.
* The drawing of the console's steps and the interval that turns the spinner;
  the key-repeat filter; the choice of the renderer.
* `Close` of the tunnel client and of `chanConn`, which the program does not call
  or which only forward.
* The generated protobuf code, the page, the tests and the workflows, which have
  no behaviour of interest here.

## Plan

Done: `Transport`, `Session`, `GoTransport`, `PortTracker`, `Bridge`, `Codespace`,
`Relay`, `PredictEcho`, `AuthWorker` with their runs and proofs. What would be
worth adding, in this order:

1. `GoTransport` with `PortWait` for its two waits, composed with `PortTracker`.
2. The safety that the other liveness properties rest on, as `NeverStuck` is for
   `Relay`, `Watched` for `GoTransport` and `PassedOn` for `AuthWorker`: for every
   wait, who will end it.
3. `BootConsole`: the step, its interval and the Terminal it draws on.
4. `FitCodespace`: the binary search of boot 278-284, with a proof that it finds
   the longest prefix that fits.
