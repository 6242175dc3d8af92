------------------------------ MODULE Transport ------------------------------
(* What boot.js may rely on of ONE Go transport: the promise and the onClosed *)
(* callback of one call of spacehatchSSHConnect (main.go, connect).           *)
(*                                                                            *)
(*   promise = "idle"      the call has not been made                         *)
(*             "pending"   run() is working on the handshake                  *)
(*             "opened"    the shell is open; the promise is going to resolve *)
(*             "resolved"  boot.js has been given the shell                   *)
(*             "rejected"  run() returned an error                            *)
(*   told      = how often onClosed has been invoked                          *)
(*   reachable = the relay session goes on: the host can still be heard       *)
(*                                                                            *)
(* GoTransport implements the contract, stage by stage.  The Go steps of      *)
(* Session are these, and may happen there whenever they may happen here.     *)
EXTENDS Naturals

VARIABLES promise, told, reachable

tvars == <<promise, told, reachable>>

Phases == {"idle", "pending", "opened", "resolved", "rejected"}

Init == promise = "idle" /\ told = 0 /\ reachable = TRUE

\* The promise goes from one phase to another, which changes nothing else.
Becomes(from, to) ==
  promise = from /\ promise' = to /\ UNCHANGED <<told, reachable>>

\* boot.js calls spacehatchSSHConnect; the executor starts run() at once.
Call == Becomes("idle", "pending")

\* sshshell.Open was answered by the host: run() cannot fail any more.
Opened == reachable /\ Becomes("pending", "opened")

Resolve == Becomes("opened", "resolved")

Reject == Becomes("pending", "rejected")

\* onClosed is called at most once, and only for a shell that was opened.
Tell ==
  /\ promise \in {"opened", "resolved"}
  /\ told = 0 /\ told' = 1
  /\ UNCHANGED <<promise, reachable>>

\* The socket closes or the relay ends the session, and it stays so.
Lose == reachable /\ reachable' = FALSE /\ UNCHANGED <<promise, told>>

Next == Call \/ Opened \/ Resolve \/ Reject \/ Tell \/ Lose

Spec == Init /\ [][Next]_tvars
=============================================================================
