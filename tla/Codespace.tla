------------------------------- MODULE Codespace -------------------------------
(* launch() and poll() of boot.js (346-419) against the codespace at GitHub,  *)
(* which moves on its own between any two requests.  Every request is a step  *)
(* that samples the codespace or acts on it; what the page does next rests on *)
(* that sample.  Of the codespaces of the repository only the one launch()    *)
(* picks, the newest, is modelled.  Time is counted in ticks of poll's        *)
(* delayMs, 2 s.                                                              *)
EXTENDS Integers

CONSTANTS
  Tries,       \* poll's tries, 90 in boot.js
  NudgeAfter,  \* a start is repeated after more than this many ticks (15 s: 7)
  MaxDelay     \* bound: ticks one round of poll may take, slow requests included

ASSUME TriesAssumption == Tries \in Nat \ {0}
ASSUME NudgeAssumption == NudgeAfter \in Nat
ASSUME DelayAssumption == MaxDelay \in Nat \ {0}

VARIABLES
  cs,       \* the codespace at GitHub
  pc,       \* where launch() is
  i,        \* poll's loop counter
  since,    \* ticks since lastStartAt
  elapsed,  \* history: ticks since poll began
  nudges,   \* history: the starts poll has asked for
  unheeded  \* history: samples in a row that were stopped and led to no start

pollVars == <<i, since, elapsed, nudges, unheeded>>
vars == <<cs, pc, pollVars>>

(* "stopped" is CS_STOPPED, Shutdown and Unavailable; "coming" stands for     *)
(* Queued, Provisioning, Starting and the like; "dead" for Failed and Deleted.*)
CodespaceStates ==
  {"none", "coming", "Available", "ShuttingDown", "stopped", "dead"}

Ended == {"done", "threw"}
LaunchStates == {"list", "create", "start", "poll", "nudge", "sleep"} \union Ended

Init ==
  /\ cs \in CodespaceStates
  /\ pc = "list"
  /\ i = 0 /\ since = 0 /\ elapsed = 0 /\ nudges = 0 /\ unheeded = 0

-----------------------------------------------------------------------------
(* GitHub and its users: a codespace comes up, bounces, idles out, is deleted.*)
Moves ==
  [none |-> {}, coming |-> {"Available", "stopped", "dead"},
   Available |-> {"ShuttingDown", "dead"}, ShuttingDown |-> {"stopped", "dead"},
   stopped |-> {"coming", "dead"}, dead |-> {}]

Move ==
  /\ pc \notin Ended
  /\ cs' \in Moves[cs]
  /\ UNCHANGED <<pc, pollVars>>

\* POST /start reaches a codespace that can be started.
Starts == cs \in {"stopped", "ShuttingDown"} /\ cs' = "coming"

-----------------------------------------------------------------------------
(* launch() *)

(* gh() throws: the network, the token, a status that is not 2xx.             *)
RequestFails ==
  /\ pc \in {"list", "create", "start", "poll"}
  /\ pc' = "threw"
  /\ UNCHANGED <<cs, pollVars>>

(* The list of codespaces, newest first. *)
List ==
  /\ pc = "list"
  /\ pc' = CASE cs = "none" -> "create"
             [] cs \in {"stopped", "ShuttingDown"} -> "start"
             [] OTHER -> "poll"
  /\ UNCHANGED <<cs, pollVars>>

Create ==
  /\ pc = "create"
  /\ cs' = "coming" /\ pc' = "poll"
  /\ UNCHANGED pollVars

(* The explicit start; a 409 means that the codespace is on its way already.  *)
Start ==
  /\ pc = "start"
  /\ pc' = "poll"
  /\ Starts \/ UNCHANGED cs
  /\ UNCHANGED pollVars

-----------------------------------------------------------------------------
(* poll() *)

(* Mutant: the time of the last start is not taken. *)
KeepClock == since' = since

ResetClock == since' = 0

NudgeDue == since > NudgeAfter

(* One round: a sample of the codespace, and a look at it. *)
Poll ==
  /\ pc = "poll"
  /\ UNCHANGED cs
  /\ \/ cs = "Available" /\ pc' = "done" /\ UNCHANGED pollVars
     \/ cs = "dead" /\ pc' = "threw" /\ UNCHANGED pollVars
     \/ /\ cs = "stopped" /\ NudgeDue
        /\ pc' = "nudge"
        /\ ResetClock
        /\ nudges' = nudges + 1 /\ unheeded' = 0
        /\ UNCHANGED <<i, elapsed>>
     \/ /\ cs = "stopped" /\ ~NudgeDue
        /\ pc' = "sleep"
        /\ unheeded' = unheeded + 1
        /\ UNCHANGED <<i, since, elapsed, nudges>>
     \/ /\ cs \in {"coming", "ShuttingDown"}
        /\ pc' = "sleep"
        /\ unheeded' = 0
        /\ UNCHANGED <<i, since, elapsed, nudges>>

(* The fresh start poll asks for; its failure is swallowed. *)
Nudge ==
  /\ pc = "nudge"
  /\ pc' = "sleep"
  /\ Starts \/ UNCHANGED cs
  /\ UNCHANGED pollVars

(* Mutant: the clock is set back in every round, not only by a start. *)
ClockPerRound(d) == since' = d

ClockAdvances(d) == since' = since + d

(* Mutant: poll never gives up. *)
NeverOut(n) == FALSE

(* Mutant: one round more. *)
OneMoreRound(n) == n > Tries

OutOfTries(n) == n >= Tries

(* The pause between two rounds takes delayMs at least; the requests of the   *)
(* round add to it.  The bound on `elapsed` never stops a poll that counts.   *)
Sleep ==
  /\ pc = "sleep"
  /\ i' = i + 1
  /\ \E d \in 1..MaxDelay :
       /\ elapsed + d <= Tries * MaxDelay
       /\ elapsed' = elapsed + d
       /\ ClockAdvances(d)
  /\ pc' = IF OutOfTries(i + 1) THEN "threw" ELSE "poll"
  /\ UNCHANGED <<cs, nudges, unheeded>>

Launch == RequestFails \/ List \/ Create \/ Start \/ Poll \/ Nudge \/ Sleep

Next == Launch \/ Move

\* Requests are answered or fail, timers fire; nothing is assumed of GitHub.
Spec == Init /\ [][Next]_vars /\ WF_vars(Launch)

-----------------------------------------------------------------------------
(* Properties *)

(* Types; poll never does more rounds than it is given. *)
TypeOK ==
  /\ cs \in CodespaceStates /\ pc \in LaunchStates
  /\ i \in 0..Tries
  /\ since \in Nat /\ elapsed \in Nat /\ nudges \in Nat /\ unheeded \in Nat

(* poll asks for a start at most every NudgeAfter + 1 ticks, over the whole   *)
(* wait and however often the codespace bounces ("throttled", boot.js:351).   *)
NudgeRate == nudges * (NudgeAfter + 1) + since <= elapsed

(* A codespace that fell back is never just watched: it is not seen stopped   *)
(* more than NudgeAfter + 1 times in a row without being started again.       *)
Patient == unheeded <= NudgeAfter + 1

(* launch() always comes back, with a codespace that was up or with an error. *)
LaunchReturns == pc \notin Ended ~> pc \in Ended
=============================================================================
