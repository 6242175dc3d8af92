---------------------------- MODULE CodespaceProofs ----------------------------
(* Theorems about Codespace, for every number of tries and every throttle.    *)
EXTENDS Codespace, TLAPS

USE TriesAssumption, NudgeAssumption, DelayAssumption

(* A launch that has not ended has a round left. *)
RoundLeft == pc \notin Ended => i < Tries

(* The stopped samples that led to no start each cost a tick, the latest one  *)
(* excepted while its pause is still to come.                                 *)
Counted ==
  /\ pc \in {"list", "create", "start", "poll", "nudge"} => unheeded <= since
  /\ pc = "sleep" => unheeded <= since + 1

(* The inductive invariant. *)
IInv == TypeOK /\ RoundLeft /\ NudgeRate /\ Patient /\ Counted

(* It holds at the start. *)
LEMMA InitInv == Init => IInv
BY DEF Init, IInv, TypeOK, RoundLeft, NudgeRate, Patient, Counted, Ended,
       LaunchStates

(* The codespace's own moves keep to its states. *)
LEMMA MoveType == ASSUME TypeOK, Move PROVE cs' \in CodespaceStates
BY DEF TypeOK, Move, Moves, CodespaceStates

(* A start that was due leaves room in the rate for one more. *)
LEMMA OneMoreNudge ==
  ASSUME TypeOK, NudgeRate, NudgeDue
  PROVE  (nudges + 1) * (NudgeAfter + 1) + 0 <= elapsed
<1> DEFINE K == NudgeAfter + 1
<1>1. K \in Nat /\ since >= K
  BY DEF TypeOK, NudgeDue
<1>2. nudges * K + since <= elapsed
  BY DEF NudgeRate
<1>3. (nudges + 1) * K = nudges * K + K /\ nudges * K \in Nat
  BY <1>1 DEF TypeOK
<1> HIDE DEF K
<1>4. (nudges + 1) * K + 0 <= elapsed
  BY <1>1, <1>2, <1>3 DEF TypeOK
<1>5. QED
  BY <1>4 DEF K

(* Every step keeps it, one step of the proof per action. *)
LEMMA StepInv == ASSUME IInv, [Next]_vars PROVE IInv'
<1> USE DEF IInv, pollVars
<1>1. CASE RequestFails
  BY <1>1 DEF RequestFails, TypeOK, RoundLeft, NudgeRate, Patient, Counted,
              Ended, LaunchStates
<1>2. CASE List
  BY <1>2 DEF List, TypeOK, RoundLeft, NudgeRate, Patient, Counted, Ended,
              LaunchStates
<1>3. CASE Create
  BY <1>3 DEF Create, TypeOK, RoundLeft, NudgeRate, Patient, Counted, Ended,
              LaunchStates, CodespaceStates
<1>4. CASE Start
  BY <1>4 DEF Start, Starts, TypeOK, RoundLeft, NudgeRate, Patient, Counted,
              Ended, LaunchStates, CodespaceStates
<1>5. CASE Poll
  <2>1. CASE UNCHANGED pollVars /\ pc' \in Ended /\ UNCHANGED cs
    BY <2>1 DEF TypeOK, RoundLeft, NudgeRate, Patient, Counted, Ended,
                LaunchStates
  <2>2. CASE /\ NudgeDue /\ pc = "poll" /\ pc' = "nudge" /\ since' = 0
             /\ nudges' = nudges + 1 /\ unheeded' = 0
             /\ UNCHANGED <<i, elapsed, cs>>
    <3>1. NudgeRate'
      BY <2>2, OneMoreNudge DEF NudgeRate
    <3>2. QED
      BY <2>2, <3>1 DEF TypeOK, RoundLeft, Patient, Counted, Ended, LaunchStates
  <2>3. CASE /\ ~NudgeDue /\ pc = "poll" /\ pc' = "sleep"
             /\ unheeded' = unheeded + 1
             /\ UNCHANGED <<i, since, elapsed, nudges, cs>>
    BY <2>3 DEF NudgeDue, TypeOK, RoundLeft, NudgeRate, Patient, Counted, Ended,
                LaunchStates
  <2>4. CASE /\ pc = "poll" /\ pc' = "sleep" /\ unheeded' = 0
             /\ UNCHANGED <<i, since, elapsed, nudges, cs>>
    BY <2>4 DEF TypeOK, RoundLeft, NudgeRate, Patient, Counted, Ended,
                LaunchStates
  <2>5. QED
    BY <1>5, <2>1, <2>2, <2>3, <2>4 DEF Poll, ResetClock, Ended
<1>6. CASE Nudge
  BY <1>6 DEF Nudge, Starts, TypeOK, RoundLeft, NudgeRate, Patient, Counted,
              Ended, LaunchStates, CodespaceStates
<1>7. CASE Sleep
  <2>1. PICK d \in 1..MaxDelay : elapsed' = elapsed + d /\ since' = since + d
    BY <1>7 DEF Sleep, ClockAdvances
  <2>2. NudgeRate'
    <3>1. nudges * (NudgeAfter + 1) \in Nat /\ nudges' = nudges
      BY <1>7 DEF Sleep, TypeOK
    <3>2. QED
      BY <2>1, <3>1 DEF NudgeRate, TypeOK
  <2>3. pc' \in {"threw", "poll"} /\ (pc' = "poll" => i + 1 < Tries)
    BY <1>7 DEF Sleep, OutOfTries, TypeOK
  <2>4. QED
    BY <1>7, <2>1, <2>2, <2>3
       DEF Sleep, TypeOK, RoundLeft, Patient, Counted, Ended, LaunchStates
<1>8. CASE Move
  BY <1>8, MoveType DEF Move, TypeOK, RoundLeft, NudgeRate, Patient, Counted
<1>9. CASE UNCHANGED vars
  BY <1>9 DEF vars, TypeOK, RoundLeft, NudgeRate, Patient, Counted
<1>10. QED
  BY <1>1, <1>2, <1>3, <1>4, <1>5, <1>6, <1>7, <1>8, <1>9 DEF Next, Launch

(* Every reachable state satisfies the inductive invariant. *)
THEOREM CodespaceInvariant == Spec => []IInv
<1>1. IInv /\ [Next]_vars => IInv'
  BY StepInv
<1>2. QED
  BY InitInv, <1>1, PTL DEF Spec

(* poll stays within its tries (boot.js:360). *)
THEOREM CodespaceTypeOK == Spec => []TypeOK
<1>1. IInv => TypeOK
  BY DEF IInv
<1>2. QED
  BY <1>1, CodespaceInvariant, PTL

(* The starts poll asks for are throttled over its whole wait (boot.js:365).  *)
THEOREM CodespaceNudgeRate == Spec => []NudgeRate
<1>1. IInv => NudgeRate
  BY DEF IInv
<1>2. QED
  BY <1>1, CodespaceInvariant, PTL

(* A codespace that fell back is started again in time (boot.js:347-352).     *)
THEOREM CodespacePatient == Spec => []Patient
<1>1. IInv => Patient
  BY DEF IInv
<1>2. QED
  BY <1>1, CodespaceInvariant, PTL

-----------------------------------------------------------------------------
(* The length of the wait *)

(* A round takes at least a tick and at most MaxDelay of them.                *)
Paced == i <= elapsed /\ elapsed <= i * MaxDelay

(* Whatever a round takes, the bound of Sleep leaves room for it.             *)
RoomLeft ==
  pc = "sleep" => \A d \in 1..MaxDelay : elapsed + d <= Tries * MaxDelay

LEMMA PacedStep == ASSUME IInv, Paced, [Next]_vars PROVE Paced'
<1> USE DEF IInv, TypeOK, Paced
<1>1. CASE Sleep
  <2>1. PICK d \in 1..MaxDelay : elapsed' = elapsed + d
    BY <1>1 DEF Sleep
  <2>2. i' = i + 1 /\ (i + 1) * MaxDelay = i * MaxDelay + MaxDelay
    BY <1>1 DEF Sleep
  <2>3. i * MaxDelay \in Nat
    OBVIOUS
  <2>4. QED
    BY <2>1, <2>2, <2>3
<1>2. CASE UNCHANGED <<i, elapsed>>
  BY <1>2
<1>3. ~Sleep => UNCHANGED <<i, elapsed>>
  BY DEF Next, Launch, RequestFails, List, Create, Start, Poll, Nudge, Move,
         pollVars, vars
<1>4. QED
  BY <1>1, <1>2, <1>3

(* The rounds of poll account for the whole wait, and the bound on the        *)
(* model's clock never keeps a launch from its next round (boot.js:355-371).  *)
THEOREM CodespaceRoomLeft == Spec => [](Paced /\ RoomLeft)
<1>1. Init => Paced
  BY DEF Init, Paced
<1>2. IInv /\ Paced /\ [Next]_vars => Paced'
  BY PacedStep
<1>3. IInv /\ Paced => RoomLeft
  <2> SUFFICES ASSUME IInv, Paced, pc = "sleep", NEW d \in 1..MaxDelay
               PROVE  elapsed + d <= Tries * MaxDelay
    BY DEF RoomLeft
  <2>1. i + 1 <= Tries /\ i \in Nat /\ elapsed \in Nat
    BY DEF IInv, TypeOK, RoundLeft, Ended
  <2>2. elapsed + d <= i * MaxDelay + MaxDelay
    BY <2>1 DEF Paced
  <2>3. i * MaxDelay + MaxDelay = (i + 1) * MaxDelay
    BY <2>1
  <2>4. (i + 1) * MaxDelay <= Tries * MaxDelay
    <3>1. PICK k \in Nat : Tries = (i + 1) + k
      <4>1. Tries - (i + 1) \in Nat /\ Tries = (i + 1) + (Tries - (i + 1))
        BY <2>1
      <4>2. QED
        BY <4>1
    <3>2. Tries * MaxDelay = (i + 1) * MaxDelay + k * MaxDelay /\ k * MaxDelay \in Nat
      BY <2>1, <3>1
    <3>3. (i + 1) * MaxDelay \in Nat
      BY <2>1
    <3>4. QED
      BY <3>2, <3>3
  <2>5. QED
    BY <2>1, <2>2, <2>3, <2>4
<1>4. QED
  BY <1>1, <1>2, <1>3, CodespaceInvariant, PTL DEF Spec
=============================================================================
