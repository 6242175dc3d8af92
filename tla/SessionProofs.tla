---------------------------- MODULE SessionProofs ----------------------------
(* Theorems about Session, for every MaxGen, ReconnectLimit and Minute.       *)
EXTENDS Session, SequenceTheorems, FiniteSetTheorems, TLAPS

(* Attempts not yet made have no state; a Go transport belongs to an attempt  *)
(* whose coroutine is over.                                                   *)
AttemptsInOrder ==
  \A s \in Gens :
    /\ s > gen => pc[s] = "none" /\ ws[s] = "none" /\ go[s] = "idle"
    /\ go[s] # "idle" => pc[s] = "wired"

(* Without overlap every handshake and every open shell is the latest         *)
(* attempt's, and a shell is open only as the adopted one.                    *)
OneTransport ==
  ~overlapped =>
    \A s \in Gens :
      /\ Pending(s) => s = gen /\ ~live
      /\ go[s] = "opened" => ws[s] = "open"
      /\ go[s] = "up" /\ ws[s] = "open" => live /\ curShell = s

(* What UndisturbedLive says beyond the two conjuncts above. *)
LiveIsLatest ==
  ~overlapped /\ live =>
    /\ curShell = gen /\ ws[gen] = "open"
    /\ status \in {"connected", "refused"}

USE MaxGenAssumption, LimitAssumption, MinuteAssumption DEF StepStart

-----------------------------------------------------------------------------
(* Types.  The five parts of TypeOK are proved one by one: the provers cope   *)
(* badly with Booleans, numbers and functions in one goal.                    *)

LEMMA TypeInit == Init => TypeOK
<1> USE DEF Init, Gens, None
<1>1. Init => TypeUi
  BY DEF TypeUi, Statuses
<1>2. Init => TypeFlags
  BY DEF TypeFlags
<1>3. Init => TypeNumbers
  BY DEF TypeNumbers
<1>4. Init => TypeAttempts
  BY DEF TypeAttempts, PcStates, WsStates, GoStates
<1>5. Init => TypeBudget
  BY FS_EmptySet DEF TypeBudget
<1>6. QED
  BY <1>1, <1>2, <1>3, <1>4, <1>5 DEF TypeOK

-----------------------------------------------------------------------------
(* The reconnect budget *)

LEMMA YoungFinite ==
  ASSUME TypeBudget
  PROVE  /\ IsFiniteSet(reconnects) /\ IsFiniteSet(Young)
         /\ Cardinality(Young) \in Nat
         /\ Cardinality(Young) <= Cardinality(reconnects)
<1>1. reconnects \in SUBSET (1..Len(ages)) /\ Len(ages) \in Nat
  BY DEF TypeBudget
<1>2. IsFiniteSet(reconnects)
  <2>1. IsFiniteSet(1..Len(ages))
    BY <1>1, FS_Interval
  <2>2. QED
    BY <1>1, <2>1, FS_Subset
<1>3. Young \in SUBSET reconnects
  BY DEF Young
<1>4. QED
  BY <1>2, <1>3, FS_Subset, FS_CardinalityType

(* A reconnect that is allowed keeps the record within its limit. *)
LEMMA StampBudget ==
  ASSUME TypeBudget, MayReconnect, Stamp
  PROVE  TypeBudget'
<1>1. ages' \in Seq(0..Minute) /\ DOMAIN ages' = 1..Len(ages) + 1
  BY DEF TypeBudget, Stamp
<1>2. reconnects' \subseteq DOMAIN ages'
  BY <1>1 DEF TypeBudget, Stamp, Young
<1>3. Len(ages) + 1 \notin Young
  BY DEF TypeBudget, Young
<1>4. Cardinality(reconnects') = Cardinality(Young) + 1
  BY <1>3, YoungFinite, FS_AddElement DEF Stamp
<1>5. Cardinality(reconnects') <= ReconnectLimit
  BY <1>4, YoungFinite DEF MayReconnect
<1>6. QED
  BY <1>1, <1>2, <1>5 DEF TypeBudget

LEMMA TickBudget ==
  ASSUME TypeBudget, Tick
  PROVE  TypeBudget' /\ DOMAIN ages' = DOMAIN ages
<1>1. ages' \in [1..Len(ages) -> 0..Minute] /\ Len(ages) \in Nat
  BY DEF TypeBudget, Tick
<1>2. ages' \in Seq(0..Minute) /\ DOMAIN ages' = DOMAIN ages
  BY <1>1, IsASeq DEF TypeBudget
<1>3. QED
  BY <1>2 DEF TypeBudget, Tick

(* handleDisconnect keeps it, too, whether it reconnects or gives up. *)
LEMMA HandleDisconnectBudget ==
  ASSUME TypeBudget, NEW s \in Gens, NEW w, HandleDisconnect(s, w)
  PROVE  TypeBudget'
<1>1. CASE UNCHANGED budgetVars
  BY <1>1 DEF budgetVars, TypeBudget
<1>2. CASE MayReconnect /\ Stamp
  BY <1>2, StampBudget
<1>3. CASE reconnects' = Young /\ UNCHANGED ages
  <2>1. Young \subseteq reconnects
    BY DEF Young
  <2>2. QED
    BY <1>3, <2>1, YoungFinite, FS_CardinalityType DEF TypeBudget
<1>4. QED
  BY <1>1, <1>2, <1>3 DEF HandleDisconnect

-----------------------------------------------------------------------------

(* The synchronous prefix of connect() keeps the types of what it writes. *)
LEMMA ConnectBodyType ==
  ASSUME TypeOK, ConnectBody
  PROVE  /\ gen' \in 0..MaxGen /\ connecting' \in BOOLEAN
         /\ pc' \in [Gens -> PcStates]
         /\ status' \in Statuses /\ spin' \in 0..MaxGen
<1> USE DEF TypeOK, TypeUi, TypeNumbers, Gens, Statuses
<1>1. gen' \in 0..MaxGen
  BY DEF ConnectBody, StartAttempt, RefuseAttempt, attemptVars
<1>2. connecting' \in BOOLEAN
  BY DEF ConnectBody, StartAttempt, RefuseAttempt, attemptVars, TypeFlags
<1>3. pc' \in [Gens -> PcStates]
  BY DEF ConnectBody, StartAttempt, RefuseAttempt, attemptVars, TypeAttempts,
         PcStates, Phases
<1>4. status' \in Statuses
  BY DEF ConnectBody, StartAttempt, RefuseAttempt
<1>5. spin' \in 0..MaxGen
  BY DEF ConnectBody, StartAttempt, RefuseAttempt
<1>6. QED
  BY <1>1, <1>2, <1>3, <1>4, <1>5

(* So does handleDisconnect. *)
LEMMA HandleDisconnectType ==
  ASSUME TypeOK, NEW s \in Gens, NEW w \in [Gens -> WsStates],
         HandleDisconnect(s, w)
  PROVE  /\ live' \in BOOLEAN /\ curShell' \in 0..MaxGen
         /\ curWs' \in 0..MaxGen
         /\ gen' \in 0..MaxGen /\ connecting' \in BOOLEAN
         /\ pc' \in [Gens -> PcStates]
         /\ status' \in Statuses /\ spin' \in 0..MaxGen
         /\ ws' \in [Gens -> WsStates]
<1>1. CASE ~Heeded(s)
  BY <1>1 DEF HandleDisconnect, curVars, attemptVars, TypeOK, TypeUi, TypeFlags,
              TypeNumbers, TypeAttempts
<1>2. CASE Heeded(s)
  <2>1. /\ ws' = Detach(w)
        /\ live' = FALSE /\ curShell' = None /\ curWs' = None
    BY <1>2 DEF HandleDisconnect
  <2>2. Detach(w) \in [Gens -> WsStates]
    BY DEF Detach, WsStates
  <2>3. ConnectBody \/ (ReportLost /\ UNCHANGED <<attemptVars, spin>>)
    BY <1>2 DEF HandleDisconnect
  <2>4. /\ gen' \in 0..MaxGen /\ connecting' \in BOOLEAN
        /\ pc' \in [Gens -> PcStates]
        /\ status' \in Statuses /\ spin' \in 0..MaxGen
    <3>1. CASE ConnectBody
      BY <3>1, ConnectBodyType
    <3>2. CASE ReportLost /\ UNCHANGED <<attemptVars, spin>>
      BY <3>2 DEF ReportLost, attemptVars, TypeOK, TypeUi, TypeFlags,
                  TypeNumbers, TypeAttempts, Statuses
    <3>3. QED
      BY <2>3, <3>1, <3>2
  <2>5. live' \in BOOLEAN
    BY <2>1
  <2>6. curShell' \in 0..MaxGen /\ curWs' \in 0..MaxGen
    BY <2>1 DEF None
  <2>7. ws' \in [Gens -> WsStates]
    BY <2>1, <2>2
  <2>8. QED
    BY <2>4, <2>5, <2>6, <2>7
<1>3. QED
  BY <1>1, <1>2

(* Every step keeps the types. *)
LEMMA TypeStep ==
  ASSUME TypeOK, [Next]_vars
  PROVE  TypeOK'
<1> USE DEF TypeOK, Gens, None, uiVars, curVars, attemptVars, transportVars, budgetVars
<1>1. CASE Click
  <2>1. ConnectBody /\ UNCHANGED <<curVars, transportVars, budgetVars, ioTerm, wasm>>
    BY <1>1 DEF Click, ConnectBody
  <2>2. overlapped' \in BOOLEAN
    BY <1>1 DEF Click, TypeFlags
  <2>3. QED
    BY <2>1, <2>2, ConnectBodyType
       DEF TypeUi, TypeFlags, TypeNumbers, TypeAttempts, TypeBudget
<1>2. ASSUME NEW s \in Gens, Advance(s) PROVE TypeOK'
  <2> USE <1>2 DEF Advance, NextPhase
  <2>1. TypeUi' BY DEF TypeUi, TypeNumbers, Statuses
  <2>2. TypeFlags' BY DEF TypeFlags
  <2>3. TypeNumbers' BY DEF TypeNumbers
  <2>4. TypeAttempts' BY DEF TypeAttempts, PcStates, WsStates, GoStates, Phases
  <2>5. TypeBudget' BY DEF TypeBudget
  <2>6. QED BY <2>1, <2>2, <2>3, <2>4, <2>5
<1>3. ASSUME NEW s \in Gens, LoadTransport(s) PROVE TypeOK'
  <2> USE <1>3 DEF LoadTransport
  <2>1. TypeUi' BY DEF TypeUi, TypeNumbers, Statuses
  <2>2. TypeFlags' BY DEF TypeFlags
  <2>3. TypeNumbers' BY DEF TypeNumbers
  <2>4. TypeAttempts' BY DEF TypeAttempts, PcStates, WsStates, GoStates, Phases
  <2>5. TypeBudget' BY DEF TypeBudget
  <2>6. QED BY <2>1, <2>2, <2>3, <2>4, <2>5
<1>4. ASSUME NEW s \in Gens, OpenRelay(s) PROVE TypeOK'
  <2> USE <1>4 DEF OpenRelay, Finally
  <2>1. TypeUi' BY DEF TypeUi, TypeNumbers, Statuses
  <2>2. TypeFlags' BY DEF TypeFlags
  <2>3. TypeNumbers' BY DEF TypeNumbers
  <2>4. TypeAttempts' BY DEF TypeAttempts, PcStates, WsStates, GoStates, Phases
  <2>5. TypeBudget' BY DEF TypeBudget
  <2>6. QED BY <2>1, <2>2, <2>3, <2>4, <2>5
<1>5. ASSUME NEW s \in Gens, Abort(s) PROVE TypeOK'
  <2> USE <1>5 DEF Abort, Finally, StepEnds
  <2>1. TypeUi' BY DEF TypeUi, TypeNumbers, Statuses
  <2>2. TypeFlags' BY DEF TypeFlags
  <2>3. TypeNumbers' BY DEF TypeNumbers
  <2>4. TypeAttempts' BY DEF TypeAttempts, PcStates, WsStates, GoStates, Phases
  <2>5. TypeBudget' BY DEF TypeBudget
  <2>6. QED BY <2>1, <2>2, <2>3, <2>4, <2>5
<1>6. ASSUME NEW s \in Gens, GoStatus(s) PROVE TypeOK'
  <2> USE <1>6 DEF GoStatus
  <2>1. TypeUi' BY DEF TypeUi, TypeNumbers, Statuses
  <2>2. TypeFlags' BY DEF TypeFlags
  <2>3. TypeNumbers' BY DEF TypeNumbers
  <2>4. TypeAttempts' BY DEF TypeAttempts, PcStates, WsStates, GoStates, Phases
  <2>5. TypeBudget' BY DEF TypeBudget
  <2>6. QED BY <2>1, <2>2, <2>3, <2>4, <2>5
<1>7. ASSUME NEW s \in Gens, GoOpened(s) PROVE TypeOK'
  <2> USE <1>7 DEF GoOpened, StepEnds
  <2>1. TypeUi' BY DEF TypeUi, TypeNumbers, Statuses
  <2>2. TypeFlags' BY DEF TypeFlags
  <2>3. TypeNumbers' BY DEF TypeNumbers
  <2>4. TypeAttempts' BY DEF TypeAttempts, PcStates, WsStates, GoStates, Phases
  <2>5. TypeBudget' BY DEF TypeBudget
  <2>6. QED BY <2>1, <2>2, <2>3, <2>4, <2>5
<1>8. ASSUME NEW s \in Gens, GoReject(s) PROVE TypeOK'
  <2> USE <1>8 DEF GoReject
  <2>1. TypeUi' BY DEF TypeUi, TypeNumbers, Statuses
  <2>2. TypeFlags' BY DEF TypeFlags
  <2>3. TypeNumbers' BY DEF TypeNumbers
  <2>4. TypeAttempts' BY DEF TypeAttempts, PcStates, WsStates, GoStates, Phases
  <2>5. TypeBudget' BY DEF TypeBudget
  <2>6. QED BY <2>1, <2>2, <2>3, <2>4, <2>5
<1>9. ASSUME NEW s \in Gens, Then(s) PROVE TypeOK'
  <2> USE <1>9 DEF Then, Adopt, StepEnds
  <2>1. TypeUi' BY DEF TypeUi, TypeNumbers, Statuses
  <2>2. TypeFlags' BY DEF TypeFlags
  <2>3. TypeNumbers' BY DEF TypeNumbers
  <2>4. TypeAttempts' BY DEF TypeAttempts, PcStates, WsStates, GoStates, Phases
  <2>5. TypeBudget' BY DEF TypeBudget
  <2>6. QED BY <2>1, <2>2, <2>3, <2>4, <2>5
<1>10. ASSUME NEW s \in Gens, Catch(s) PROVE TypeOK'
  <2> USE <1>10 DEF Catch, StepEnds
  <2>1. TypeUi' BY DEF TypeUi, TypeNumbers, Statuses
  <2>2. TypeFlags' BY DEF TypeFlags
  <2>3. TypeNumbers' BY DEF TypeNumbers
  <2>4. TypeAttempts' BY DEF TypeAttempts, PcStates, WsStates, GoStates, Phases
  <2>5. TypeBudget' BY DEF TypeBudget
  <2>6. QED BY <2>1, <2>2, <2>3, <2>4, <2>5
<1>11. ASSUME NEW s \in Gens, TransportEnd(s) PROVE TypeOK'
  <2>1. /\ HandleDisconnect(s, ws)
        /\ UNCHANGED <<go, ioTerm, wasm, overlapped>>
        /\ told' = [told EXCEPT ![s] = TRUE]
    BY <1>11 DEF TransportEnd
  <2>2. told' \in [Gens -> BOOLEAN]
    BY <2>1 DEF TypeAttempts
  <2>3. ws \in [Gens -> WsStates]
    BY DEF TypeAttempts
  <2>4. QED
    BY <1>11, <2>1, <2>2, <2>3, HandleDisconnectType, HandleDisconnectBudget
       DEF TypeUi, TypeFlags, TypeNumbers, TypeAttempts
<1>12. ASSUME NEW s \in Gens, WsClose(s) PROVE TypeOK'
  <2> DEFINE w == [ws EXCEPT ![s] = "closed"]
  <2>1. /\ HandleDisconnect(s, w)
        /\ UNCHANGED <<go, told, ioTerm, wasm, overlapped>>
    BY <1>12 DEF WsClose
  <2>2. w \in [Gens -> WsStates]
    BY DEF TypeAttempts, WsStates
  <2> HIDE DEF w
  <2>3. QED
    BY <1>12, <2>1, <2>2, HandleDisconnectType, HandleDisconnectBudget
       DEF TypeUi, TypeFlags, TypeNumbers, TypeAttempts
<1>13. CASE UNCHANGED vars
  BY <1>13 DEF vars, TypeUi, TypeFlags, TypeNumbers, TypeAttempts, TypeBudget
<1>14. CASE Tick
  BY <1>14, TickBudget DEF Tick, TypeUi, TypeFlags, TypeNumbers, TypeAttempts
<1>15. QED
  BY <1>1, <1>2, <1>3, <1>4, <1>5, <1>6, <1>7, <1>8, <1>9, <1>10, <1>11, <1>12, <1>13,
     <1>14 DEF Next, ConnectStep, Microtask, GoStep

-----------------------------------------------------------------------------
(* The coroutine: at most one attempt is between its awaits. *)

(* What handleDisconnect can do: ignore the event, or drop the session and    *)
(* then start an attempt or not.                                              *)
LEMMA HandleDisconnectCases ==
  ASSUME NEW s \in Gens, NEW w, HandleDisconnect(s, w)
  PROVE  \/ /\ ~Heeded(s) /\ ws' = w
            /\ UNCHANGED <<curVars, attemptVars, budgetVars, status, spin>>
         \/ /\ Heeded(s) /\ ws' = Detach(w)
            /\ live' = FALSE /\ curShell' = None /\ curWs' = None
            /\ \/ StartAttempt
               \/ /\ status' \in {"refused", "disconnected"}
                  /\ UNCHANGED <<attemptVars, spin>>
BY DEF HandleDisconnect, ConnectBody, RefuseAttempt, ReportLost

Order == OneAttempt /\ AttemptsInOrder

LEMMA OrderInit == Init => Order
BY DEF Init, Order, OneAttempt, AttemptsInOrder, Phases, Gens

(* A new attempt begins when none is running. *)
LEMMA StartAttemptOrder ==
  ASSUME TypeOK, Order, ~connecting, StartAttempt, go' = go,
         \A s \in Gens : s > gen => ws'[s] = ws[s]
  PROVE  Order'
<1> USE DEF Order, StartAttempt, TypeOK, TypeNumbers, TypeAttempts, Gens
<1>1. gen + 1 \in Gens /\ gen' = gen + 1
  OBVIOUS
<1>2. OneAttempt'
  BY <1>1 DEF OneAttempt, Phases
<1>3. AttemptsInOrder'
  BY <1>1 DEF AttemptsInOrder
<1>4. QED
  BY <1>2, <1>3

(* handleDisconnect keeps the order, if it is called for a socket event of an *)
(* attempt already made.                                                      *)
LEMMA HandleDisconnectOrder ==
  ASSUME TypeOK, Order, LiveAdopted, NEW s \in Gens, NEW w \in [Gens -> WsStates],
         HandleDisconnect(s, w), go' = go,
         \A t \in Gens : t > gen => w[t] = ws[t]
  PROVE  Order'
<1>1. CASE UNCHANGED attemptVars /\ ws' = w
  BY <1>1 DEF Order, OneAttempt, AttemptsInOrder, attemptVars
<1>2. CASE Heeded(s) /\ ws' = Detach(w)
  <2>1. \A t \in Gens : t > gen => ws'[t] = ws[t]
    BY <1>2 DEF Detach, LiveAdopted, Order, AttemptsInOrder, Heeded, None
  <2>2. CASE StartAttempt
    BY <1>2, <2>1, <2>2, StartAttemptOrder DEF Heeded
  <2>3. CASE UNCHANGED attemptVars
    BY <2>1, <2>3 DEF Order, OneAttempt, AttemptsInOrder, attemptVars
  <2>4. QED
    BY <1>2, <2>2, <2>3, HandleDisconnectCases
<1>3. QED
  BY <1>1, <1>2, HandleDisconnectCases

LEMMA OrderStep ==
  ASSUME TypeOK, Order, LiveAdopted, [Next]_vars
  PROVE  Order'
<1> USE DEF Order, Gens, uiVars, curVars, attemptVars, transportVars
<1>1. CASE Click
  <2>1. CASE StartAttempt
    BY <1>1, <2>1, StartAttemptOrder DEF Click, Reentrant
  <2>2. CASE RefuseAttempt
    BY <1>1, <2>2 DEF Click, RefuseAttempt, OneAttempt, AttemptsInOrder
  <2>3. QED
    BY <1>1, <2>1, <2>2 DEF Click
<1>2. ASSUME NEW s \in Gens, Advance(s) PROVE Order'
  <2> USE <1>2 DEF Advance, NextPhase, TypeOK, TypeNumbers, TypeAttempts, Phases
  <2>1. OneAttempt' BY DEF OneAttempt, AttemptsInOrder
  <2>2. AttemptsInOrder' BY DEF OneAttempt, AttemptsInOrder
  <2>3. QED BY <2>1, <2>2
<1>3. ASSUME NEW s \in Gens, LoadTransport(s) PROVE Order'
  <2> USE <1>3 DEF LoadTransport, TypeOK, TypeNumbers, TypeAttempts, Phases
  <2>1. OneAttempt' BY DEF OneAttempt, AttemptsInOrder
  <2>2. AttemptsInOrder' BY DEF OneAttempt, AttemptsInOrder
  <2>3. QED BY <2>1, <2>2
<1>4. ASSUME NEW s \in Gens, OpenRelay(s) PROVE Order'
  <2> USE <1>4 DEF OpenRelay, Finally, TypeOK, TypeNumbers, TypeAttempts, Phases
  <2>1. OneAttempt' BY DEF OneAttempt, AttemptsInOrder
  <2>2. AttemptsInOrder' BY DEF OneAttempt, AttemptsInOrder
  <2>3. QED BY <2>1, <2>2
<1>5. ASSUME NEW s \in Gens, Abort(s) PROVE Order'
  <2> USE <1>5 DEF Abort, Finally, StepEnds, TypeOK, TypeNumbers, TypeAttempts, Phases
  <2>1. OneAttempt' BY DEF OneAttempt, AttemptsInOrder
  <2>2. AttemptsInOrder' BY DEF OneAttempt, AttemptsInOrder
  <2>3. QED BY <2>1, <2>2
<1>6. ASSUME NEW s \in Gens, GoStatus(s) PROVE Order'
  <2> USE <1>6 DEF GoStatus, TypeOK, TypeNumbers, TypeAttempts, Phases
  <2>1. OneAttempt' BY DEF OneAttempt, AttemptsInOrder
  <2>2. AttemptsInOrder' BY DEF OneAttempt, AttemptsInOrder
  <2>3. QED BY <2>1, <2>2
<1>7. ASSUME NEW s \in Gens, GoOpened(s) PROVE Order'
  <2> USE <1>7 DEF GoOpened, StepEnds, TypeOK, TypeNumbers, TypeAttempts, Phases
  <2>1. OneAttempt' BY DEF OneAttempt, AttemptsInOrder
  <2>2. AttemptsInOrder' BY DEF OneAttempt, AttemptsInOrder
  <2>3. QED BY <2>1, <2>2
<1>8. ASSUME NEW s \in Gens, GoReject(s) PROVE Order'
  <2> USE <1>8 DEF GoReject, TypeOK, TypeNumbers, TypeAttempts, Phases
  <2>1. OneAttempt' BY DEF OneAttempt, AttemptsInOrder
  <2>2. AttemptsInOrder' BY DEF OneAttempt, AttemptsInOrder
  <2>3. QED BY <2>1, <2>2
<1>9. ASSUME NEW s \in Gens, Then(s) PROVE Order'
  <2> USE <1>9 DEF Then, Adopt, StepEnds, TypeOK, TypeNumbers, TypeAttempts, Phases
  <2>1. OneAttempt' BY DEF OneAttempt, AttemptsInOrder
  <2>2. AttemptsInOrder' BY DEF OneAttempt, AttemptsInOrder
  <2>3. QED BY <2>1, <2>2
<1>10. ASSUME NEW s \in Gens, Catch(s) PROVE Order'
  <2> USE <1>10 DEF Catch, StepEnds, TypeOK, TypeNumbers, TypeAttempts, Phases
  <2>1. OneAttempt' BY DEF OneAttempt, AttemptsInOrder
  <2>2. AttemptsInOrder' BY DEF OneAttempt, AttemptsInOrder
  <2>3. QED BY <2>1, <2>2
<1>11. ASSUME NEW s \in Gens, TransportEnd(s) PROVE Order'
  BY <1>11, HandleDisconnectOrder DEF TransportEnd, TypeOK, TypeAttempts
<1>12. ASSUME NEW s \in Gens, WsClose(s) PROVE Order'
  <2> DEFINE w == [ws EXCEPT ![s] = "closed"]
  <2>1. w \in [Gens -> WsStates]
    BY DEF TypeOK, TypeAttempts, WsStates
  <2>2. \A t \in Gens : t > gen => w[t] = ws[t]
    BY <1>12 DEF WsClose, AttemptsInOrder, TypeOK, TypeAttempts
  <2>3. HandleDisconnect(s, w) /\ go' = go
    BY <1>12 DEF WsClose
  <2> HIDE DEF w
  <2>4. QED
    BY <2>1, <2>2, <2>3, HandleDisconnectOrder
<1>13. CASE UNCHANGED vars
  BY <1>13 DEF vars, OneAttempt, AttemptsInOrder
<1>14. CASE Tick
  BY <1>14 DEF Tick, OneAttempt, AttemptsInOrder
<1>15. QED
  BY <1>1, <1>2, <1>3, <1>4, <1>5, <1>6, <1>7, <1>8, <1>9, <1>10, <1>11, <1>12, <1>13, <1>14
     DEF Next, ConnectStep, Microtask, GoStep

-----------------------------------------------------------------------------
(* The adopted transport *)

(* What StatusHonest says of `live`; its last conjunct then follows from      *)
(* LiveIsLatest.                                                              *)
StatusAgrees ==
  /\ Verb = "connected" => live
  /\ Verb = "disconnected" => ~live

Adopted == LiveAdopted /\ StatusAgrees

LEMMA AdoptedInit == Init => Adopted
BY DEF Init, Adopted, LiveAdopted, StatusAgrees, Verb

LEMMA HandleDisconnectAdopted ==
  ASSUME TypeOK, Adopted, NEW s \in Gens, NEW w, HandleDisconnect(s, w),
         go' = go
  PROVE  Adopted'
<1>1. CASE UNCHANGED <<curVars, status>>
  BY <1>1 DEF Adopted, LiveAdopted, StatusAgrees, Verb, curVars
<1>2. CASE live' = FALSE /\ curShell' = None /\ curWs' = None
  <2>1. status' # "connected"
    BY <1>2, HandleDisconnectCases
       DEF StartAttempt, Adopted, StatusAgrees, Verb, Heeded, curVars
  <2>2. QED
    BY <1>2, <2>1 DEF Adopted, LiveAdopted, StatusAgrees, Verb
<1>3. QED
  BY <1>1, <1>2, HandleDisconnectCases

LEMMA AdoptedStep ==
  ASSUME TypeOK, Order, Adopted, [Next]_vars
  PROVE  Adopted'
<1> USE DEF Adopted, LiveAdopted, StatusAgrees, Verb, TypeOK, TypeFlags,
            TypeNumbers, TypeAttempts, uiVars, curVars, attemptVars, transportVars
<1>1. CASE Click
  BY <1>1 DEF Click, StartAttempt, RefuseAttempt
<1>2. ASSUME NEW s \in Gens, Advance(s) PROVE Adopted'
  BY <1>2 DEF Advance, NextPhase
<1>3. ASSUME NEW s \in Gens, LoadTransport(s) PROVE Adopted'
  BY <1>3 DEF LoadTransport
<1>4. ASSUME NEW s \in Gens, OpenRelay(s) PROVE Adopted'
  BY <1>4 DEF OpenRelay, Finally, Order, AttemptsInOrder, Gens, None
<1>5. ASSUME NEW s \in Gens, Abort(s) PROVE Adopted'
  BY <1>5 DEF Abort, Finally, StepEnds
<1>6. ASSUME NEW s \in Gens, GoStatus(s) PROVE Adopted'
  BY <1>6 DEF GoStatus
<1>7. ASSUME NEW s \in Gens, GoOpened(s) PROVE Adopted'
  BY <1>7 DEF GoOpened, StepEnds, Gens, None
<1>8. ASSUME NEW s \in Gens, GoReject(s) PROVE Adopted'
  BY <1>8 DEF GoReject, Gens, None
<1>9. ASSUME NEW s \in Gens, Then(s) PROVE Adopted'
  BY <1>9 DEF Then, Adopt, StepEnds, Gens, None
<1>10. ASSUME NEW s \in Gens, Catch(s) PROVE Adopted'
  BY <1>10 DEF Catch, StepEnds, Gens, None
<1>11. ASSUME NEW s \in Gens, TransportEnd(s) PROVE Adopted'
  BY <1>11, HandleDisconnectAdopted DEF TransportEnd
<1>12. ASSUME NEW s \in Gens, WsClose(s) PROVE Adopted'
  BY <1>12, HandleDisconnectAdopted DEF WsClose
<1>13. CASE UNCHANGED vars
  BY <1>13 DEF vars
<1>14. CASE Tick
  BY <1>14 DEF Tick
<1>15. QED
  BY <1>1, <1>2, <1>3, <1>4, <1>5, <1>6, <1>7, <1>8, <1>9, <1>10, <1>11, <1>12, <1>13, <1>14
     DEF Next, ConnectStep, Microtask, GoStep

-----------------------------------------------------------------------------
(* Without overlap the latest attempt is alone *)

Alone == OneTransport /\ LiveIsLatest

LEMMA AloneInit == Init => Alone
BY DEF Init, Alone, OneTransport, LiveIsLatest, Pending

(* A new attempt finds neither a live session nor a handshake, and no open    *)
(* shell with its socket open.                                                *)
LEMMA StartAttemptAlone ==
  ASSUME TypeOK, Order, StartAttempt, live' = FALSE, go' = go,
         ~overlapped' =>
           \A s \in Gens : /\ ~Pending(s)
                          /\ ~(go[s] = "up" /\ ws'[s] = "open")
  PROVE  Alone'
<1> USE DEF StartAttempt, Gens, Pending
<1>1. OneTransport'
  BY DEF OneTransport
<1>2. LiveIsLatest'
  BY DEF LiveIsLatest
<1>3. QED
  BY <1>1, <1>2 DEF Alone

(* While a coroutine runs there is neither a live session nor a handshake. *)
LEMMA AttemptIsAlone ==
  ASSUME TypeOK, Order, Adopted, Alone, ~overlapped,
         NEW s \in Gens, pc[s] \in Phases
  PROVE  ~live /\ \A t \in Gens : ~Pending(t)
<1>1. s = gen /\ pc[gen] # "wired"
  BY DEF Order, OneAttempt, Phases
<1>2. go[gen] = "idle"
  BY <1>1 DEF Order, AttemptsInOrder
<1>3. ~live
  BY <1>2 DEF Alone, LiveIsLatest, Adopted, LiveAdopted
<1>4. QED
  BY <1>1, <1>2, <1>3 DEF Alone, OneTransport, Pending

(* An ignored event closes at most one socket of a transport that is not      *)
(* settling; a heeded one leaves no shell open.                               *)
LEMMA HandleDisconnectAlone ==
  ASSUME TypeOK, Order, Adopted, Alone, NEW s \in Gens,
         NEW w \in [Gens -> WsStates], HandleDisconnect(s, w),
         go' = go, overlapped' = overlapped,
         \A t \in Gens : w[t] = ws[t] \/ (t = s /\ w[t] # "open"),
         w[s] # ws[s] => Quiet
  PROVE  Alone'
<1>1. CASE ~Heeded(s) /\ ws' = w /\ UNCHANGED <<curVars, attemptVars, status>>
  <2> USE <1>1 DEF curVars, attemptVars, Alone, Pending, Settling, Quiet, Gens
  <2>1. OneTransport'
    BY DEF OneTransport
  <2>2. ASSUME ~overlapped, live PROVE s # gen /\ gen \in Gens
    <3>1. gen \in Gens
      BY <2>2 DEF LiveIsLatest, Adopted, LiveAdopted, TypeOK, TypeNumbers, None
    <3>2. ~connecting
      BY <2>2, <3>1, AttemptIsAlone DEF Order, OneAttempt, Alone
    <3>3. QED
      BY <2>2, <3>1, <3>2 DEF Heeded
  <2>3. LiveIsLatest'
    BY <2>2 DEF LiveIsLatest
  <2>4. QED
    BY <2>1, <2>3
<1>2. CASE Heeded(s) /\ ws' = Detach(w) /\ live' = FALSE
  <2>1. ~overlapped => \A t \in Gens : ~Pending(t)
    BY <1>2 DEF Heeded, Alone, OneTransport
  <2>2. ~overlapped => \A t \in Gens : ~(go[t] = "up" /\ ws'[t] = "open")
    <3> SUFFICES ASSUME ~overlapped, NEW t \in Gens, go[t] = "up",
                        ws'[t] = "open"
                 PROVE  FALSE
      OBVIOUS
    <3>1. w[t] = "open" /\ t # curWs
      BY <1>2 DEF Detach, WsStates, None, Gens
    <3>2. ws[t] = "open"
      BY <3>1
    <3>3. QED
      BY <3>1, <3>2 DEF Alone, OneTransport, Adopted, LiveAdopted
  <2>3. CASE StartAttempt
    BY <1>2, <2>1, <2>2, <2>3, StartAttemptAlone
  <2>4. CASE UNCHANGED <<attemptVars>>
    <3> USE <1>2, <2>1, <2>2, <2>4 DEF attemptVars, Pending, Gens
    <3>1. OneTransport'
      BY DEF OneTransport
    <3>2. LiveIsLatest'
      BY DEF LiveIsLatest, Alone
    <3>3. QED
      BY <3>1, <3>2 DEF Alone
  <2>5. QED
    BY <1>2, <2>3, <2>4, HandleDisconnectCases
<1>3. QED
  BY <1>1, <1>2, HandleDisconnectCases

LEMMA AloneStep ==
  ASSUME TypeOK, Order, Adopted, Alone, [Next]_vars
  PROVE  Alone'
<1> USE DEF Gens, uiVars, curVars, attemptVars, transportVars
<1>1. CASE Click
  <2>1. CASE StartAttempt /\ overlapped' = (overlapped \/ live \/ \E s \in Gens : Pending(s))
    <3>1. /\ TypeOK /\ Order /\ StartAttempt
          /\ UNCHANGED <<curVars, transportVars>>
      BY <1>1, <2>1 DEF Click
    <3>2. CASE overlapped'
      BY <3>2 DEF Alone, OneTransport, LiveIsLatest
    <3>3. CASE ~overlapped'
      <4>1. ~overlapped /\ ~live /\ \A s \in Gens : ~Pending(s)
        BY <2>1, <3>3
      <4>2. \A s \in Gens : ~(go[s] = "up" /\ ws'[s] = "open")
        BY <3>1, <4>1 DEF Alone, OneTransport
      <4>3. live' = FALSE /\ go' = go
        BY <3>1, <4>1
      <4>4. QED
        BY <3>1, <4>1, <4>2, <4>3, StartAttemptAlone
    <3>4. QED
      BY <3>2, <3>3
  <2>2. CASE RefuseAttempt /\ UNCHANGED overlapped
    BY <1>1, <2>2 DEF Click, RefuseAttempt, Alone, OneTransport, LiveIsLatest,
                      Pending
  <2>3. QED
    BY <1>1, <2>1, <2>2 DEF Click
<1>2. ASSUME NEW s \in Gens, Advance(s) PROVE Alone'
  <2> USE <1>2 DEF Advance, NextPhase, Pending, TypeOK, TypeAttempts
  <2>1. pc[s] \in Phases
    BY DEF Phases
  <2>2. ~overlapped => s = gen /\ ~live /\ \A t \in Gens : ~Pending(t)
    BY <2>1, AttemptIsAlone DEF Order, OneAttempt
  <2>3. OneTransport'
    BY <2>2 DEF Alone, OneTransport
  <2>4. LiveIsLatest'
    BY <2>2 DEF Alone, LiveIsLatest
  <2>5. QED
    BY <2>3, <2>4 DEF Alone
<1>3. ASSUME NEW s \in Gens, LoadTransport(s) PROVE Alone'
  <2> USE <1>3 DEF LoadTransport, Pending, TypeOK, TypeAttempts
  <2>1. pc[s] \in Phases
    BY DEF Phases
  <2>2. ~overlapped => s = gen /\ ~live /\ \A t \in Gens : ~Pending(t)
    BY <2>1, AttemptIsAlone DEF Order, OneAttempt
  <2>3. OneTransport'
    BY <2>2 DEF Alone, OneTransport
  <2>4. LiveIsLatest'
    BY <2>2 DEF Alone, LiveIsLatest
  <2>5. QED
    BY <2>3, <2>4 DEF Alone
<1>4. ASSUME NEW s \in Gens, OpenRelay(s) PROVE Alone'
  <2> USE <1>4 DEF OpenRelay, Finally, Pending, TypeOK, TypeAttempts
  <2>1. pc[s] \in Phases
    BY DEF Phases
  <2>2. ~overlapped => s = gen /\ ~live /\ \A t \in Gens : ~Pending(t)
    BY <2>1, AttemptIsAlone DEF Order, OneAttempt
  <2>3. OneTransport'
    BY <2>2 DEF Alone, OneTransport
  <2>4. LiveIsLatest'
    BY <2>2 DEF Alone, LiveIsLatest
  <2>5. QED
    BY <2>3, <2>4 DEF Alone
<1>5. ASSUME NEW s \in Gens, Abort(s) PROVE Alone'
  <2> USE <1>5 DEF Abort, Finally, StepEnds, Pending, TypeOK, TypeAttempts
  <2>1. pc[s] \in Phases
    BY DEF Phases
  <2>2. ~overlapped => s = gen /\ ~live /\ \A t \in Gens : ~Pending(t)
    BY <2>1, AttemptIsAlone DEF Order, OneAttempt
  <2>3. OneTransport'
    BY <2>2 DEF Alone, OneTransport
  <2>4. LiveIsLatest'
    BY <2>2 DEF Alone, LiveIsLatest
  <2>5. QED
    BY <2>3, <2>4 DEF Alone
<1>6. ASSUME NEW s \in Gens, GoStatus(s) PROVE Alone'
  <2> USE <1>6 DEF GoStatus, Alone, Pending, TypeOK, TypeAttempts
  <2>1. OneTransport'
    BY DEF OneTransport
  <2>2. LiveIsLatest'
    BY DEF LiveIsLatest, OneTransport
  <2>3. QED
    BY <2>1, <2>2
<1>7. ASSUME NEW s \in Gens, GoOpened(s) PROVE Alone'
  <2> USE <1>7 DEF GoOpened, StepEnds, Alone, Pending, TypeOK, TypeAttempts
  <2>1. OneTransport'
    BY DEF OneTransport
  <2>2. LiveIsLatest'
    BY DEF LiveIsLatest, OneTransport
  <2>3. QED
    BY <2>1, <2>2
<1>8. ASSUME NEW s \in Gens, GoReject(s) PROVE Alone'
  <2> USE <1>8 DEF GoReject, Alone, Pending, TypeOK, TypeAttempts
  <2>1. OneTransport'
    BY DEF OneTransport
  <2>2. LiveIsLatest'
    BY DEF LiveIsLatest, OneTransport
  <2>3. QED
    BY <2>1, <2>2
<1>9. ASSUME NEW s \in Gens, Then(s) PROVE Alone'
  <2> USE <1>9 DEF Then, Adopt, StepEnds, Alone, Pending, TypeOK, TypeAttempts
  <2>1. OneTransport'
    BY DEF OneTransport
  <2>2. LiveIsLatest'
    BY DEF LiveIsLatest, OneTransport
  <2>3. QED
    BY <2>1, <2>2
<1>10. ASSUME NEW s \in Gens, Catch(s) PROVE Alone'
  <2> USE <1>10 DEF Catch, StepEnds, Alone, Pending, TypeOK, TypeAttempts
  <2>1. OneTransport'
    BY DEF OneTransport
  <2>2. LiveIsLatest'
    BY DEF LiveIsLatest, OneTransport
  <2>3. QED
    BY <2>1, <2>2
<1>11. ASSUME NEW s \in Gens, TransportEnd(s) PROVE Alone'
  BY <1>11, HandleDisconnectAlone DEF TransportEnd, TypeOK, TypeAttempts
<1>12. ASSUME NEW s \in Gens, WsClose(s) PROVE Alone'
  <2> DEFINE w == [ws EXCEPT ![s] = "closed"]
  <2>1. w \in [Gens -> WsStates]
    BY DEF TypeOK, TypeAttempts, WsStates
  <2>2. \A t \in Gens : w[t] = ws[t] \/ (t = s /\ w[t] # "open")
    BY DEF TypeOK, TypeAttempts
  <2>3. HandleDisconnect(s, w) /\ Quiet /\ UNCHANGED <<go, overlapped>>
    BY <1>12 DEF WsClose
  <2> HIDE DEF w
  <2>4. QED
    BY <2>1, <2>2, <2>3, HandleDisconnectAlone
<1>13. CASE UNCHANGED vars
  BY <1>13 DEF vars, Alone, OneTransport, LiveIsLatest, Pending
<1>14. CASE Tick
  BY <1>14 DEF Tick, Alone, OneTransport, LiveIsLatest, Pending
<1>15. QED
  BY <1>1, <1>2, <1>3, <1>4, <1>5, <1>6, <1>7, <1>8, <1>9, <1>10, <1>11, <1>12, <1>13, <1>14
     DEF Next, ConnectStep, Microtask, GoStep

-----------------------------------------------------------------------------
(* The boot console *)

(* A coroutine that runs is the latest attempt's, and no handshake is under   *)
(* way then without overlap; a handshake is the latest attempt's.             *)
LEMMA UnderWayIsLatest ==
  ASSUME TypeOK, Order, Adopted, Alone, ~overlapped,
         NEW s \in Gens, UnderWay(s)
  PROVE  s = gen
BY DEF UnderWay, Order, OneAttempt, Alone, OneTransport, Pending

LEMMA HandleDisconnectSpinner ==
  ASSUME TypeOK, Order, Adopted, Alone, SpinnerHonest, NEW s \in Gens, NEW w,
         HandleDisconnect(s, w), go' = go, overlapped' = overlapped
  PROVE  SpinnerHonest'
<1>1. CASE UNCHANGED <<attemptVars, spin>>
  BY <1>1 DEF SpinnerHonest, attemptVars, UnderWay
<1>2. CASE StartAttempt
  <2>1. gen + 1 \in Gens /\ gen' = gen + 1 /\ spin' = gen + 1
    BY <1>2 DEF StartAttempt, TypeOK, TypeNumbers, Gens
  <2>2. pc'[gen + 1] = "launch"
    BY <1>2, <2>1 DEF StartAttempt, TypeOK, TypeAttempts
  <2>3. QED
    BY <2>1, <2>2 DEF SpinnerHonest, UnderWay, Phases
<1>3. QED
  BY <1>1, <1>2, HandleDisconnectCases

(* A step of attempt s that leaves the spinner at s, with s still under way,  *)
(* or stops it, or changes neither it nor how any other attempt stands.       *)
LEMMA SpinnerFrame ==
  ASSUME TypeOK, Order, Adopted, Alone, SpinnerHonest, NEW s \in Gens,
         gen' = gen, overlapped' = overlapped,
         ~overlapped => s = gen,
         \/ spin' = None
         \/ spin' = s /\ UnderWay(s)'
         \/ /\ spin' = spin
            /\ UnderWay(s)'
            /\ \A t \in Gens : t # s => pc'[t] = pc[t] /\ go'[t] = go[t]
  PROVE  SpinnerHonest'
BY DEF SpinnerHonest, UnderWay, TypeOK, TypeUi, Gens, None

LEMMA SpinnerStep ==
  ASSUME TypeOK, Order, Adopted, Alone, SpinnerHonest, [Next]_vars
  PROVE  SpinnerHonest'
<1> USE DEF uiVars, curVars, attemptVars, transportVars
<1>1. CASE Click
  <2>1. CASE StartAttempt
    <3>1. gen + 1 \in Gens /\ gen' = gen + 1 /\ spin' = gen + 1
      BY <2>1 DEF StartAttempt, TypeOK, TypeNumbers, Gens
    <3>2. pc'[gen + 1] = "launch"
      BY <2>1, <3>1 DEF StartAttempt, TypeOK, TypeAttempts
    <3>3. QED
      BY <3>1, <3>2 DEF SpinnerHonest, UnderWay, Phases
  <2>2. CASE RefuseAttempt /\ UNCHANGED overlapped
    BY <1>1, <2>2 DEF Click, RefuseAttempt, SpinnerHonest, UnderWay
  <2>3. QED
    BY <1>1, <2>1, <2>2 DEF Click
<1>2. ASSUME NEW s \in Gens, Advance(s) PROVE SpinnerHonest'
  <2>1. pc[s] \in Phases /\ s = gen
    BY <1>2 DEF Advance, NextPhase, Phases, Order, OneAttempt
  <2>2. UnderWay(s)'
    BY <1>2 DEF Advance, NextPhase, UnderWay, Phases, TypeOK, TypeAttempts
  <2>3. QED
    BY <1>2, <2>1, <2>2, SpinnerFrame DEF Advance
<1>3. ASSUME NEW s \in Gens, LoadTransport(s) PROVE SpinnerHonest'
  <2>1. s = gen
    BY <1>3 DEF LoadTransport, Phases, Order, OneAttempt
  <2>2. UnderWay(s)'
    BY <1>3 DEF LoadTransport, UnderWay, Phases, TypeOK, TypeAttempts
  <2>3. QED
    BY <1>3, <2>1, <2>2, SpinnerFrame DEF LoadTransport
<1>4. ASSUME NEW s \in Gens, OpenRelay(s) PROVE SpinnerHonest'
  <2>1. s = gen
    BY <1>4 DEF OpenRelay, Phases, Order, OneAttempt
  <2>2. UnderWay(s)'
    BY <1>4 DEF OpenRelay, UnderWay, Phases, TypeOK, TypeAttempts
  <2>3. QED
    BY <1>4, <2>1, <2>2, SpinnerFrame DEF OpenRelay
<1>5. ASSUME NEW s \in Gens, Abort(s) PROVE SpinnerHonest'
  BY <1>5 DEF Abort, StepEnds, SpinnerHonest
<1>6. ASSUME NEW s \in Gens, GoStatus(s) PROVE SpinnerHonest'
  <2>1. UnderWay(s) /\ UnderWay(s)'
    BY <1>6 DEF GoStatus, UnderWay
  <2>2. QED
    BY <1>6, <2>1, UnderWayIsLatest, SpinnerFrame DEF GoStatus
<1>7. ASSUME NEW s \in Gens, GoOpened(s) PROVE SpinnerHonest'
  BY <1>7 DEF GoOpened, StepEnds, SpinnerHonest
<1>8. ASSUME NEW s \in Gens, GoReject(s) PROVE SpinnerHonest'
  <2>1. UnderWay(s)
    BY <1>8 DEF GoReject, UnderWay
  <2>2. UnderWay(s)' /\ \A t \in Gens : t # s => pc'[t] = pc[t] /\ go'[t] = go[t]
    BY <1>8 DEF GoReject, UnderWay, TypeOK, TypeAttempts
  <2>3. QED
    BY <1>8, <2>1, <2>2, UnderWayIsLatest, SpinnerFrame DEF GoReject
<1>9. ASSUME NEW s \in Gens, Then(s) PROVE SpinnerHonest'
  BY <1>9 DEF Then, StepEnds, SpinnerHonest
<1>10. ASSUME NEW s \in Gens, Catch(s) PROVE SpinnerHonest'
  BY <1>10 DEF Catch, StepEnds, SpinnerHonest
<1>11. ASSUME NEW s \in Gens, TransportEnd(s) PROVE SpinnerHonest'
  BY <1>11, HandleDisconnectSpinner DEF TransportEnd
<1>12. ASSUME NEW s \in Gens, WsClose(s) PROVE SpinnerHonest'
  BY <1>12, HandleDisconnectSpinner DEF WsClose
<1>13. CASE UNCHANGED vars
  BY <1>13 DEF vars, SpinnerHonest, UnderWay
<1>14. CASE Tick
  BY <1>14 DEF Tick, SpinnerHonest, UnderWay
<1>15. QED
  BY <1>1, <1>2, <1>3, <1>4, <1>5, <1>6, <1>7, <1>8, <1>9, <1>10, <1>11, <1>12, <1>13, <1>14
     DEF Next, ConnectStep, Microtask, GoStep

-----------------------------------------------------------------------------
(* The reconnect budget over time *)

(* Nothing of the last minute is ever missing from the record. *)
Recorded == Recent \subseteq reconnects

LEMMA RecordedInit == Init => Recorded
BY DEF Init, Recorded, Recent

(* What the record says is young is what was reconnected in the last minute. *)
LEMMA RecentIsYoung ==
  ASSUME TypeBudget, Recorded
  PROVE  Recent = Young
BY DEF TypeBudget, Recorded, Recent, Young

LEMMA HandleDisconnectRecorded ==
  ASSUME TypeBudget, Recorded, NEW s \in Gens, NEW w, HandleDisconnect(s, w)
  PROVE  Recorded'
<1>1. CASE UNCHANGED budgetVars
  BY <1>1 DEF budgetVars, Recorded, Recent
<1>2. CASE Stamp
  <2>1. /\ Len(ages) \in Nat /\ DOMAIN ages = 1..Len(ages)
        /\ DOMAIN ages' = 1..Len(ages) + 1
        /\ \A r \in DOMAIN ages : ages'[r] = ages[r]
    BY <1>2 DEF TypeBudget, Stamp
  <2>2. Recent' \subseteq Recent \union {Len(ages) + 1}
    BY <2>1 DEF Recent
  <2>3. QED
    BY <1>2, <2>2, RecentIsYoung DEF Stamp, Recorded
<1>3. CASE reconnects' = Young /\ UNCHANGED ages
  BY <1>3, RecentIsYoung DEF Recorded, Recent
<1>4. QED
  BY <1>1, <1>2, <1>3 DEF HandleDisconnect

LEMMA RecordedStep ==
  ASSUME TypeOK, Recorded, [Next]_vars
  PROVE  Recorded'
<1> USE DEF TypeOK
<1>1. CASE UNCHANGED budgetVars
  BY <1>1 DEF budgetVars, Recorded, Recent
<1>2. CASE Tick
  <2>1. DOMAIN ages' = DOMAIN ages
    BY <1>2, TickBudget
  <2>2. \A r \in DOMAIN ages : ages[r] \in 0..Minute
    BY DEF TypeBudget
  <2>3. \A r \in DOMAIN ages : ages'[r] < Minute => ages[r] < Minute
    BY <1>2, <2>2 DEF Tick
  <2>4. QED
    BY <1>2, <2>1, <2>3 DEF Tick, Recorded, Recent
<1>3. ASSUME NEW s \in Gens, TransportEnd(s) \/ WsClose(s) PROVE Recorded'
  BY <1>3, HandleDisconnectRecorded DEF TransportEnd, WsClose
<1>4. QED
  BY <1>1, <1>2, <1>3
     DEF Next, ConnectStep, Microtask, GoStep, Click, Advance, LoadTransport,
         OpenRelay, Abort, GoStatus, GoOpened, GoReject, Then, Catch, vars

-----------------------------------------------------------------------------
(* The theorems *)

(* The inductive invariant: none of the properties below is inductive alone.  *)
IInv == TypeOK /\ Order /\ Adopted /\ Alone /\ SpinnerHonest /\ Recorded

(* Every reachable state satisfies the inductive invariant. *)
THEOREM SessionInvariant == Spec => []IInv
<1>1. Init => IInv
  <2>1. Init => SpinnerHonest
    BY DEF Init, SpinnerHonest
  <2>2. QED
    BY <2>1, TypeInit, OrderInit, AdoptedInit, AloneInit, RecordedInit DEF IInv
<1>2. IInv /\ [Next]_vars => IInv'
  BY TypeStep, OrderStep, AdoptedStep, AloneStep, SpinnerStep, RecordedStep
     DEF IInv, Adopted
<1>3. QED
  BY <1>1, <1>2, PTL DEF Spec

(* Type correctness; the bound on the recorded reconnects is part of it. *)
THEOREM SessionTypeOK == Spec => []TypeOK
BY SessionInvariant, PTL DEF IInv

(* Two connect() coroutines never run at once (boot.js:533, 537, 656). *)
THEOREM SessionOneAttempt == Spec => []OneAttempt
<1>1. IInv => OneAttempt
  BY DEF IInv, Order
<1>2. QED
  BY <1>1, SessionInvariant, PTL

(* `live`, curShell and curWs always speak of the same resolved transport     *)
(* (boot.js:483-516, 629).                                                    *)
THEOREM SessionLiveAdopted == Spec => []LiveAdopted
<1>1. IInv => LiveAdopted
  BY DEF IInv, Adopted
<1>2. QED
  BY <1>1, SessionInvariant, PTL

(* The system line agrees with `live`, and, without overlap, what it calls    *)
(* connected is the latest attempt on an open socket (boot.js:236-240,        *)
(* 505-513, 629, 646-654).                                                    *)
THEOREM SessionStatusHonest == Spec => []StatusHonest
<1>1. IInv => StatusHonest
  BY DEF IInv, Adopted, StatusAgrees, Alone, LiveIsLatest, StatusHonest
<1>2. QED
  BY <1>1, SessionInvariant, PTL

(* Without overlap a live session is the latest attempt's, alone and on an    *)
(* open socket (boot.js:466-478).                                             *)
THEOREM SessionUndisturbedLive == Spec => []UndisturbedLive
<1>1. IInv => UndisturbedLive
  <2> SUFFICES ASSUME IInv, ~overlapped, live
               PROVE  /\ curShell = gen /\ ws[gen] = "open"
                      /\ ~connecting
                      /\ \A s \in Gens : ~Pending(s)
                      /\ status \in {"connected", "refused"}
    BY DEF UndisturbedLive
  <2>1. /\ curShell = gen /\ ws[gen] = "open"
        /\ status \in {"connected", "refused"}
    BY DEF IInv, Alone, LiveIsLatest
  <2>2. gen \in Gens
    BY <2>1 DEF IInv, Adopted, LiveAdopted, TypeOK, TypeNumbers, None, Gens
  <2>3. ~connecting
    BY <2>2, AttemptIsAlone DEF IInv, Order, OneAttempt
  <2>4. \A s \in Gens : ~Pending(s)
    BY DEF IInv, Alone, OneTransport
  <2>5. QED
    BY <2>1, <2>3, <2>4
<1>2. QED
  BY <1>1, SessionInvariant, PTL

(* Without overlap no relay socket outlives the session it carried            *)
(* (boot.js:483-488, 506, 514).                                               *)
THEOREM SessionSocketReleased == Spec => []SocketReleased
<1>1. IInv => SocketReleased
  BY DEF IInv, Alone, OneTransport, Adopted, LiveAdopted, SocketReleased
<1>2. QED
  BY <1>1, SessionInvariant, PTL

(* No boot step spins beyond the attempt that started it, with or without     *)
(* overlap; without, it is the latest attempt's (boot.js 606-611, 617, 650).  *)
THEOREM SessionSpinnerHonest == Spec => []SpinnerHonest
BY SessionInvariant, PTL DEF IInv

(* A session ends only through the death of the latest attempt's transport    *)
(* (boot.js:475-478, 497).                                                    *)
THEOREM SessionDropIsCurrent == Spec => DropIsCurrent
<1> DEFINE Drop == Dies(gen) /\ (~overlapped => curShell = gen)
<1>1. ASSUME IInv, [Next]_vars, live, ~live' PROVE Drop
  <2> USE DEF uiVars, curVars, attemptVars, transportVars
  <2>1. ~overlapped => curShell = gen
    BY <1>1 DEF IInv, Alone, LiveIsLatest
  <2>2. \E s \in Gens : TransportEnd(s) \/ WsClose(s)
    BY <1>1 DEF Next, ConnectStep, Microtask, GoStep, Click, Advance,
                LoadTransport, OpenRelay, Abort, GoStatus, GoOpened, GoReject,
                Then, Adopt, Catch, Tick, vars
  <2>3. ASSUME NEW s \in Gens, TransportEnd(s) PROVE Dies(gen)
    <3>1. s = gen
      BY <1>1, <2>3, HandleDisconnectCases DEF TransportEnd, Heeded
    <3>2. ~told[s] /\ told' = [told EXCEPT ![s] = TRUE]
      BY <2>3 DEF TransportEnd
    <3>3. QED
      BY <1>1, <3>1, <3>2 DEF Dies, IInv, TypeOK, TypeAttempts
  <2>4. ASSUME NEW s \in Gens, WsClose(s) PROVE Dies(gen)
    <3> DEFINE w == [ws EXCEPT ![s] = "closed"]
    <3>1. HandleDisconnect(s, w) /\ ws[s] = "open"
      BY <2>4 DEF WsClose
    <3>2. w[s] = "closed"
      BY <1>1 DEF IInv, TypeOK, TypeAttempts
    <3> HIDE DEF w
    <3>3. Heeded(s) /\ ws' = Detach(w)
      BY <1>1, <3>1, HandleDisconnectCases
    <3>4. ws'[s] # "open"
      BY <3>2, <3>3, <1>1 DEF Detach
    <3>5. QED
      BY <3>1, <3>3, <3>4 DEF Dies, Heeded
  <2>5. QED
    BY <2>1, <2>2, <2>3, <2>4
<1>2. IInv /\ [Next]_vars => [live /\ ~live' => Drop]_vars
  BY <1>1
<1>3. QED
  BY <1>2, SessionInvariant, PTL DEF Spec, DropIsCurrent

(* Without overlap no death of the adopted transport is ignored: socket or    *)
(* shell, the session it carried ends with it (boot.js 475-478, 497-498).     *)
THEOREM SessionDropNoticed == Spec => DropNoticed
<1> DEFINE Noticed == ~overlapped /\ live /\ Dies(curShell) => ~live'
<1>1. ASSUME IInv, [Next]_vars, ~overlapped, live, Dies(curShell) PROVE ~live'
  <2> USE DEF uiVars, curVars, attemptVars, transportVars
  <2>1. curShell = gen /\ gen \in Gens /\ go[gen] = "up"
    BY <1>1 DEF IInv, Alone, LiveIsLatest, Adopted, LiveAdopted, TypeOK,
                TypeNumbers, None, Gens
  <2>2. ~connecting
    BY <1>1, <2>1, AttemptIsAlone DEF IInv, Order, OneAttempt
  <2>3. Heeded(gen)
    BY <1>1, <2>2 DEF Heeded
  <2>4. CASE UNCHANGED <<ws, told>>
    BY <1>1, <2>4 DEF Dies
  <2>5. ASSUME NEW s \in Gens, OpenRelay(s) PROVE FALSE
    <3>1. pc[s] = "relay"
      BY <2>5 DEF OpenRelay
    <3>2. QED
      BY <1>1, <3>1, AttemptIsAlone DEF IInv, Phases
  <2>6. ASSUME NEW s \in Gens, TransportEnd(s) PROVE ~live'
    <3>1. HandleDisconnect(s, ws) /\ told' = [told EXCEPT ![s] = TRUE]
      BY <2>6 DEF TransportEnd
    <3>2. CASE s = gen
      BY <2>3, <3>1, <3>2, HandleDisconnectCases
    <3>3. CASE s # gen
      <4>1. told'[gen] = told[gen] /\ ~Heeded(s)
        BY <1>1, <2>1, <3>1, <3>3 DEF IInv, TypeOK, TypeAttempts, Heeded
      <4>2. ws' = ws
        BY <3>1, <4>1, HandleDisconnectCases
      <4>3. QED
        BY <1>1, <2>1, <4>1, <4>2 DEF Dies
    <3>4. QED
      BY <3>2, <3>3
  <2>7. ASSUME NEW s \in Gens, WsClose(s) PROVE ~live'
    <3> DEFINE w == [ws EXCEPT ![s] = "closed"]
    <3>1. HandleDisconnect(s, w) /\ told' = told
      BY <2>7 DEF WsClose
    <3>2. s # gen => w[gen] = ws[gen]
      BY <1>1, <2>1 DEF IInv, TypeOK, TypeAttempts
    <3> HIDE DEF w
    <3>3. CASE s = gen
      BY <2>3, <3>1, <3>3, HandleDisconnectCases
    <3>4. CASE s # gen
      <4>1. ws' = w
        BY <3>1, <3>4, HandleDisconnectCases DEF Heeded
      <4>2. QED
        BY <1>1, <2>1, <3>1, <3>2, <3>4, <4>1 DEF Dies
    <3>5. QED
      BY <3>3, <3>4
  <2>8. QED
    BY <1>1, <2>4, <2>5, <2>6, <2>7
       DEF Next, ConnectStep, Microtask, GoStep, Click, Tick, Advance,
           LoadTransport, Abort, GoStatus, GoOpened, GoReject, Then, Catch, vars
<1>2. IInv /\ [Next]_vars => [Noticed]_vars
  BY <1>1
<1>3. QED
  BY <1>2, SessionInvariant, PTL DEF Spec, DropNoticed

(* No minute has more than ReconnectLimit automatic reconnects, over any      *)
(* number of drops (boot.js:480-481, 503-511).                                *)
THEOREM SessionBudgetKept == Spec => []BudgetKept
<1>1. IInv => BudgetKept
  <2> SUFFICES ASSUME IInv PROVE Cardinality(Recent) <= ReconnectLimit
    BY DEF BudgetKept
  <2>1. TypeBudget /\ Recent = Young
    BY RecentIsYoung DEF IInv, TypeOK
  <2>2. Cardinality(reconnects) \in Nat /\ Cardinality(reconnects) <= ReconnectLimit
    BY <2>1, YoungFinite, FS_CardinalityType DEF TypeBudget
  <2>3. QED
    BY <2>1, <2>2, YoungFinite
<1>2. QED
  BY <1>1, SessionInvariant, PTL

(* A drop is followed by a reconnect exactly when the last minute's budget is *)
(* not spent, and nothing else is (boot.js:497-516).                          *)
THEOREM SessionReconnectBudget == Spec => ReconnectBudget
<1> DEFINE Exact ==
             /\ Reconnects => live /\ ~live'
             /\ live /\ ~live' => (Reconnects <=> Cardinality(Recent) < ReconnectLimit)
<1>1. ASSUME IInv, [Next]_vars PROVE Exact
  <2> USE DEF uiVars, curVars, attemptVars, transportVars, budgetVars
  <2>1. TypeBudget /\ Recent = Young /\ Len(ages) \in Nat
    BY <1>1, RecentIsYoung DEF IInv, TypeOK, TypeBudget
  <2>2. CASE ages' = ages /\ ~(live /\ ~live')
    BY <2>1, <2>2 DEF Reconnects
  <2>3. CASE Tick
    <3>1. Len(ages') = Len(ages)
      BY <2>1, <2>3, TickBudget DEF TypeBudget
    <3>2. live' = live
      BY <2>3 DEF Tick
    <3>3. QED
      BY <2>1, <3>1, <3>2 DEF Reconnects
  <2>4. ASSUME NEW s \in Gens, NEW w, HandleDisconnect(s, w) PROVE Exact
    <3>1. CASE ~Heeded(s)
      BY <2>1, <2>4, <3>1 DEF HandleDisconnect, Reconnects
    <3>2. CASE Heeded(s) /\ MayReconnect /\ Stamp
      <4>1. Len(ages') = Len(ages) + 1
        BY <2>1, <3>2 DEF Stamp, TypeBudget
      <4>2. live /\ ~live'
        BY <2>4, <3>2 DEF HandleDisconnect, Heeded
      <4>3. QED
        BY <2>1, <3>2, <4>1, <4>2 DEF MayReconnect, Reconnects
    <3>3. CASE ~MayReconnect /\ UNCHANGED ages
      BY <2>1, <3>3 DEF MayReconnect, Reconnects
    <3>4. QED
      BY <2>4, <3>1, <3>2, <3>3 DEF HandleDisconnect
  <2>5. ASSUME NEW s \in Gens, TransportEnd(s) \/ WsClose(s) PROVE Exact
    BY <2>4, <2>5 DEF TransportEnd, WsClose
  <2>6. QED
    BY <1>1, <2>2, <2>3, <2>5
       DEF Next, ConnectStep, Microtask, GoStep, Click, Advance, LoadTransport,
           OpenRelay, Abort, GoStatus, GoOpened, GoReject, Then, Adopt, Catch, vars
<1>2. IInv /\ [Next]_vars => [Exact]_vars
  BY <1>1
<1>3. QED
  BY <1>2, SessionInvariant, PTL DEF Spec, ReconnectBudget
=============================================================================
