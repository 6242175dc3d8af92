------------------------------ MODULE RelayProofs ------------------------------
(* Theorems about Relay, for every number of tries.                           *)
EXTENDS Relay, TLAPS

USE TriesAssumption

(* Try s comes before try t in the one chain of tries.                        *)
Before(s, t) ==
  \/ s[1] = "direct" /\ t[1] = "worker"
  \/ s[1] = t[1] /\ s[2] < t[2]

(* A try that is over holds nothing any more.                                 *)
Over(s) == settled[s] /\ ~retry[s] /\ sock[s] \notin Active

(* The tries begin in their order, each when all before it are over.          *)
Sequenced ==
  \A s, t \in Sockets : Before(s, t) /\ sock[t] # "none" => Over(s)

(* What a single try can be.                                                  *)
TryStates ==
  \A s \in Sockets :
    /\ sock[s] = "none" => ~settled[s] /\ ~retry[s]
    /\ retry[s] => settled[s] /\ sock[s] \notin Active /\ ~Last(s)
    /\ settled[s] /\ sock[s] \in Active => sock[s] = "open"
    /\ sock[s] \in {"open", "late", "closing", "closed"} => settled[s]

(* The inductive invariant. *)
IInv == TypeOK /\ Sequenced /\ TryStates /\ OutcomeHonest

-----------------------------------------------------------------------------
(* The order of the tries *)

(* Two tries are equal or one comes before the other.                         *)
LEMMA Linear ==
  ASSUME NEW s \in Sockets, NEW t \in Sockets
  PROVE  s = t \/ Before(s, t) \/ Before(t, s)
<1>1. PICK p \in {"direct", "worker"}, m \in Nat : s = <<p, m>>
  BY DEF Sockets
<1>2. PICK q \in {"direct", "worker"}, n \in Nat : t = <<q, n>>
  BY DEF Sockets
<1>3. QED
  BY <1>1, <1>2 DEF Before

(* The order is strict.                                                       *)
LEMMA Strict ==
  ASSUME NEW s \in Sockets, NEW t \in Sockets, Before(s, t)
  PROVE  s # t /\ ~Before(t, s)
BY DEF Sockets, Before

(* The invariant implies that there is one chain.                             *)
LEMMA ChainFollows ==
  ASSUME TypeOK, Sequenced, TryStates
  PROVE  OneChain
<1> SUFFICES ASSUME NEW s \in Sockets, NEW t \in Sockets, Holds(s), Holds(t)
             PROVE  s = t
  BY DEF OneChain
<1>1. sock[s] # "none" /\ sock[t] # "none"
  BY DEF Holds, Active, TypeOK, TryStates
<1>2. ~Over(s) /\ ~Over(t)
  BY DEF Holds, Over, TypeOK
<1>3. QED
  BY <1>1, <1>2, Linear DEF Sequenced

(* The next try of a path, and the worker's first, have not begun.            *)
LEMMA NextIsNew ==
  ASSUME TypeOK, Sequenced, TryStates, NEW s \in Sockets, NEW t \in Sockets,
         Before(s, t), ~Over(s)
  PROVE  sock[t] = "none" /\ ~settled[t] /\ ~retry[t] /\ ~timer[t]
BY DEF Sequenced, TryStates, TypeOK

-----------------------------------------------------------------------------
(* The steps *)

LEMMA InitInv == Init => IInv
<1> SUFFICES ASSUME Init PROVE IInv
  OBVIOUS
<1> USE DEF Init
<1>1. <<"direct", 1>> \in Sockets
  BY DEF Sockets
<1>2. \A s \in Sockets : ~Before(s, <<"direct", 1>>)
  BY DEF Before, Sockets
<1>3. TypeOK
  BY DEF TypeOK, SocketStates, Active
<1>4. Sequenced
  BY <1>2 DEF Sequenced
<1>5. TryStates /\ OutcomeHonest
  BY DEF TryStates, OutcomeHonest, Active
<1>6. QED
  BY <1>3, <1>4, <1>5 DEF IInv

(* What the network does to a socket that is connecting changes nothing else. *)
LEMMA NetworkInv ==
  ASSUME IInv, NEW s \in Sockets, Established(s) \/ Refused(s)
  PROVE  IInv'
<1>1. /\ sock[s] = "connecting"
      /\ sock' = [sock EXCEPT ![s] = sock'[s]]
      /\ sock'[s] \in {"opening", "failed"}
      /\ UNCHANGED <<settled, timer, retry, outcome>>
  BY DEF Established, Refused, IInv, TypeOK
<1> USE <1>1 DEF IInv
<1>2. TypeOK'
  BY DEF TypeOK, SocketStates, Active
<1>3. ~settled[s] /\ outcome # "rejected"
  BY DEF TryStates, OutcomeHonest, Active
<1>4. Sequenced'
  BY <1>3 DEF Sequenced, Over, TypeOK, Active
<1>5. TryStates'
  BY <1>3 DEF TryStates, TypeOK, Active
<1>6. OutcomeHonest'
  BY <1>3 DEF OutcomeHonest, TypeOK
<1>7. QED
  BY <1>2, <1>4, <1>5, <1>6

(* An event of a try that is over only moves its socket on to its close.      *)
LEMMA IgnoredInv ==
  ASSUME IInv, NEW s \in Sockets, settled[s],
         sock[s] \in {"late", "closing", "failed"},
         NEW to \in {"closing", "closed"}, Ignored([sock EXCEPT ![s] = to])
  PROVE  IInv'
<1> USE DEF IInv, Ignored
<1>1. TypeOK'
  BY DEF TypeOK, SocketStates, Active
<1>2. Sequenced'
  BY DEF Sequenced, Over, TypeOK, Active
<1>3. TryStates'
  BY DEF TryStates, TypeOK, Active
<1>4. OutcomeHonest'
  BY DEF OutcomeHonest, TypeOK, Active
<1>5. QED
  BY <1>1, <1>2, <1>3, <1>4

(* A try whose socket has opened ends the chain.                              *)
LEMMA FinishOkInv ==
  ASSUME IInv, NEW s \in Sockets, ~settled[s], sock[s] = "opening",
         FinishOk(s, [sock EXCEPT ![s] = "open"])
  PROVE  IInv'
<1> USE DEF IInv, FinishOk, ClearTimer
<1>1. TypeOK'
  BY DEF TypeOK, SocketStates, Active
<1>2. Sequenced'
  BY DEF Sequenced, Over, TypeOK, Active
<1>3. TryStates'
  BY DEF TryStates, TypeOK, Active
<1>4. OutcomeHonest'
  BY DEF OutcomeHonest, TypeOK, Active
<1>5. QED
  BY <1>1, <1>2, <1>3, <1>4

(* A new try begins where none has, when all before it are over.              *)
LEMMA AttemptInv ==
  ASSUME NEW so, NEW ti, NEW re, NEW se, NEW u \in Sockets,
         so \in [Sockets -> SocketStates], ti \in [Sockets -> BOOLEAN],
         se \in [Sockets -> BOOLEAN], re \in [Sockets -> BOOLEAN],
         Attempt(u, so, ti), settled' = se, retry' = re,
         outcome' = outcome, outcome # "rejected", OutcomeHonest,
         so[u] = "none", ~se[u], ~re[u],
         \A t \in Sockets : so[t] = "open" <=> sock[t] = "open",
         \A t \in Sockets : ti[t] <=> so[t] # "none" /\ ~se[t],
         outcome \in {"pending", "resolved", "rejected"},
         \A t \in Sockets : Before(t, u) =>
           se[t] /\ ~re[t] /\ so[t] \notin Active,
         \A t \in Sockets : Before(u, t) => so[t] = "none",
         \A t \in Sockets :
           /\ so[t] = "none" => ~se[t] /\ ~re[t]
           /\ re[t] => se[t] /\ so[t] \notin Active /\ ~Last(t)
           /\ se[t] /\ so[t] \in Active => so[t] = "open"
           /\ so[t] \in {"open", "late", "closing", "closed"} => se[t],
         \A t, v \in Sockets : Before(t, v) /\ so[v] # "none" =>
           se[t] /\ ~re[t] /\ so[t] \notin Active
  PROVE  IInv'
<1> USE DEF Attempt
<1>1. TypeOK'
  BY DEF TypeOK, SocketStates, Active
<1>2. Sequenced'
  <2> SUFFICES ASSUME NEW t \in Sockets, NEW v \in Sockets, Before(t, v),
                      sock'[v] # "none"
               PROVE  Over(t)'
    BY DEF Sequenced
  <2>1. t # u
    BY Strict
  <2>2. QED
    BY <2>1 DEF Over
<1>3. TryStates'
  BY DEF TryStates, Active
<1>4. OutcomeHonest'
  BY DEF OutcomeHonest
<1>5. QED
  BY <1>1, <1>2, <1>3, <1>4 DEF IInv

(* A try that fails closes its socket and hands the chain on: to its back-off,*)
(* to the worker's first try, or to connect() as an error.                    *)
LEMMA FinishFailedInv ==
  ASSUME IInv, NEW s \in Sockets, ~settled[s], sock[s] # "none",
         NEW so \in [Sockets -> SocketStates],
         \A t \in Sockets : t # s => so[t] = sock[t],
         so[s] \notin {"none", "open"},
         FinishFailed(s, so)
  PROVE  IInv'
<1> DEFINE cl == Close(s, so)
           ti == ClearTimer(s)
           se == [settled EXCEPT ![s] = TRUE]
<1> USE DEF IInv
<1>1. /\ cl \in [Sockets -> SocketStates]
      /\ \A t \in Sockets : t # s => cl[t] = sock[t]
      /\ cl[s] \in {"closed", "late", "closing"}
  BY DEF Close, SocketStates, Active
<1>2. /\ ti \in [Sockets -> BOOLEAN] /\ se \in [Sockets -> BOOLEAN]
      /\ ~ti[s] /\ se[s]
      /\ \A t \in Sockets : t # s => ti[t] = timer[t] /\ se[t] = settled[t]
  BY DEF ClearTimer, TypeOK
<1>3. \A t \in Sockets : Before(s, t) => sock[t] = "none"
  BY DEF Sequenced, Over
<1>4. ~retry[s] /\ outcome # "rejected" /\ sock[s] # "open"
  BY DEF TryStates, OutcomeHonest
<1>5. /\ settled' = se
      /\ \/ /\ ~Last(s) /\ sock' = cl /\ timer' = ti
            /\ retry' = [retry EXCEPT ![s] = TRUE]
            /\ UNCHANGED outcome
         \/ /\ Last(s) /\ s[1] = "direct"
            /\ Attempt(<<"worker", 1>>, cl, ti)
            /\ UNCHANGED <<retry, outcome>>
         \/ /\ Last(s) /\ s[1] = "worker" /\ sock' = cl /\ timer' = ti
            /\ outcome' = IF outcome = "pending" THEN "rejected" ELSE outcome
            /\ UNCHANGED retry
  BY DEF FinishFailed
<1> HIDE DEF cl, ti, se
<1>6. \A t, v \in Sockets : Before(t, v) /\ cl[v] # "none" =>
        t # s /\ settled[t] /\ ~retry[t] /\ sock[t] \notin Active
  BY <1>1, <1>3 DEF Sequenced, Over
<1>7. CASE ~Last(s) /\ sock' = cl /\ timer' = ti
           /\ retry' = [retry EXCEPT ![s] = TRUE] /\ UNCHANGED outcome
  <2> USE <1>1, <1>2, <1>5, <1>7
  <2>1. TypeOK'
    BY DEF TypeOK
  <2>2. Sequenced'
    BY <1>6 DEF Sequenced, Over, TypeOK
  <2>3. TryStates'
    BY DEF TryStates, TypeOK, Active
  <2>4. OutcomeHonest'
    BY <1>4 DEF OutcomeHonest
  <2>5. QED
    BY <2>1, <2>2, <2>3, <2>4
<1>8. CASE Last(s) /\ s[1] = "worker" /\ sock' = cl /\ timer' = ti
           /\ outcome' = (IF outcome = "pending" THEN "rejected" ELSE outcome)
           /\ UNCHANGED retry
  <2> USE <1>1, <1>2, <1>5, <1>8
  <2>1. TypeOK'
    BY DEF TypeOK
  <2>2. Sequenced'
    BY <1>6 DEF Sequenced, Over, TypeOK
  <2>3. TryStates'
    BY <1>4 DEF TryStates, TypeOK, Active
  <2>4. ASSUME NEW t \in Sockets PROVE t = s \/ Before(t, s)
    <3>1. ~Before(s, t)
      BY DEF Sockets, Before, Last, Tries
    <3>2. QED
      BY <3>1, Linear
  <2>5. \A t \in Sockets : settled'[t] /\ sock'[t] \notin Active
    BY <2>4, <1>6 DEF Active
  <2>6. OutcomeHonest'
    BY <1>4, <2>5 DEF OutcomeHonest
  <2>7. QED
    BY <2>1, <2>2, <2>3, <2>6
<1>9. CASE Last(s) /\ s[1] = "direct" /\ Attempt(<<"worker", 1>>, cl, ti)
           /\ UNCHANGED <<retry, outcome>>
  <2> DEFINE u == <<"worker", 1>>
  <2>1. u \in Sockets /\ Before(s, u) /\ u # s
    BY <1>9 DEF Sockets, Before
  <2>2. \A t \in Sockets : Before(t, u) => t = s \/ Before(t, s)
    BY <1>9 DEF Sockets, Before, Last, Tries
  <2>3. \A t \in Sockets : Before(u, t) => Before(s, t)
    BY <1>9 DEF Sockets, Before
  <2> HIDE DEF u
  <2>4. cl[u] = "none" /\ ~se[u] /\ ~retry[u]
    BY <1>1, <1>2, <1>3, <2>1 DEF TryStates
  <2>5. \A t \in Sockets : Before(t, u) =>
          se[t] /\ ~retry[t] /\ cl[t] \notin Active
    BY <1>1, <1>2, <1>4, <1>6, <2>2 DEF Active
  <2>6. \A t \in Sockets : Before(u, t) => cl[t] = "none"
    BY <1>1, <1>3, <2>3, Strict
  <2>7. \A t \in Sockets :
          /\ cl[t] = "none" => ~se[t] /\ ~retry[t]
          /\ retry[t] => se[t] /\ cl[t] \notin Active /\ ~Last(t)
          /\ se[t] /\ cl[t] \in Active => cl[t] = "open"
          /\ cl[t] \in {"open", "late", "closing", "closed"} => se[t]
    BY <1>1, <1>2, <1>4 DEF TryStates, Active
  <2>8. \A t, v \in Sockets : Before(t, v) /\ cl[v] # "none" =>
          se[t] /\ ~retry[t] /\ cl[t] \notin Active
    BY <1>1, <1>2, <1>6
  <2>9. \A t \in Sockets : cl[t] = "open" <=> sock[t] = "open"
    BY <1>1, <1>4
  <2>10. \A t \in Sockets : ti[t] <=> cl[t] # "none" /\ ~se[t]
    BY <1>1, <1>2 DEF TypeOK
  <2>11. Attempt(u, cl, ti) /\ settled' = se /\ retry' = retry /\ outcome' = outcome
    BY <1>5, <1>9 DEF u
  <2>12. retry \in [Sockets -> BOOLEAN] /\ outcome \in {"pending", "resolved", "rejected"}
    BY DEF TypeOK
  <2>13. OutcomeHonest /\ outcome # "rejected"
    BY <1>4
  <2> HIDE DEF IInv
  <2>14. QED
    BY <1>1, <1>2, <2>1, <2>4, <2>5, <2>6, <2>7, <2>8, <2>9, <2>10, <2>11,
       <2>12, <2>13, AttemptInv
<1>10. QED
  BY <1>5, <1>7, <1>8, <1>9

(* The back-off is over: the next try of the path begins.                     *)
LEMMA RetryInv ==
  ASSUME IInv, NEW s \in Sockets, Retry(s)
  PROVE  IInv'
<1> DEFINE u == <<s[1], s[2] + 1>>
           re == [retry EXCEPT ![s] = FALSE]
<1> USE DEF IInv
<1>1. retry[s] /\ settled[s] /\ sock[s] \notin Active /\ ~Last(s)
  BY DEF Retry, TryStates
<1>2. u \in Sockets /\ Before(s, u) /\ u # s
  BY <1>1 DEF Sockets, Before, Last, Tries
<1>3. \A t \in Sockets : Before(t, u) => t = s \/ Before(t, s)
  BY DEF Sockets, Before
<1>4. \A t \in Sockets : Before(u, t) => Before(s, t)
  BY DEF Sockets, Before
<1>5. Attempt(u, sock, timer) /\ retry' = re /\ UNCHANGED <<settled, outcome>>
  BY DEF Retry
<1>6. /\ re \in [Sockets -> BOOLEAN] /\ ~re[s]
      /\ \A t \in Sockets : t # s => re[t] = retry[t]
  BY DEF TypeOK
<1> HIDE DEF u, re
<1>7. \A t \in Sockets : Before(s, t) => sock[t] = "none"
  BY <1>1 DEF Sequenced, Over
<1>8. sock[u] = "none" /\ ~settled[u] /\ ~re[u]
  BY <1>2, <1>6, <1>7 DEF TryStates
<1>9. sock[s] # "none"
  BY <1>1 DEF TryStates
<1>10. \A t \in Sockets : Before(t, u) =>
         settled[t] /\ ~re[t] /\ sock[t] \notin Active
  BY <1>1, <1>3, <1>6, <1>9 DEF Sequenced, Over
<1>11. \A t \in Sockets : Before(u, t) => sock[t] = "none"
  BY <1>4, <1>7
<1>12. \A t, v \in Sockets : Before(t, v) /\ sock[v] # "none" =>
         settled[t] /\ ~re[t] /\ sock[t] \notin Active
  BY <1>6 DEF Sequenced, Over
<1>13. \A t \in Sockets :
         /\ sock[t] = "none" => ~settled[t] /\ ~re[t]
         /\ re[t] => settled[t] /\ sock[t] \notin Active /\ ~Last(t)
         /\ settled[t] /\ sock[t] \in Active => sock[t] = "open"
         /\ sock[t] \in {"open", "late", "closing", "closed"} => settled[t]
  BY <1>6 DEF TryStates
<1>14. outcome # "rejected"
  BY <1>2, <1>8 DEF OutcomeHonest
<1>15. /\ sock \in [Sockets -> SocketStates] /\ timer \in [Sockets -> BOOLEAN]
       /\ settled \in [Sockets -> BOOLEAN]
       /\ outcome \in {"pending", "resolved", "rejected"}
       /\ \A t \in Sockets : timer[t] <=> sock[t] # "none" /\ ~settled[t]
  BY DEF TypeOK
<1>16. OutcomeHonest
  OBVIOUS
<1> HIDE DEF IInv
<1>17. QED
  BY <1>2, <1>5, <1>6, <1>8, <1>10, <1>11, <1>12, <1>13, <1>14, <1>15, <1>16,
     AttemptInv

(* Every step keeps the invariant.                                            *)
LEMMA StepInv == ASSUME IInv, [Next]_vars PROVE IInv'
<1>1. ASSUME NEW s \in Sockets, OnOpen(s) PROVE IInv'
  <2>1. CASE settled[s]
    <3>1. sock[s] = "late"
      BY <1>1, <2>1 DEF OnOpen, IInv, TryStates, Active
    <3>2. Ignored([sock EXCEPT ![s] = "closing"])
      BY <1>1, <2>1, <3>1 DEF OnOpen, Settled, IInv, TypeOK
    <3>3. QED
      BY <2>1, <3>1, <3>2, IgnoredInv
  <2>2. CASE ~settled[s]
    <3>1. sock[s] = "opening"
      BY <1>1, <2>2 DEF OnOpen, IInv, TryStates
    <3>2. FinishOk(s, [sock EXCEPT ![s] = "open"])
      BY <1>1, <2>2, <3>1 DEF OnOpen, Settled, IInv, TypeOK
    <3>3. QED
      BY <2>2, <3>1, <3>2, FinishOkInv
  <2>3. QED
    BY <2>1, <2>2
<1>2. ASSUME NEW s \in Sockets, OnClose(s) PROVE IInv'
  <2> DEFINE so == [sock EXCEPT ![s] = "closed"]
  <2>1. sock[s] \in {"failed", "closing", "late"}
    BY <1>2 DEF OnClose
  <2>2. CASE settled[s]
    BY <1>2, <2>1, <2>2, IgnoredInv DEF OnClose, Settled
  <2>3. CASE ~settled[s]
    <3>1. /\ so \in [Sockets -> SocketStates] /\ so[s] = "closed"
          /\ \A t \in Sockets : t # s => so[t] = sock[t]
      BY DEF IInv, TypeOK, SocketStates
    <3>2. FinishFailed(s, so)
      BY <1>2, <2>3 DEF OnClose, Settled
    <3> HIDE DEF so
    <3>3. QED
      BY <2>1, <2>3, <3>1, <3>2, FinishFailedInv
  <2>4. QED
    BY <2>2, <2>3
<1>3. ASSUME NEW s \in Sockets, Timeout(s) PROVE IInv'
  <2>1. ~settled[s] /\ sock[s] \notin {"none", "open"}
    BY <1>3 DEF Timeout, LimitPasses, IInv, TypeOK, TryStates
  <2>2. FinishFailed(s, sock)
    BY <1>3, <2>1 DEF Timeout, Settled
  <2>3. QED
    BY <2>1, <2>2, FinishFailedInv DEF IInv, TypeOK
<1>4. CASE UNCHANGED vars
  BY <1>4 DEF vars, IInv, TypeOK, Sequenced, Over, TryStates, OutcomeHonest
<1>5. QED
  BY <1>1, <1>2, <1>3, <1>4, NetworkInv, RetryInv DEF Next, Task

-----------------------------------------------------------------------------
(* The theorems *)

(* Every reachable state satisfies the inductive invariant. *)
THEOREM RelayInvariant == Spec => []IInv
<1>1. IInv /\ [Next]_vars => IInv'
  BY StepInv
<1>2. QED
  BY InitInv, <1>1, PTL DEF Spec

(* A try's timer runs exactly as long as the try (boot.js:671-675). *)
THEOREM RelayTypeOK == Spec => []TypeOK
<1>1. IInv => TypeOK
  BY DEF IInv
<1>2. QED
  BY <1>1, RelayInvariant, PTL

(* No two tries are ever under way, and no two sockets open (boot.js:672-683).*)
THEOREM RelayOneChain == Spec => []OneChain
<1>1. IInv => OneChain
  BY ChainFollows DEF IInv
<1>2. QED
  BY <1>1, RelayInvariant, PTL

(* connect() is given an open socket, or an error when all tries have failed  *)
(* (boot.js:594-598, 676-682).                                                *)
THEOREM RelayOutcomeHonest == Spec => []OutcomeHonest
<1>1. IInv => OutcomeHonest
  BY DEF IInv
<1>2. QED
  BY <1>1, RelayInvariant, PTL

-----------------------------------------------------------------------------
(* What RelaySettles rests on *)

(* A try that fails leaves a timer behind, or an error for connect().         *)
LEMMA FailureMovesOn ==
  ASSUME TypeOK, NEW s \in Sockets, NEW so, FinishFailed(s, so)
  PROVE  NeverStuck'
<1>1. CASE ~Last(s) /\ retry' = [retry EXCEPT ![s] = TRUE]
  BY <1>1 DEF NeverStuck, TypeOK
<1>2. CASE Attempt(<<"worker", 1>>, Close(s, so), ClearTimer(s))
  <2>1. <<"worker", 1>> \in Sockets
    BY DEF Sockets
  <2>2. timer'[<<"worker", 1>>]
    BY <1>2, <2>1 DEF Attempt, ClearTimer, TypeOK
  <2>3. QED
    BY <2>1, <2>2 DEF NeverStuck
<1>3. CASE outcome' = IF outcome = "pending" THEN "rejected" ELSE outcome
  BY <1>3 DEF NeverStuck
<1>4. QED
  BY <1>1, <1>2, <1>3 DEF FinishFailed

(* The try after a back-off has a timer of its own.                           *)
LEMMA RetryMovesOn ==
  ASSUME IInv, NEW s \in Sockets, Retry(s)
  PROVE  NeverStuck'
<1> DEFINE u == <<s[1], s[2] + 1>>
<1>1. u \in Sockets
  BY DEF IInv, TryStates, Retry, Sockets, Last, Tries
<1>2. timer' = [timer EXCEPT ![u] = TRUE]
  BY DEF Retry, Attempt
<1> HIDE DEF u
<1>3. QED
  BY <1>1, <1>2 DEF IInv, TypeOK, NeverStuck

(* While openRelay is awaited, a timer runs: the safety that its liveness     *)
(* rests on, for every number of tries (boot.js:667-687).                     *)
THEOREM RelayNeverStuck == Spec => []NeverStuck
<1>1. Init => NeverStuck
  <2>1. <<"direct", 1>> \in Sockets
    BY DEF Sockets
  <2>2. QED
    BY <2>1 DEF Init, NeverStuck
<1>2. IInv /\ NeverStuck /\ [Next]_vars => NeverStuck'
  <2> SUFFICES ASSUME IInv, NeverStuck, [Next]_vars
               PROVE  NeverStuck'
    OBVIOUS
  <2>1. CASE UNCHANGED <<timer, retry, outcome>>
    BY <2>1 DEF NeverStuck
  <2>2. ASSUME NEW s \in Sockets, Established(s) \/ Refused(s)
        PROVE  UNCHANGED <<timer, retry, outcome>>
    BY <2>2 DEF Established, Refused
  <2>3. ASSUME NEW s \in Sockets, OnOpen(s) PROVE NeverStuck'
    BY <2>1, <2>3 DEF OnOpen, Ignored, FinishOk, NeverStuck
  <2>4. ASSUME NEW s \in Sockets, OnClose(s) \/ Timeout(s) PROVE NeverStuck'
    BY <2>1, <2>4, FailureMovesOn DEF OnClose, Timeout, Ignored, IInv
  <2>5. ASSUME NEW s \in Sockets, Retry(s) PROVE NeverStuck'
    BY <2>5, RetryMovesOn
  <2>6. CASE UNCHANGED vars
    BY <2>1, <2>6 DEF vars
  <2>7. QED
    BY <2>1, <2>2, <2>3, <2>4, <2>5, <2>6 DEF Next, Task
<1>3. QED
  BY <1>1, <1>2, RelayInvariant, PTL DEF Spec
=============================================================================
