--------------------------- MODULE PredictEchoProofs ---------------------------
(* Theorems about PredictEcho, for any keys, width, pauses, keystrokes and  *)
(* outputs.                                                                   *)
EXTENDS PredictEcho, SequenceTheorems, TLAPS

USE KeyAssumption, WidthAssumption, PauseAssumption

(* The scan of a chunk starts only when there is a chunk, and predictions to  *)
(* compare it with.                                                           *)
ScanBegins == scan = "first" => chunk # <<>> /\ pending # <<>>

(* The inductive invariant. *)
IInv == TypeOK /\ ScanBegins

-----------------------------------------------------------------------------
(* The Terminal *)

LEMMA TerminalFields ==
  ASSUME NEW t \in Terminals
  PROVE  /\ t.home \in Nat /\ t.pos \in Nat /\ t.pos >= t.home /\ t.pos <= t.home + Width
         /\ t.cells \in SUBSET (Nat \X Output)
         /\ t = [home |-> t.home, pos |-> t.pos, cells |-> t.cells]
BY DEF Terminals

LEMMA TerminalType ==
  ASSUME NEW h \in Nat, NEW n \in h..h + Width, NEW c \in SUBSET (Nat \X Output)
  PROVE  [home |-> h, pos |-> n, cells |-> c] \in Terminals
<1>1. n \in Nat
  OBVIOUS
<1>2. [home |-> h, pos |-> n, cells |-> c] \in
        [home : Nat, pos : Nat, cells : SUBSET (Nat \X Output)]
  BY <1>1
<1>3. QED
  BY <1>2 DEF Terminals

LEMMA WithoutType ==
  ASSUME NEW c \in SUBSET (Nat \X Output), NEW S
  PROVE  Without(c, S) \in SUBSET (Nat \X Output)
BY DEF Without

LEMMA BlankType == Blank \in Terminals
BY TerminalType DEF Blank

LEMMA WriteType ==
  ASSUME NEW t \in Terminals, NEW c \in Output
  PROVE  Write(t, c) \in Terminals
<1>1. /\ t.home \in Nat /\ t.pos \in Nat /\ t.pos >= t.home /\ t.pos <= t.home + Width
      /\ t.cells \in SUBSET (Nat \X Output)
  BY TerminalFields
<1> DEFINE h == IF Full(t) THEN t.pos ELSE t.home
           k == Without(t.cells, {t.pos}) \union {<<t.pos, c>>}
<1>2. h \in Nat /\ t.pos + 1 \in h..h + Width
  BY <1>1 DEF Full
<1>3. k \in SUBSET (Nat \X Output)
  BY <1>1, WithoutType
<1>4. Write(t, c) = [home |-> h, pos |-> t.pos + 1, cells |-> k]
  BY DEF Write
<1> HIDE DEF h, k
<1>5. QED
  BY <1>2, <1>3, <1>4, TerminalType

LEMMA NewRowType ==
  ASSUME NEW t \in Terminals
  PROVE  NewRow(t) \in Terminals
<1>1. t.home + Width \in Nat /\ t.cells \in SUBSET (Nat \X Output)
  BY TerminalFields
<1>2. QED
  BY <1>1, TerminalType DEF NewRow

LEMMA LeftInRow ==
  ASSUME NEW t \in Terminals, NEW k \in Nat
  PROVE  Left(t, k) \in t.home..t.home + Width
BY TerminalFields DEF Left, Stop, Full

LEMMA ErasedType ==
  ASSUME NEW t \in Terminals, NEW k \in Nat
  PROVE  Erased(t, k) \in Terminals
<1> DEFINE c == Without(t.cells, {Left(t, k)} \union Left(t, k)..Stop(t) - 1)
<1>1. t.home \in Nat /\ t.cells \in SUBSET (Nat \X Output)
  BY TerminalFields
<1>2. c \in SUBSET (Nat \X Output)
  BY <1>1, WithoutType
<1>3. Erased(t, k) = [home |-> t.home, pos |-> Left(t, k), cells |-> c]
  BY DEF Erased
<1> HIDE DEF c
<1>4. QED
  BY <1>1, <1>2, <1>3, LeftInRow, TerminalType

LEMMA BackType ==
  ASSUME NEW t \in Terminals
  PROVE  Back(t) \in Terminals
<1>1. Back(t) = [home |-> t.home, pos |-> Left(t, 1), cells |-> t.cells]
  BY TerminalFields DEF Back
<1>2. QED
  BY <1>1, TerminalFields, LeftInRow, TerminalType

LEMMA PutType ==
  ASSUME NEW t \in Terminals, NEW c \in Output
  PROVE  Put(t, c) \in Terminals
<1>1. Erased(t, 1) \in Terminals
  BY ErasedType
<1>2. QED
  BY <1>1, BackType, NewRowType, WriteType DEF Put

LEMMA KeyIsOutput == Key \subseteq Output /\ \A s \in Seq(Key) : s \in Seq(Output)
<1>1. Key \subseteq Output
  BY DEF Output
<1>2. QED
  BY <1>1, SeqMonotonic

-----------------------------------------------------------------------------
(* The invariant *)

LEMMA InvInit == Init => IInv
<1>1. <<>> \in Seq(Key) /\ <<>> \in Seq(Output) /\ <<>> \in Seq(Keystroke)
  BY EmptySeq
<1>2. Init => TypeFlags
  <2>1. Init => pause \in 0..PromptPause /\ typed \in Nat /\ printed \in Nat
    BY DEF Init
  <2>2. QED
    BY <2>1 DEF Init, TypeFlags
<1>3. Init => TypeText
  BY <1>1, BlankType DEF Init, TypeText
<1>4. Init => Waiting /\ ScanBegins
  BY DEF Init, Waiting, ScanBegins
<1>5. QED
  BY <1>2, <1>3, <1>4 DEF IInv, TypeOK

LEMMA ClearedType ==
  ASSUME TypeText
  PROVE  Cleared \in Terminals
<1>1. Len(pending) \in Nat
  BY LenProperties DEF TypeText
<1>2. QED
  BY <1>1, ErasedType DEF Cleared, TypeText

LEMMA PageStep ==
  ASSUME IInv, GoLive \/ EnsureTerm \/ Tick \/ Enter \/ Edit
  PROVE  IInv'
<1> USE DEF IInv, TypeOK, Idle
<1>1. <<>> \in Seq(Key) /\ <<>> \in Seq(Output) /\ <<>> \in Seq(Keystroke)
  BY EmptySeq
<1>2. \A k \in {"enter", "edit"} : Append(keys, k) \in Seq(Keystroke)
  BY AppendProperties DEF TypeFlags, TypeText, Keystroke
<1>3. CASE GoLive
  <2>1. TypeFlags' /\ TypeText'
    <3>1. TypeFlags'
      <4>1. pause' \in 0..PromptPause
        BY <1>3 DEF GoLive
      <4>2. QED
        BY <1>3, <4>1 DEF GoLive, TypeFlags, shown, reading, pty
    <3>2. TypeText'
      BY <1>1, <1>3 DEF GoLive, TypeText, shown, reading, pty
    <3>3. QED
      BY <3>1, <3>2
  <2>2. Waiting' /\ ScanBegins'
    BY <1>3 DEF GoLive, Waiting, ScanBegins, reading
  <2>3. QED
    BY <2>1, <2>2
<1>4. CASE EnsureTerm
  <2>1. TypeFlags' /\ TypeText'
    <3>1. TypeFlags'
      <4>1. pause' \in 0..PromptPause /\ typed' \in Nat /\ printed' \in Nat
        BY <1>4 DEF EnsureTerm
      <4>2. QED
        BY <1>4, <4>1 DEF EnsureTerm, TypeFlags
    <3>2. TypeText'
      BY <1>1, <1>4, BlankType DEF EnsureTerm, TypeText
    <3>3. QED
      BY <3>1, <3>2
  <2>2. Waiting' /\ ScanBegins'
    BY <1>4 DEF EnsureTerm, Waiting, ScanBegins
  <2>3. QED
    BY <2>1, <2>2
<1>5. CASE Tick
  <2>1. TypeFlags' /\ TypeText'
    <3>1. TypeFlags'
      BY <1>5 DEF Tick, TypeFlags, shown, reading, pty
    <3>2. TypeText'
      BY <1>5 DEF Tick, TypeText, shown, reading, pty
    <3>3. QED
      BY <3>1, <3>2
  <2>2. Waiting' /\ ScanBegins'
    BY <1>5 DEF Tick, TypeFlags, TypeText, Waiting, ScanBegins, reading
  <2>3. QED
    BY <2>1, <2>2
<1>6. CASE Enter
  <2>1. TypeFlags' /\ TypeText'
    <3>1. TypeFlags'
      BY <1>2, <1>6 DEF Enter, Send, TypeFlags, reading, pty
    <3>2. TypeText'
      BY <1>2, <1>6 DEF Enter, Send, TypeText, reading, pty
    <3>3. QED
      BY <3>1, <3>2
  <2>2. Waiting' /\ ScanBegins'
    BY <1>6 DEF Enter, Send, Waiting, ScanBegins, reading
  <2>3. QED
    BY <2>1, <2>2
<1>7. CASE Edit
  <2>1. TypeFlags' /\ TypeText'
    <3>1. TypeFlags'
      BY <1>7 DEF Edit, Send, TypeFlags, reading, pty
    <3>2. TypeText'
      BY <1>1, <1>2, <1>7 DEF Edit, Send, TypeText, reading, pty
    <3>3. QED
      BY <3>1, <3>2
  <2>2. Waiting' /\ ScanBegins'
    BY <1>7 DEF Edit, Send, Waiting, ScanBegins, reading
  <2>3. QED
    BY <2>1, <2>2
<1>8. QED
  BY <1>3, <1>4, <1>5, <1>6, <1>7

LEMMA TypeStep ==
  ASSUME IInv, NEW c \in Key, Type(c)
  PROVE  IInv'
<1> USE DEF IInv, TypeOK, Idle
<1>1. /\ Append(keys, c) \in Seq(Keystroke)
      /\ Append(pending, c) \in Seq(Key)
  BY AppendProperties DEF TypeFlags, TypeText, Keystroke
<1>2. Write(screen, c) \in Terminals
  BY KeyIsOutput, WriteType DEF TypeFlags, TypeText
<1>3. TypeFlags' /\ TypeText'
  <2>1. TypeFlags'
    BY <1>2 DEF Type, Send, TypeFlags, reading, pty
  <2>2. TypeText'
    BY <1>1, <1>2 DEF Type, Send, TypeText, reading, pty
  <2>3. QED
    BY <2>1, <2>2
<1>4. Waiting' /\ ScanBegins'
  BY DEF Type, Send, Predicting, Waiting, ScanBegins, reading
<1>5. QED
  BY <1>3, <1>4

LEMMA OutputStep ==
  ASSUME IInv, NEW n \in 1..Len(wire), OutputArrives(n)
  PROVE  IInv'
<1> DEFINE out == SubSeq(wire, 1, n)
           rest == SubSeq(wire, n + 1, Len(wire))
<1>1. TypeFlags /\ TypeText /\ Waiting /\ ScanBegins
  BY DEF IInv, TypeOK
<1>2. wire \in Seq(Output) /\ Len(wire) \in Nat
  BY <1>1, LenProperties DEF TypeFlags, TypeText
<1>3. out \in Seq(Output) /\ rest \in Seq(Output) /\ Len(out) = n
  <2>1. \A i \in 1..Len(wire) : wire[i] \in Output
    BY <1>2, ElementOfSeq
  <2>2. /\ \A i \in 1..n : wire[i] \in Output
        /\ \A i \in n + 1..Len(wire) : wire[i] \in Output
    BY <1>2, <2>1
  <2>3. QED
    BY <1>2, <2>2, SubSeqProperties
<1>4. out # <<>>
  BY <1>3, EmptySeq
<1>5. Cleared \in Terminals
  BY <1>1, ClearedType
<1>6. /\ wire' = rest /\ chunk' = out
      /\ scan' = IF pending' = <<>> THEN "rest" ELSE "first"
      /\ UNCHANGED <<io, on, truth, keys, echo, typed, printed>>
  BY DEF OutputArrives
<1>7. \/ ~on /\ UNCHANGED <<alt, pending, screen, pause>>
      \/ /\ on
         /\ alt' = (~Has(out, "altOff") /\ (alt \/ Has(out, "altOn")))
         /\ pending' = IF Has(out, "altOn") \/ Prompts(out) THEN <<>> ELSE pending
         /\ screen' \in {screen, Cleared}
         /\ pause' = IF Prompts(out) THEN PromptPause ELSE pause
  BY DEF OutputArrives, Kept
<1>8. alt' \in BOOLEAN
  BY <1>1, <1>7 DEF TypeFlags, TypeText
<1>9. pending' \in Seq(Key)
  <2>1. <<>> \in Seq(Key) /\ pending \in Seq(Key)
    BY <1>1, EmptySeq DEF TypeFlags, TypeText
  <2>2. pending' = <<>> \/ pending' = pending
    BY <1>7
  <2>3. QED
    BY <2>1, <2>2
<1>10. screen' \in Terminals /\ pause' \in 0..PromptPause
  BY <1>1, <1>5, <1>7 DEF TypeFlags, TypeText
<1>11. Waiting'
  BY <1>1, <1>6, <1>7 DEF Waiting
<1> HIDE DEF out, rest
<1>12. TypeFlags' /\ TypeText'
  <2>1. TypeFlags'
    BY <1>1, <1>3, <1>6, <1>8, <1>9, <1>10 DEF TypeFlags
  <2>2. TypeText'
    BY <1>1, <1>3, <1>6, <1>8, <1>9, <1>10 DEF TypeText
  <2>3. QED
    BY <2>1, <2>2
<1>13. ScanBegins'
  BY <1>4, <1>6 DEF ScanBegins
<1>14. QED
  BY <1>11, <1>12, <1>13 DEF IInv, TypeOK

LEMMA ConsumeStep ==
  ASSUME TypeText, ~Idle, NEW how \in {"more", "rest"}, Consume(how)
  PROVE  /\ Head(chunk) \in Output
         /\ chunk' \in Seq(Output) /\ truth' \in Terminals
         /\ scan' = how
         /\ UNCHANGED <<io, on, alt, wire, echo, printed, keys, typed>>
<1>1. Head(chunk) \in Output /\ Tail(chunk) \in Seq(Output)
  BY HeadTailProperties DEF TypeFlags, TypeText, Idle
<1>2. Put(truth, Head(chunk)) \in Terminals
  BY <1>1, PutType DEF TypeFlags, TypeText
<1>3. QED
  BY <1>1, <1>2 DEF Consume, pty

LEMMA ScanStep ==
  ASSUME IInv, Scan
  PROVE  IInv'
<1>1. TypeFlags /\ TypeText /\ Waiting /\ ScanBegins
  BY DEF IInv, TypeOK
<1>2. CASE Confirm
  <2>1. /\ pending # <<>> /\ pending' = Tail(pending)
        /\ UNCHANGED <<pause, screen>> /\ ~Idle /\ Consume("more")
    BY <1>2 DEF Confirm, Expected
  <2>2. pending' \in Seq(Key)
    BY <1>1, <2>1, HeadTailProperties DEF TypeFlags, TypeText
  <2>3. QED
    BY <1>1, <2>1, <2>2, ConsumeStep DEF IInv, TypeOK, TypeFlags, TypeText, Waiting, ScanBegins
<1>3. CASE Diverge
  <2>1. Cleared \in Terminals /\ <<>> \in Seq(Key)
    BY <1>1, ClearedType, EmptySeq
  <2>2. QED
    BY <1>1, <1>3, <2>1 DEF Diverge, IInv, TypeOK, TypeFlags, TypeText, Waiting, ScanBegins, pty
<1>4. CASE Show
  <2>1. /\ screen' = Put(screen, Head(chunk)) /\ UNCHANGED <<pending, pause>>
        /\ ~Idle /\ Consume("rest")
    BY <1>4 DEF Show
  <2>2. screen' \in Terminals
    BY <1>1, <2>1, ConsumeStep, PutType DEF TypeFlags, TypeText
  <2>3. QED
    BY <1>1, <2>1, <2>2, ConsumeStep DEF IInv, TypeOK, TypeFlags, TypeText, Waiting, ScanBegins
<1>5. QED
  BY <1>2, <1>3, <1>4 DEF Scan

LEMMA PtyStep ==
  ASSUME IInv, Echo \/ \E text \in Texts : ProgramPrints(text)
  PROVE  IInv'
<1> USE DEF IInv, TypeOK, TypeFlags, TypeText, Waiting, ScanBegins
<1>1. CASE Echo
  <2>1. Head(keys) \in Keystroke
        /\ Tail(keys) \in Seq(Keystroke)
    BY <1>1, HeadTailProperties DEF Echo
  <2>2. PICK e \in Echoes(Head(keys)) : wire' = IF echo THEN wire \o e ELSE wire
    BY <1>1 DEF Echo
  <2>3. e \in Seq(Output)
    <3>1. CASE e = <<>>
      BY <3>1
    <3>2. ASSUME NEW c \in Output, e = <<c>> PROVE e \in Seq(Output)
      BY <3>2
    <3>3. e = <<>> \/ \E c \in Output : e = <<c>>
      BY <2>1, <2>2 DEF Echoes, Keystroke, Output, Hard
    <3>4. QED
      BY <3>1, <3>2, <3>3
  <2>4. wire' \in Seq(Output)
    BY <2>2, <2>3, ConcatProperties
  <2>5. QED
    BY <1>1, <2>1, <2>4 DEF Echo, predict, shown, reading
<1>2. ASSUME NEW text \in Texts, ProgramPrints(text) PROVE IInv'
  <2>1. text \in Seq(Output)
    <3>1. CASE text = <<"pass", "word">>
      BY <3>1 DEF Output
    <3>2. ASSUME NEW c \in Key \union Hard \union {"back"}, text = <<c>> PROVE text \in Seq(Output)
      BY <3>2 DEF Output, Moves
    <3>3. QED
      BY <3>1, <3>2 DEF Texts
  <2>2. wire \o text \in Seq(Output)
    BY <2>1, ConcatProperties
  <2>3. QED
    BY <1>2, <2>2 DEF ProgramPrints, predict, shown, reading
<1>3. QED
  BY <1>1, <1>2

LEMMA InvStep ==
  ASSUME IInv, [Next]_vars
  PROVE  IInv'
<1>1. CASE UNCHANGED vars
  BY <1>1 DEF IInv, TypeOK, TypeFlags, TypeText, Waiting, ScanBegins, vars, predict, shown, reading, pty
<1>2. QED
  BY <1>1, PageStep, TypeStep, OutputStep, ScanStep, PtyStep DEF Next, Input

(* Predictions wait only in a live session, outside the alternate screen and  *)
(* outside any pause (boot.js:43-93).                                         *)
THEOREM PredictEchoInvariant == Spec => []IInv
BY InvInit, InvStep, PTL DEF Spec

(* The types, and when predictions may wait.                                  *)
THEOREM PredictEchoTypeOK == Spec => []TypeOK
BY PredictEchoInvariant, PTL DEF IInv

-----------------------------------------------------------------------------
(* Pauses *)

LEMMA PauseStep ==
  ASSUME IInv, [Next]_vars, on, on', pause' < pause
  PROVE  Tick \/ GoLive
<1>1. TypeFlags /\ Waiting /\ ScanBegins
  BY DEF IInv, TypeOK
<1>2. pause \in Nat /\ pause <= PromptPause
  BY <1>1 DEF TypeFlags
<1>3. pause' # pause
  BY <1>2
<1>4. ~EnsureTerm
  BY DEF EnsureTerm
<1>5. ~Input
  <2>1. ~Enter /\ ~\E c \in Key : Type(c)
    BY <1>3 DEF Enter, Type
  <2>2. ~Edit
    BY <1>2, <1>3 DEF Edit, Predicting
  <2>3. QED
    BY <2>1, <2>2 DEF Input
<1>6. \A n \in 1..Len(wire) : ~OutputArrives(n)
  BY <1>2 DEF OutputArrives
<1>7. ~Scan
  <2>1. ~Confirm /\ ~Show
    BY <1>3 DEF Confirm, Show
  <2>2. ~Diverge
    <3>1. scan = "first" => pause = 0
      BY <1>1 DEF Waiting, ScanBegins
    <3>2. QED
      BY <3>1 DEF Diverge
  <2>3. QED
    BY <2>1, <2>2 DEF Scan
<1>8. ~Echo /\ ~\E text \in Texts : ProgramPrints(text)
  BY <1>3 DEF Echo, ProgramPrints, predict
<1>9. ~UNCHANGED vars
  BY <1>3 DEF vars, predict
<1>10. QED
  BY <1>4, <1>5, <1>6, <1>7, <1>8, <1>9 DEF Next

(* Nothing but time ends a pause within a session, unless the shell of        *)
(* another attempt starts prediction anew (boot.js:58, 68, 81, 91, 631).      *)
THEOREM PredictEchoPauseKept == Spec => PauseKept
<1>1. IInv /\ [Next]_vars => [on /\ on' /\ pause' < pause => Tick \/ GoLive]_vars
  BY PauseStep
<1>2. QED
  BY <1>1, PredictEchoInvariant, PTL DEF Spec, PauseKept

-----------------------------------------------------------------------------
(* The Terminal and the server *)

-----------------------------------------------------------------------------
(* The Terminal and the server *)

LEMMA RowArithmetic ==
  \A j \in Nat : /\ j * Width \in Nat /\ j <= j * Width
                 /\ (j + 1) * Width = j * Width + Width
                 /\ j > 0 => /\ (j - 1) * Width = j * Width - Width
                             /\ Width <= j * Width
OBVIOUS

(* The rows of two Terminals: one is j rows ahead, with its cursor behind its *)
(* first position.                                                            *)
Ahead(s, t, j) == s.home = t.home + j * Width /\ (j = 0 \/ s.home < s.pos)

LEMMA WriteGetsAhead ==
  ASSUME NEW s \in Terminals, NEW t \in Terminals, NEW c,
         \E j \in 0..s.pos : Ahead(s, t, j)
  PROVE  \E j \in 0..Write(s, c).pos : Ahead(Write(s, c), t, j)
<1> DEFINE u == Write(s, c)
<1>1. PICK j \in 0..s.pos : Ahead(s, t, j)
  OBVIOUS
<1>2. /\ s.home \in Nat /\ s.pos \in Nat /\ t.home \in Nat
      /\ s.home <= s.pos /\ s.pos <= s.home + Width
  BY TerminalFields
<1>3. u.home = (IF s.pos = s.home + Width THEN s.pos ELSE s.home) /\ u.pos = s.pos + 1
  BY DEF Write, Full
<1> HIDE DEF u
<1>4. CASE s.pos = s.home + Width
  <2>1. (j + 1) * Width = j * Width + Width /\ j * Width \in Nat
    BY <1>2, RowArithmetic
  <2>2. s.home = t.home + j * Width
    BY <1>1 DEF Ahead
  <2>3. u.home = t.home + (j + 1) * Width
    BY <1>2, <1>3, <1>4, <2>1, <2>2
  <2>4. u.home < u.pos /\ j + 1 \in 0..u.pos
    BY <1>2, <1>3, <1>4
  <2>5. QED
    BY <2>3, <2>4 DEF Ahead, u
<1>5. CASE s.pos # s.home + Width
  <2>1. u.home = s.home /\ u.home < u.pos /\ j \in 0..u.pos
    BY <1>2, <1>3, <1>5
  <2>2. QED
    BY <1>1, <2>1 DEF Ahead, u
<1>6. QED
  BY <1>4, <1>5

LEMMA WriteCatchesUp ==
  ASSUME NEW s \in Terminals, NEW t \in Terminals, NEW c, t.pos < s.pos,
         \E j \in 0..s.pos : Ahead(s, t, j)
  PROVE  \E j \in 0..s.pos : Ahead(s, Write(t, c), j)
<1> DEFINE u == Write(t, c)
<1>1. PICK j \in 0..s.pos : Ahead(s, t, j)
  OBVIOUS
<1>2. /\ s.home \in Nat /\ s.pos \in Nat /\ t.home \in Nat /\ t.pos \in Nat
      /\ s.home <= s.pos /\ s.pos <= s.home + Width
  BY TerminalFields
<1>3. u.home = IF t.pos = t.home + Width THEN t.pos ELSE t.home
  BY DEF Write, Full
<1> HIDE DEF u
<1>4. CASE t.pos = t.home + Width
  <2>1. s.home = t.home + j * Width
    BY <1>1 DEF Ahead
  <2>2. j # 0
    <3> SUFFICES ASSUME j = 0 PROVE FALSE
      OBVIOUS
    <3>1. s.home = t.home
      BY <1>2, <2>1
    <3>2. QED
      BY <1>2, <1>4, <3>1
  <2>3. j - 1 \in 0..s.pos /\ s.home < s.pos
    BY <1>1, <1>2, <2>2 DEF Ahead
  <2>4. (j - 1) * Width = j * Width - Width /\ j * Width \in Nat
    BY <1>2, <2>2, RowArithmetic
  <2>5. s.home = u.home + (j - 1) * Width
    BY <1>2, <1>3, <1>4, <2>1, <2>4
  <2>6. QED
    BY <2>3, <2>5 DEF Ahead, u
<1>5. CASE t.pos # t.home + Width
  BY <1>1, <1>3, <1>5 DEF Ahead, u
<1>6. QED
  BY <1>4, <1>5

(* Up to the last column of its row a Terminal is in the same row.            *)
LEMMA SameRow ==
  ASSUME NEW s \in Terminals, NEW t \in Terminals,
         \E j \in 0..s.pos : Ahead(s, t, j),
         s.pos <= t.home + Width
  PROVE  s.home = t.home
<1>1. PICK j \in 0..s.pos : Ahead(s, t, j)
  OBVIOUS
<1>2. s.home \in Nat /\ s.pos \in Nat /\ t.home \in Nat
  BY TerminalFields
<1>3. CASE j = 0
  BY <1>1, <1>2, <1>3 DEF Ahead
<1>4. CASE j # 0
  <2>1. Width <= j * Width /\ j * Width \in Nat
    BY <1>2, <1>4, RowArithmetic
  <2>2. s.home = t.home + j * Width /\ s.home < s.pos
    BY <1>1, <1>4 DEF Ahead
  <2>3. QED
    BY <1>2, <2>1, <2>2
<1>5. QED
  BY <1>3, <1>4

-----------------------------------------------------------------------------
(* The predictions on the screen *)

At(n, p) == {<<n + i - 1, p[i]>> : i \in 1..Len(p)}

LEMMA AtPositions ==
  ASSUME NEW n \in Nat, NEW p \in Seq(Key), NEW x \in At(n, p)
  PROVE  x[1] \in n..n + Len(p) - 1
<1>1. PICK i \in 1..Len(p) : x = <<n + i - 1, p[i]>>
  BY DEF At
<1>2. Len(p) \in Nat /\ x[1] = n + i - 1
  BY <1>1, LenProperties
<1>3. QED
  BY <1>2

LEMMA AtAppend ==
  ASSUME NEW n \in Nat, NEW p \in Seq(Key), NEW c \in Key
  PROVE  At(n, Append(p, c)) = At(n, p) \union {<<n + Len(p), c>>}
<1> DEFINE q == Append(p, c)
<1>1. /\ Len(p) \in Nat /\ Len(q) = Len(p) + 1
      /\ \A i \in 1..Len(p) : q[i] = p[i]
      /\ q[Len(p) + 1] = c
  BY AppendProperties, LenProperties
<1> HIDE DEF q
<1>2. 1..Len(q) = 1..Len(p) \union {Len(p) + 1}
  BY <1>1
<1>3. n + (Len(p) + 1) - 1 = n + Len(p)
  BY <1>1
<1>4. At(n, q) = {<<n + i - 1, q[i]>> : i \in 1..Len(p)} \union {<<n + (Len(p) + 1) - 1, q[Len(p) + 1]>>}
  BY <1>2, Zenon DEF At
<1>5. {<<n + i - 1, q[i]>> : i \in 1..Len(p)} = At(n, p)
  BY <1>1, Zenon DEF At
<1>6. QED
  BY <1>1, <1>3, <1>4, <1>5 DEF q

LEMMA AtHead ==
  ASSUME NEW n \in Nat, NEW p \in Seq(Key), p # <<>>
  PROVE  At(n, p) = {<<n, Head(p)>>} \union At(n + 1, Tail(p))
<1> DEFINE q == Tail(p)
<1>1. /\ Len(p) \in Nat /\ Len(q) \in Nat /\ Len(p) = Len(q) + 1
      /\ p[1] = Head(p)
      /\ \A i \in 1..Len(q) : q[i] = p[i + 1]
  BY HeadTailProperties, LenProperties
<1> HIDE DEF q
<1>2. \A x : x \in At(n, p) => x \in {<<n, Head(p)>>} \union At(n + 1, q)
  <2> SUFFICES ASSUME NEW i \in 1..Len(p)
               PROVE  <<n + i - 1, p[i]>> \in {<<n, Head(p)>>} \union At(n + 1, q)
    BY DEF At
  <2>1. CASE i = 1
    BY <1>1, <2>1
  <2>2. CASE i # 1
    <3>1. i - 1 \in 1..Len(q) /\ (i - 1) + 1 = i /\ (n + 1) + (i - 1) - 1 = n + i - 1
      BY <1>1, <2>2
    <3>2. q[i - 1] = p[i]
      BY <1>1, <3>1
    <3>3. QED
      BY <3>1, <3>2 DEF At
  <2>3. QED
    BY <2>1, <2>2
<1>3. \A x : x \in {<<n, Head(p)>>} \union At(n + 1, q) => x \in At(n, p)
  <2>1. <<n, Head(p)>> \in At(n, p)
    <3>1. 1 \in 1..Len(p) /\ n + 1 - 1 = n
      BY <1>1
    <3>2. QED
      BY <1>1, <3>1 DEF At
  <2>2. ASSUME NEW i \in 1..Len(q) PROVE <<(n + 1) + i - 1, q[i]>> \in At(n, p)
    <3>1. i + 1 \in 1..Len(p) /\ n + (i + 1) - 1 = (n + 1) + i - 1
      BY <1>1
    <3>2. QED
      BY <1>1, <3>1 DEF At
  <2>3. QED
    BY <2>1, <2>2 DEF At
<1>4. QED
  BY <1>2, <1>3 DEF q

LEMMA NothingPending == TypeText /\ pending = <<>> => (InSync <=> screen = truth)
<1> SUFFICES ASSUME TypeText, pending = <<>>
             PROVE  InSync <=> screen = truth
  OBVIOUS
<1>1. /\ screen.pos \in Nat /\ truth.pos \in Nat /\ truth.home \in Nat
      /\ truth.pos <= truth.home + Width /\ Len(pending) = 0
      /\ screen = [home |-> screen.home, pos |-> screen.pos, cells |-> screen.cells]
      /\ truth = [home |-> truth.home, pos |-> truth.pos, cells |-> truth.cells]
  BY TerminalFields DEF TypeText
<1>2. Guesses = {}
  BY <1>1 DEF Guesses
<1>3. screen.pos = truth.pos => Without(truth.cells, truth.pos..screen.pos - 1) = truth.cells
  BY <1>1 DEF Without
<1>4. ASSUME InSync PROVE screen = truth
  <2>1. screen.pos = truth.pos
    BY <1>1, <1>4 DEF InSync
  <2>2. screen.cells = truth.cells
    BY <1>2, <1>3, <1>4, <2>1 DEF InSync
  <2>3. screen.home = truth.home
    <3>1. \E j \in 0..screen.pos : Ahead(screen, truth, j)
      BY <1>4 DEF InSync, Ahead
    <3>2. screen.pos <= truth.home + Width
      BY <1>1, <2>1
    <3>3. QED
      BY <3>1, <3>2, SameRow DEF TypeText
  <2>4. QED
    BY <1>1, <2>1, <2>2, <2>3
<1>5. ASSUME screen = truth PROVE InSync
  <2>1. screen.pos = truth.pos + Len(pending)
    BY <1>1, <1>5
  <2>2. screen.cells = Without(truth.cells, truth.pos..screen.pos - 1) \union Guesses
    BY <1>2, <1>3, <1>5
  <2>3. 0 \in 0..screen.pos /\ screen.home = truth.home + 0 * Width
    <3>1. 0 * Width = 0
      OBVIOUS
    <3>2. QED
      BY <1>1, <1>5, <3>1
  <2>4. QED
    BY <2>1, <2>2, <2>3 DEF InSync
<1>6. QED
  BY <1>4, <1>5

LEMMA NothingPendingNext ==
  TypeText' /\ pending' = <<>> => (InSync' <=> screen' = truth')
<1>1. (TypeText /\ pending = <<>> => (InSync <=> screen = truth))'
  BY NothingPending, PTL
<1>2. QED
  BY <1>1

(* Erasing predictions that stay in the row of the server's cursor and stand  *)
(* over blank cells leaves what the server has sent.                          *)
LEMMA ClearedIsTruth ==
  ASSUME TypeText, InSync, pending = <<>> \/ (~Wrapped /\ ~Midline)
  PROVE  Cleared = truth
<1>1. CASE pending = <<>>
  BY <1>1, NothingPending DEF Cleared
<1>2. CASE pending # <<>>
  <2> DEFINE k == Len(pending)
  <2>1. /\ screen.home \in Nat /\ screen.pos \in Nat /\ truth.home \in Nat /\ truth.pos \in Nat
        /\ truth.home <= truth.pos
        /\ truth = [home |-> truth.home, pos |-> truth.pos, cells |-> truth.cells]
        /\ truth.cells \in SUBSET (Nat \X Output)
    BY TerminalFields DEF TypeText
  <2>2. k \in Nat /\ k > 0
    BY <1>2, LenProperties, EmptySeq DEF TypeText
  <2>3. screen.pos = truth.pos + k /\ screen.pos < truth.home + Width
    BY <1>2, <2>1, <2>2 DEF InSync, Wrapped
  <2>4. screen.home = truth.home
    <3>1. \E j \in 0..screen.pos : Ahead(screen, truth, j)
      BY DEF InSync, Ahead
    <3>2. screen.pos <= truth.home + Width
      BY <2>1, <2>3
    <3>3. QED
      BY <3>1, <3>2, SameRow DEF TypeText
  <2>5. Stop(screen) = screen.pos
    BY <2>1, <2>3, <2>4 DEF Stop, Full
  <2>6. Left(screen, k) = truth.pos
    BY <2>1, <2>2, <2>3, <2>4, <2>5 DEF Left
  <2> DEFINE S == {truth.pos} \union truth.pos..screen.pos - 1
  <2>7. S = truth.pos..screen.pos - 1
    BY <2>1, <2>2, <2>3
  <2>8. Without(screen.cells, S) = truth.cells
    <3>1. screen.cells = Without(truth.cells, S) \union Guesses
      BY <2>7 DEF InSync
    <3>2. \A x \in Guesses : x[1] \in S
      <4>1. Guesses = At(truth.pos, pending)
        BY DEF Guesses, At
      <4>2. QED
        BY <2>1, <2>3, <2>7, <4>1, AtPositions DEF TypeText
    <3>3. \A x \in truth.cells : x[1] \notin S
      BY <1>2, <2>7 DEF Midline
    <3> HIDE DEF S
    <3>4. QED
      BY <3>1, <3>2, <3>3 DEF Without
  <2>9. Cleared = [home |-> screen.home, pos |-> Left(screen, k),
                   cells |-> Without(screen.cells, {Left(screen, k)} \union Left(screen, k)..Stop(screen) - 1)]
    BY <1>2 DEF Cleared, Erased
  <2>10. QED
    BY <2>1, <2>4, <2>5, <2>6, <2>8, <2>9
<1>3. QED
  BY <1>1, <1>2

-----------------------------------------------------------------------------
(* The steps *)

LEMMA SyncAtKeyboard ==
  ASSUME TypeText, InSync, NEW c \in Key, Type(c)
  PROVE  InSync'
<1>1. CASE Predicting
  <2>1. screen' = Write(screen, c) /\ pending' = Append(pending, c) /\ truth' = truth
    BY <1>1 DEF Type, Send
  <2>2. /\ screen.home \in Nat /\ screen.pos \in Nat /\ truth.pos \in Nat
        /\ Len(pending) \in Nat /\ Len(pending') = Len(pending) + 1
        /\ screen.pos = truth.pos + Len(pending)
    BY <2>1, TerminalFields, LenProperties, AppendProperties DEF TypeText, InSync
  <2>3. screen'.pos = screen.pos + 1
    BY <2>1 DEF Write
  <2>4. screen'.cells = Without(truth.cells, truth.pos..screen'.pos - 1) \union Guesses'
    <3>1. screen'.cells = Without(screen.cells, {screen.pos}) \union {<<screen.pos, c>>}
      BY <2>1 DEF Write
    <3>2. Guesses = At(truth.pos, pending) /\ Guesses' = At(truth.pos, Append(pending, c))
      BY <2>1 DEF Guesses, At
    <3>3. Guesses' = Guesses \union {<<screen.pos, c>>}
      BY <2>2, <3>2, AtAppend DEF TypeText
    <3>4. \A x \in Guesses : x[1] \in truth.pos..screen.pos - 1
      BY <2>2, <3>2, AtPositions DEF TypeText
    <3>5. \A x \in Guesses : x[1] \notin {screen.pos}
      BY <2>2, <3>4
    <3>6. truth.pos..screen'.pos - 1 = truth.pos..screen.pos - 1 \union {screen.pos}
      BY <2>2, <2>3
    <3>7. screen.cells = Without(truth.cells, truth.pos..screen.pos - 1) \union Guesses
      BY DEF InSync
    <3>8. QED
      BY <3>1, <3>3, <3>5, <3>6, <3>7, Zenon DEF Without
  <2>5. \E j \in 0..screen'.pos : Ahead(screen', truth', j)
    <3>1. \E j \in 0..screen.pos : Ahead(screen, truth, j)
      BY DEF InSync, Ahead
    <3>2. QED
      BY <2>1, <3>1, WriteGetsAhead DEF TypeText
  <2>6. truth'.pos = truth.pos
    BY <2>1
  <2>7. screen'.pos = truth'.pos + Len(pending')
    <3>1. screen.pos + 1 = truth.pos + (Len(pending) + 1)
      BY <2>2
    <3>2. QED
      BY <2>2, <2>3, <2>6, <3>1
  <2>8. truth' = truth
    BY <2>1
  <2>9. screen'.cells = Without(truth'.cells, truth'.pos..screen'.pos - 1) \union Guesses'
    BY <2>4, <2>8
  <2>10. QED
    BY <2>5, <2>7, <2>9 DEF InSync, Ahead
<1>2. CASE ~Predicting
  BY <1>2 DEF Type, Send, InSync, Guesses
<1>3. QED
  BY <1>1, <1>2

LEMMA SyncUnchanged ==
  ASSUME InSync, UNCHANGED <<screen, truth, pending>>
  PROVE  InSync'
BY DEF InSync, Guesses

(* Erasing keeps the step, unless it misses.                                  *)
LEMMA SyncAtErasure ==
  ASSUME TypeText, TypeText', InSync,
         screen' = Cleared, pending' = <<>>, truth' = truth
  PROVE  InSync' \/ Misses
<1>1. CASE pending = <<>> \/ (~Wrapped /\ ~Midline)
  <2>1. screen' = truth'
    BY <1>1, ClearedIsTruth
  <2>2. QED
    BY <2>1, NothingPendingNext
<1>2. CASE pending # <<>> /\ (Wrapped \/ Midline)
  BY <1>2 DEF Misses
<1>3. QED
  BY <1>1, <1>2

LEMMA SyncAtOutput ==
  ASSUME TypeText, TypeText', InSync, NEW n \in 1..Len(wire), OutputArrives(n)
  PROVE  InSync' \/ Strays
<1> DEFINE out == SubSeq(wire, 1, n)
<1>1. chunk' = out /\ truth' = truth
  BY DEF OutputArrives
<1>2. CASE ~on \/ (~Has(out, "altOn") /\ ~Prompts(out))
  <2>1. screen' = screen /\ pending' = pending
    BY <1>2 DEF OutputArrives, Kept
  <2>2. QED
    BY <1>1, <2>1, SyncUnchanged
<1>3. CASE on /\ Has(out, "altOn")
  <2>1. screen' = screen /\ pending' = <<>>
    BY <1>3 DEF OutputArrives, Kept
  <2>2. CASE pending = <<>>
    BY <1>1, <2>1, <2>2, SyncUnchanged
  <2>3. CASE pending # <<>>
    BY <1>1, <1>3, <2>1, <2>3 DEF Strays, GivesUp
  <2>4. QED
    BY <2>2, <2>3
<1>4. CASE on /\ ~Has(out, "altOn") /\ Prompts(out)
  <2>1. screen' = Cleared /\ pending' = <<>>
    BY <1>4 DEF OutputArrives, Kept
  <2>2. QED
    BY <1>1, <2>1, SyncAtErasure DEF Strays
<1>5. QED
  BY <1>2, <1>3, <1>4

LEMMA SyncAtEcho ==
  ASSUME TypeText, InSync, Confirm
  PROVE  InSync'
<1> DEFINE h == Head(pending)
           p == Tail(pending)
<1>1. /\ pending # <<>> /\ Head(chunk) = h /\ pending' = p
      /\ screen' = screen /\ truth' = Put(truth, h)
  BY DEF Confirm, Expected, Consume
<1>2. h \in Key /\ p \in Seq(Key) /\ Len(pending) = Len(p) + 1 /\ Len(p) \in Nat
  BY <1>1, HeadTailProperties, LenProperties DEF TypeText
<1>3. truth' = Write(truth, h)
  BY <1>1, <1>2 DEF Put, Moves
<1>4. screen.pos = truth.pos + Len(p) + 1 /\ truth.pos \in Nat
  BY <1>2, TerminalFields DEF TypeText, InSync
<1>5. truth'.pos = truth.pos + 1
  BY <1>3 DEF Write
<1>6. screen'.pos = truth'.pos + Len(pending')
  BY <1>1, <1>2, <1>4, <1>5
<1>7. screen'.cells = Without(truth'.cells, truth'.pos..screen'.pos - 1) \union Guesses'
  <2>1. screen.cells = Without(truth.cells, truth.pos..screen.pos - 1) \union Guesses
    BY DEF InSync
  <2>2. truth'.cells = Without(truth.cells, {truth.pos}) \union {<<truth.pos, h>>}
    BY <1>3 DEF Write
  <2>3. Guesses = At(truth.pos, pending) /\ Guesses' = At(truth.pos + 1, p)
    BY <1>1, <1>5 DEF Guesses, At
  <2>4. Guesses = {<<truth.pos, h>>} \union Guesses'
    BY <1>1, <1>4, <2>3, AtHead DEF TypeText
  <2>5. truth.pos..screen.pos - 1 = {truth.pos} \union truth'.pos..screen'.pos - 1
    BY <1>1, <1>2, <1>4, <1>5
  <2>6. truth.pos \notin truth'.pos..screen'.pos - 1
    BY <1>4, <1>5
  <2> HIDE DEF h, p
  <2>7. <<truth.pos, h>>[1] = truth.pos
    OBVIOUS
  <2>8. QED
    BY <1>1, <2>1, <2>2, <2>4, <2>5, <2>6, <2>7, Zenon DEF Without
<1>8. \E j \in 0..screen'.pos : Ahead(screen', truth', j)
  <2>1. \E j \in 0..screen.pos : Ahead(screen, truth, j)
    BY DEF InSync, Ahead
  <2>2. truth.pos < screen.pos
    BY <1>2, <1>4
  <2>3. QED
    BY <1>1, <1>3, <2>1, <2>2, WriteCatchesUp DEF TypeText
<1>9. QED
  BY <1>6, <1>7, <1>8 DEF InSync, Ahead

LEMMA SyncAtScan ==
  ASSUME TypeText, TypeText', InSync, Scan
  PROVE  InSync' \/ Strays
<1>1. CASE Confirm
  BY <1>1, SyncAtEcho
<1>2. CASE Diverge
  BY <1>2, SyncAtErasure DEF Diverge, Strays
<1>3. CASE Show /\ pending = <<>>
  <2>1. /\ screen' = Put(screen, Head(chunk)) /\ truth' = Put(truth, Head(chunk))
        /\ pending' = <<>>
    BY <1>3 DEF Show, Consume
  <2>2. screen' = truth'
    BY <1>3, <2>1, NothingPending
  <2>3. QED
    BY <2>1, <2>2, NothingPendingNext
<1>4. CASE Show /\ pending # <<>>
  BY <1>4 DEF Strays, GoesOn
<1>5. QED
  BY <1>1, <1>2, <1>3, <1>4 DEF Scan

LEMMA SyncStep ==
  ASSUME IInv, InSync, [Next]_vars
  PROVE  InSync' \/ Strays
<1>1. TypeText /\ TypeText'
  BY InvStep DEF IInv, TypeOK
<1>2. CASE GoLive \/ Edit
  <2>1. UNCHANGED <<screen, truth>> /\ pending' \in {<<>>, pending}
    BY <1>2 DEF GoLive, Edit, Send, shown
  <2>2. CASE pending' = pending
    BY <2>1, <2>2, SyncUnchanged
  <2>3. CASE pending' = <<>> /\ pending # <<>>
    BY <1>2, <2>1, <2>3 DEF Strays, GivesUp
  <2>4. QED
    BY <2>1, <2>2, <2>3
<1>3. CASE EnsureTerm
  <2>1. screen' = truth' /\ pending' = <<>>
    BY <1>3 DEF EnsureTerm
  <2>2. QED
    BY <1>1, <2>1, NothingPendingNext
<1>4. CASE Tick \/ Enter \/ Echo \/ (\E text \in Texts : ProgramPrints(text)) \/ UNCHANGED vars
  <2>1. UNCHANGED <<screen, truth, pending>>
    BY <1>4 DEF Tick, Enter, Send, Echo, ProgramPrints, vars, shown, predict
  <2>2. QED
    BY <2>1, SyncUnchanged
<1>5. QED
  BY <1>1, <1>2, <1>3, <1>4, SyncAtKeyboard, SyncAtOutput, SyncAtScan
     DEF Next, Input

(* On a Terminal of one width, for characters of one cell and a cursor that   *)
(* never goes up, nothing loses the step with the server but predictions that *)
(* are forgotten, output that goes on after an echo, and an erasure that      *)
(* meets the end of a row or a character that was there before (boot.js:48,   *)
(* 57-93, 631).                                                               *)
THEOREM PredictEchoSyncKept == Spec => SyncKept
<1>1. IInv /\ [Next]_vars => [InSync /\ ~InSync' => Strays]_vars
  BY SyncStep
<1>2. QED
  BY <1>1, PredictEchoInvariant, PTL DEF Spec, SyncKept

(* A session without any of those always shows what the server has sent and   *)
(* the predictions over it, and nothing but what the server has sent once no  *)
(* prediction waits (boot.js:41-42): the comment's promise holds of a session *)
(* in which nobody edits a line ahead of its echo, no full screen program     *)
(* starts over predictions, no output follows an echo in its chunk, no        *)
(* prediction that fails was made in the middle of a line or reaches its end, *)
(* and no second attempt takes the Terminal over.                             *)
THEOREM PredictEchoInSync == Spec /\ [][~Strays]_vars => [](InSync /\ Resyncs)
<1>1. Init => InSync
  <2>1. Init => TypeText
    BY InvInit DEF IInv, TypeOK
  <2>2. Init => pending = <<>> /\ screen = truth
    BY DEF Init
  <2>3. QED
    BY <2>1, <2>2, NothingPending
<1>2. IInv /\ InSync /\ [Next]_vars /\ [~Strays]_vars => InSync'
  <2>1. CASE UNCHANGED vars
    <3>1. UNCHANGED <<screen, truth, pending>>
      BY <2>1 DEF vars, predict, shown
    <3>2. QED
      BY <3>1, SyncUnchanged
  <2>2. QED
    BY <2>1, SyncStep
<1>3. IInv /\ InSync => Resyncs
  BY NothingPending DEF IInv, TypeOK, Resyncs
<1>4. QED
  BY <1>1, <1>2, <1>3, PredictEchoInvariant, PTL DEF Spec
=============================================================================
