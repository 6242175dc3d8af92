------------------------------ MODULE PredictEcho ------------------------------
(* Predictive local echo (boot.js 34-101): printable keys are shown at once,  *)
(* and the echo the server sends for them is dropped from its output.         *)
(*                                                                            *)
(* Keystrokes travel to the codespace's pty and its output travels back, each *)
(* in order; output reaches predictOutput in chunks of any size.  The handler *)
(* looks at the whole chunk first and then goes through it byte by byte, one  *)
(* step each; nothing else runs until the chunk is used up (Idle).            *)
(*                                                                            *)
(* The Terminal (xterm.js) is modelled as far as one line editor moves it:    *)
(* rows of one width that wrap, a cursor that goes left and right in its row  *)
(* and on to a new row, never up, and characters one cell wide.               *)
EXTENDS Integers, Sequences

CONSTANTS
  Key,           \* printable characters
  Width,         \* columns of the Terminal
  EditPause,     \* pause after an editing key (400 ms)
  EchoPause,     \* pause after an unexpected byte (600 ms)
  PromptPause,   \* pause after a password prompt (10 s)
  MaxKeys,       \* bound: keystrokes of a session
  MaxOutput      \* bound: outputs of programs in a session

\* What takes the cursor to a row that is still blank: Enter, and, as the two
\* screens have no row in common, a change to or from the alternate screen.
Hard == {"nl", "altOn", "altOff"}
\* "\b", and "\b \b".
Moves == {"back", "rub"}
\* A password prompt is two symbols, so that a chunk may end inside it.
Output == Key \union Hard \union Moves \union {"pass", "word"}

\* "edit" is any key but a printable one and Enter.
Keystroke == Key \union {"enter", "edit"}

ASSUME KeyAssumption == Key \intersect (Hard \union Moves) = {}
ASSUME WidthAssumption == Width \in Nat \ {0}
ASSUME PauseAssumption ==
  /\ EditPause \in Nat \ {0} /\ EchoPause \in Nat \ {0} /\ PromptPause \in Nat
  /\ EditPause <= PromptPause /\ EchoPause <= PromptPause

VARIABLES
  io,       \* onData: "unbound", or bound to the "current" or a "disposed" Terminal
  on,       \* predict.on: the shell is live
  alt,      \* predict.alt
  pending,  \* predict.pending: predictions not confirmed yet
  pause,    \* what is left until predict.pausedUntil
  screen,   \* the Terminal
  truth,    \* history: the Terminal the server's output alone would have made
  keys,     \* keystrokes on their way to the pty
  wire,     \* output on its way to onData
  chunk,    \* what predictOutput has still to go through
  scan,     \* how: "first" byte, "more" after an echo, the "rest" as it is
  echo,     \* the pty echoes
  typed, printed

predict == <<io, on, alt, pending, pause>>
shown == <<screen, truth>>
reading == <<chunk, scan>>
pty == <<wire, echo, printed>>
vars == <<predict, shown, reading, pty, keys, typed>>

-----------------------------------------------------------------------------
(* The Terminal.  Positions are counted through the rows.                     *)
(*   home  = the first position of the cursor's row                           *)
(*   pos   = the cursor; home + Width when the row is full: the next          *)
(*           character will wrap                                              *)
(*   cells = the characters shown, <<position, character>>; other cells are   *)
(*           blank                                                            *)

Terminals ==
  {t \in [home : Nat, pos : Nat, cells : SUBSET (Nat \X Output)] :
     t.pos \in t.home..t.home + Width}

Blank == [home |-> 0, pos |-> 0, cells |-> {}]

Full(t) == t.pos = t.home + Width

\* The cells without those at the positions in S.
Without(cells, S) == {x \in cells : x[1] \notin S}

Write(t, c) ==
  [home  |-> IF Full(t) THEN t.pos ELSE t.home,
   pos   |-> t.pos + 1,
   cells |-> Without(t.cells, {t.pos}) \union {<<t.pos, c>>}]

NewRow(t) ==
  [home |-> t.home + Width, pos |-> t.home + Width, cells |-> t.cells]

\* Where "\b" starts from: the last column, when the row is full.
Stop(t) == IF Full(t) THEN t.pos - 1 ELSE t.pos

\* Where it leads, k times: it never goes back to the row above.
Left(t, k) == IF Stop(t) - k > t.home THEN Stop(t) - k ELSE t.home

Back(t) == [t EXCEPT !.pos = Left(t, 1)]

\* "\b \b" written k times, for k > 0: every step left blanks a cell, and
\* where there is no cell to the left the one at the cursor.
Erased(t, k) ==
  [home  |-> t.home,
   pos   |-> Left(t, k),
   cells |-> Without(t.cells, {Left(t, k)} \union Left(t, k)..Stop(t) - 1)]

Put(t, c) ==
  CASE c = "rub"     -> Erased(t, 1)
    [] c = "back"    -> Back(t)
    [] c \in Hard    -> NewRow(t)
    [] OTHER         -> Write(t, c)

Init ==
  /\ io = "unbound"
  /\ on = FALSE /\ alt = FALSE /\ pending = <<>> /\ pause = 0
  /\ screen = Blank /\ truth = Blank
  /\ keys = <<>> /\ wire = <<>> /\ chunk = <<>> /\ scan = "rest"
  /\ echo = TRUE /\ typed = 0 /\ printed = 0

-----------------------------------------------------------------------------
(* Mutant: predictions that turn out wrong are forgotten but left standing. *)
Forgotten == screen

\* predictClear(true): what the Terminal shows once the predictions are erased.
Cleared == IF pending = <<>> THEN screen ELSE Erased(screen, Len(pending))

-----------------------------------------------------------------------------
(* The page *)

Idle == chunk = <<>>

(* The promise's .then: the shell is live and prediction begins, or begins    *)
(* anew, when the promises of two attempts resolve over one Terminal.         *)
(* Terminal input is bound the first time only (ioBound).                     *)
GoLive ==
  /\ Idle
  /\ io' = IF io = "unbound" THEN "current" ELSE io
  /\ on' = TRUE /\ alt' = FALSE /\ pending' = <<>> /\ pause' = 0
  /\ UNCHANGED <<shown, reading, pty, keys, typed>>

(* ensureTerm for the next attempt: a new Terminal, predictReset, and a shell *)
(* that is yet to be opened.                                                  *)
EnsureTerm ==
  /\ Idle /\ on
  /\ io' = "disposed"
  /\ on' = FALSE /\ alt' = FALSE /\ pending' = <<>> /\ pause' = 0
  /\ screen' = Blank /\ truth' = Blank
  /\ keys' = <<>> /\ wire' = <<>> /\ chunk' = <<>> /\ scan' = "rest"
  /\ echo' = TRUE /\ typed' = 0 /\ printed' = 0

Tick ==
  /\ Idle /\ pause > 0
  /\ pause' = pause - 1
  /\ UNCHANGED <<io, on, alt, pending, shown, reading, pty, keys, typed>>

(* Mutant: predictions are made during a pause, too. *)
Restless == on /\ ~alt

\* The guard of predictInput.
Predicting == on /\ ~alt /\ pause = 0

(* Terminal input goes to the shell, and then to predictInput. *)
Send(k) ==
  /\ Idle /\ on /\ io = "current" /\ typed < MaxKeys
  /\ keys' = Append(keys, k)
  /\ typed' = typed + 1
  /\ UNCHANGED <<io, on, alt, truth, reading, pty>>

Type(c) ==
  /\ Send(c)
  /\ IF Predicting THEN /\ screen' = Write(screen, c)
                        /\ pending' = Append(pending, c)
                   ELSE UNCHANGED <<screen, pending>>
  /\ UNCHANGED pause

Enter == Send("enter") /\ UNCHANGED <<screen, pending, pause>>

(* Any other key: backspace, an arrow, a pasted text.  Predictions are left   *)
(* on the screen and no longer waited for.                                    *)
Edit ==
  /\ Send("edit")
  /\ IF Predicting THEN pending' = <<>> /\ pause' = EditPause
                   ELSE UNCHANGED <<pending, pause>>
  /\ UNCHANGED screen

Has(out, c) == \E i \in 1..Len(out) : out[i] = c

\* A prompt is recognised when it is whole, on the last line of the chunk.
Prompts(out) ==
  \E i \in 1..Len(out) - 1 :
    /\ out[i] = "pass" /\ out[i + 1] = "word"
    /\ \A j \in i..Len(out) : out[j] # "nl"

(* Mutant: a prompt pauses prediction, what is pending stays. *)
PauseOnly(out) == pending

\* What is still pending once the chunk's escape sequences have been looked at.
Kept(out) == IF Has(out, "altOn") \/ Prompts(out) THEN <<>> ELSE pending

(* onData brings a chunk: the first half of predictOutput. *)
OutputArrives(n) ==
  LET out == SubSeq(wire, 1, n)
  IN /\ Idle
     /\ wire' = SubSeq(wire, n + 1, Len(wire))
     /\ chunk' = out
     /\ IF on
        THEN /\ alt' = (~Has(out, "altOff") /\ (alt \/ Has(out, "altOn")))
             /\ pending' = Kept(out)
             /\ screen' = IF Prompts(out) /\ ~Has(out, "altOn") THEN Cleared
                                                               ELSE screen
             /\ pause' = IF Prompts(out) THEN PromptPause ELSE pause
        ELSE UNCHANGED <<alt, pending, screen, pause>>
     /\ scan' = IF pending' = <<>> THEN "rest" ELSE "first"
     /\ UNCHANGED <<io, on, truth, keys, echo, typed, printed>>

Expected == pending # <<>> /\ Head(chunk) = Head(pending)

\* One byte of the chunk is dealt with.
Consume(how) ==
  /\ chunk' = Tail(chunk)
  /\ scan' = how
  /\ truth' = Put(truth, Head(chunk))
  /\ UNCHANGED <<io, on, alt, pty, keys, typed>>

(* An echo of what is already shown. *)
Confirm ==
  /\ ~Idle /\ scan # "rest" /\ Expected
  /\ Consume("more")
  /\ pending' = Tail(pending)
  /\ UNCHANGED <<pause, screen>>

(* The chunk does not begin with the echo expected. *)
Diverge ==
  /\ ~Idle /\ scan = "first" /\ ~Expected
  /\ screen' = Cleared
  /\ pending' = <<>>
  /\ pause' = EchoPause
  /\ scan' = "rest"
  /\ UNCHANGED <<io, on, alt, truth, chunk, pty, keys, typed>>

(* What follows the echoes is written as it is, whatever is still pending.    *)
Show ==
  /\ ~Idle /\ (scan = "rest" \/ (scan = "more" /\ ~Expected))
  /\ Consume("rest")
  /\ screen' = Put(screen, Head(chunk))
  /\ UNCHANGED <<pending, pause>>

-----------------------------------------------------------------------------
(* The pty of the codespace *)

(* An editing key rubs out, moves the cursor left, or right by writing what   *)
(* stands there once more, or is pasted text, or does nothing.                *)
Echoes(k) ==
  CASE k = "enter" -> {<<"nl">>}
    [] k = "edit"  -> {<<>>} \union {<<c>> : c \in Key \union Moves}
    [] OTHER       -> {<<k>>}

Echo ==
  /\ Idle /\ keys # <<>>
  /\ keys' = Tail(keys)
  /\ \E e \in Echoes(Head(keys)) : wire' = IF echo THEN wire \o e ELSE wire
  /\ UNCHANGED <<predict, shown, reading, echo, typed, printed>>

Texts == {<<c>> : c \in Key \union Hard \union {"back"}} \union {<<"pass", "word">>}

(* A program writes, and may turn the echo off or on. *)
ProgramPrints(text) ==
  /\ Idle /\ printed < MaxOutput
  /\ wire' = wire \o text
  /\ printed' = printed + 1
  /\ echo' \in BOOLEAN
  /\ UNCHANGED <<predict, shown, reading, keys, typed>>

-----------------------------------------------------------------------------
Input == Enter \/ Edit \/ \E c \in Key : Type(c)
Scan == Confirm \/ Diverge \/ Show

Next ==
  \/ GoLive \/ EnsureTerm \/ Tick
  \/ Input
  \/ \E n \in 1..Len(wire) : OutputArrives(n)
  \/ Scan
  \/ Echo \/ \E text \in Texts : ProgramPrints(text)

Spec == Init /\ [][Next]_vars

-----------------------------------------------------------------------------
(* Properties *)

TypeFlags ==
  /\ io \in {"unbound", "current", "disposed"}
  /\ on \in BOOLEAN /\ alt \in BOOLEAN /\ echo \in BOOLEAN
  /\ scan \in {"first", "more", "rest"}
  /\ pause \in 0..PromptPause
  /\ typed \in Nat /\ printed \in Nat

TypeText ==
  /\ pending \in Seq(Key) /\ keys \in Seq(Keystroke)
  /\ screen \in Terminals /\ truth \in Terminals
  /\ wire \in Seq(Output) /\ chunk \in Seq(Output)

Waiting == pending # <<>> => on /\ ~alt /\ pause = 0

(* Types.  Predictions wait only in a live session, outside the alternate     *)
(* screen and outside any pause.                                              *)
TypeOK == TypeFlags /\ TypeText /\ Waiting

\* The predictions, where they stand.
Guesses == {<<truth.pos + i - 1, pending[i]>> : i \in 1..Len(pending)}

(* The Terminal shows what the server has sent, and the predictions written   *)
(* over it from the server's cursor on, some rows further if they wrapped.    *)
InSync ==
  /\ screen.pos = truth.pos + Len(pending)
  /\ screen.cells = Without(truth.cells, truth.pos..screen.pos - 1) \union Guesses
  /\ \E j \in 0..screen.pos :
       /\ screen.home = truth.home + j * Width
       /\ j = 0 \/ screen.home < screen.pos

\* Predictions are forgotten and left standing: an editing key, the alternate
\* screen, or the shell of another attempt.
GivesUp ==
  /\ pending # <<>> /\ pending' = <<>> /\ screen' = screen
  /\ Edit \/ Has(chunk', "altOn") \/ GoLive

\* A chunk goes on after an echo while predictions wait.
GoesOn == pending # <<>> /\ Show

\* Predictions are erased that reach the end of the server's row or beyond, or
\* that stand over characters of the server.
Wrapped == truth.pos + Len(pending) >= truth.home + Width
Midline == \E x \in truth.cells : x[1] \in truth.pos..screen.pos - 1
Misses == pending # <<>> /\ screen' = Cleared /\ (Wrapped \/ Midline)

\* The ways in which the step may be lost.
Strays == GivesUp \/ GoesOn \/ Misses

(* Suppressing echoes and erasing wrong predictions keeps the Terminal in     *)
(* step with the server, whatever is typed ahead, printed in between or       *)
(* prompted for, and however output is cut into chunks, unless it Strays:     *)
(* predictions are forgotten (boot.js 67, 76, 631), output goes on after an   *)
(* echo (88), or an erasure (48) meets the end of a row or a character that   *)
(* was there before.                                                          *)
SyncKept == [][InSync /\ ~InSync' => Strays]_vars

(* Within a session a pause is never cut short, so that the 10 s after a      *)
(* password prompt hold against any key, echo or output in between; only the  *)
(* shell of another attempt starts prediction anew.                           *)
PauseKept == [][on /\ on' /\ pause' < pause => Tick \/ GoLive]_vars

(* "any non-printable key or a scan diverging from prediction resyncs to the  *)
(* server's truth" (boot.js 41-42): when nothing is under way or waited for,  *)
(* the Terminal shows what the server sent.                                   *)
Resyncs ==
  Idle /\ keys = <<>> /\ wire = <<>> /\ pending = <<>> => screen = truth
=============================================================================
