-------------------------------- MODULE Bridge --------------------------------
(* bridge.Conn (bridge.go 19-97): the net.Conn the Go libraries run on.  JS   *)
(* pushes what the socket receives; goroutines read, write and close.         *)
(* A method holds the mutex throughout, with two exceptions: Read gives it up *)
(* in cond.Wait and has to look again when it is woken, and Write only looks  *)
(* at `closed` under it and sends without it.                                 *)
EXTENDS Integers, Sequences

CONSTANTS
  Byte,      \* byte values
  Chunks,    \* what one WebSocket message may bring
  Readers,   \* goroutines that read
  ReadSize,  \* length of a reader's slice
  MaxBytes   \* bound: bytes arriving in one behaviour

ASSUME ChunksAssumption == Chunks \subseteq Seq(Byte)
ASSUME ReadSizeAssumption == ReadSize \in Nat \ {0}

VARIABLES
  buf,       \* bytes pushed and not yet read
  closed,
  err,       \* the error readers get at the end: "none" stands for io.EOF
  reader,    \* [Readers -> "idle", "reading", "waiting" or "ended"]
  arrived,   \* history: the bytes pushed while the conn was open
  delivered, \* history: the bytes handed to readers
  sending,   \* writers that found the conn open and have not sent yet
  sunk,      \* history: how many writes the JS sink was handed
  refused    \* history: a writer was told that the conn is closed

writeVars == <<sending, sunk, refused>>
vars == <<buf, closed, err, reader, arrived, delivered, writeVars>>

Init ==
  /\ buf = <<>> /\ closed = FALSE /\ err = "none"
  /\ reader = [r \in Readers |-> "idle"]
  /\ arrived = <<>> /\ delivered = <<>>
  /\ sending = 0 /\ sunk = 0 /\ refused = FALSE

-----------------------------------------------------------------------------
(* Mutant: cond.Signal, which wakes one reader at most. *)
Signal ==
  IF \E r \in Readers : reader[r] = "waiting"
  THEN \E r \in Readers : /\ reader[r] = "waiting"
                          /\ reader' = [reader EXCEPT ![r] = "reading"]
  ELSE UNCHANGED reader

\* cond.Broadcast: every waiting reader will look again.
Broadcast ==
  reader' = [r \in Readers |->
               IF reader[r] = "waiting" THEN "reading" ELSE reader[r]]

(* Mutant: what arrives replaces what has not been read yet. *)
Overwrite(chunk) == buf' = chunk

AppendChunk(chunk) == buf' = buf \o chunk

(* Push: the socket's message handler; ignored once closed. *)
Push(chunk) ==
  /\ Len(arrived) + Len(chunk) <= MaxBytes
  /\ IF closed THEN UNCHANGED <<buf, reader, arrived>>
               ELSE /\ AppendChunk(chunk) /\ Broadcast
                    /\ arrived' = arrived \o chunk
  /\ UNCHANGED <<closed, err, delivered, writeVars>>

FirstClose == ~closed

(* Mutant: the reason is recorded, the close is not. *)
ErrOnly(e) == closed' = closed /\ err' = e

MarkClosed(e) == closed' = TRUE /\ err' = e

(* CloseWithError(e), and Close, which leaves err as it is. *)
CloseWith(e) ==
  /\ IF FirstClose THEN MarkClosed(e) /\ Broadcast
                   ELSE UNCHANGED <<closed, err, reader>>
  /\ UNCHANGED <<buf, arrived, delivered, writeVars>>

(* Mutant: readers are turned away as soon as the conn is closed. *)
ClosedFirst == closed

Drained == closed /\ buf = <<>>

ReadCall(r) ==
  /\ reader[r] = "idle"
  /\ reader' = [reader EXCEPT ![r] = "reading"]
  /\ UNCHANGED <<buf, closed, err, arrived, delivered, writeVars>>

(* Read finds nothing: cond.Wait gives up the mutex. *)
ReadWaits(r) ==
  /\ reader[r] = "reading" /\ buf = <<>> /\ ~closed
  /\ reader' = [reader EXCEPT ![r] = "waiting"]
  /\ UNCHANGED <<buf, closed, err, arrived, delivered, writeVars>>

Count == IF Len(buf) < ReadSize THEN Len(buf) ELSE ReadSize

(* Read copies what fits. *)
ReadData(r) ==
  /\ reader[r] = "reading" /\ buf # <<>>
  /\ delivered' = delivered \o SubSeq(buf, 1, Count)
  /\ buf' = SubSeq(buf, Count + 1, Len(buf))
  /\ reader' = [reader EXCEPT ![r] = "idle"]
  /\ UNCHANGED <<closed, err, arrived, writeVars>>

(* Read returns err or io.EOF; the libraries stop reading then. *)
ReadEnd(r) ==
  /\ reader[r] = "reading" /\ Drained
  /\ reader' = [reader EXCEPT ![r] = "ended"]
  /\ UNCHANGED <<buf, closed, err, arrived, delivered, writeVars>>

(* Write looks whether the conn is closed, and gives the mutex back. *)
WriteChecks ==
  /\ sending + sunk < MaxBytes
  /\ IF closed THEN refused' = TRUE /\ UNCHANGED sending
               ELSE sending' = sending + 1 /\ UNCHANGED refused
  /\ UNCHANGED <<buf, closed, err, reader, arrived, delivered, sunk>>

(* Write hands the bytes to the sink; the conn may be closed by now. *)
WriteSinks ==
  /\ sending > 0
  /\ sending' = sending - 1
  /\ sunk' = sunk + 1
  /\ UNCHANGED <<buf, closed, err, reader, arrived, delivered, refused>>

Write == WriteChecks \/ WriteSinks

Read(r) == ReadCall(r) \/ ReadWaits(r) \/ ReadData(r) \/ ReadEnd(r)

Next ==
  \/ \E chunk \in Chunks : Push(chunk)
  \/ \E e \in {"none", "dropped"} : CloseWith(e)
  \/ \E r \in Readers : Read(r)
  \/ Write

(* A library that uses the conn keeps reading until the end. *)
Fairness == \A r \in Readers : WF_vars(Read(r))

Spec == Init /\ [][Next]_vars /\ Fairness

-----------------------------------------------------------------------------
(* Properties *)

TypeConn ==
  /\ buf \in Seq(Byte) /\ arrived \in Seq(Byte) /\ delivered \in Seq(Byte)
  /\ closed \in BOOLEAN /\ err \in {"none", "dropped"}
  /\ err # "none" => closed
  /\ reader \in [Readers -> {"idle", "reading", "waiting", "ended"}]

TypeWrites ==
  /\ sending \in Nat /\ sunk \in Nat
  /\ refused \in BOOLEAN
  /\ refused => closed

(* Types; readers get an error, and writers are refused, only once closed.    *)
TypeOK == TypeConn /\ TypeWrites

(* Every byte that arrived before the close is read once, in order, or is     *)
(* still buffered.                                                            *)
NoByteLost == delivered \o buf = arrived

(* No reader sleeps while there is something for it: bytes, or the end.       *)
NoSleeper ==
  \A r \in Readers : reader[r] = "waiting" => buf = <<>> /\ ~closed

(* A reader is told of the end only when all bytes have been read.            *)
EndAfterData == (\E r \in Readers : reader[r] = "ended") => closed /\ buf = <<>>

(* The first close is final, its reason included.                             *)
CloseIsFinal == [][closed => closed' /\ err' = err]_vars

Ended == \E r \in Readers : reader[r] = "ended"

Stream == INSTANCE ByteStream
            WITH queue <- buf, open <- ~closed, ended <- Ended

(* The conn implements the byte stream the Go libraries take it for.          *)
ImplementsStream == Stream!Spec

(* Whatever arrived is read in the end.                                       *)
AllDelivered ==
  \A n \in 1..MaxBytes : Len(arrived) >= n ~> Len(delivered) >= n
=============================================================================
