----------------------------- MODULE BridgeProofs -----------------------------
(* Safety of bridge.Conn, and that it implements ByteStream, for every byte   *)
(* type, chunk set, number of readers and read size.                          *)
EXTENDS Bridge, SequenceTheorems, TLAPS

USE ChunksAssumption, ReadSizeAssumption

-----------------------------------------------------------------------------
(* What the operations do to the buffer *)

(* Read takes a non-empty prefix of the buffer and leaves the rest. *)
LEMMA CountBounds ==
  ASSUME buf \in Seq(Byte), buf # <<>>
  PROVE  Count \in 1..Len(buf)
<1>1. Len(buf) \in Nat /\ Len(buf) # 0
  BY EmptySeq, LenProperties
<1>2. QED
  BY <1>1 DEF Count

LEMMA PrefixAndRest ==
  ASSUME NEW S, NEW s \in Seq(S), NEW n \in 1..Len(s)
  PROVE  /\ SubSeq(s, 1, n) \in Seq(S)
         /\ SubSeq(s, n + 1, Len(s)) \in Seq(S)
         /\ SubSeq(s, 1, n) \o SubSeq(s, n + 1, Len(s)) = s
<1>1. Len(s) \in Nat /\ \A i \in 1..Len(s) : s[i] \in S
  BY LenProperties, ElementOfSeq
<1>2. SubSeq(s, 1, n) \in Seq(S) /\ SubSeq(s, n + 1, Len(s)) \in Seq(S)
  BY <1>1, SubSeqProperties
<1>3. SubSeq(s, 1, n) \o SubSeq(s, n + 1, Len(s)) = SubSeq(s, 1, Len(s))
  BY <1>1, ConcatAdjacentSubSeq
<1>4. QED
  BY <1>2, <1>3, SubSeqFull

-----------------------------------------------------------------------------
(* The inductive invariant *)

IInv == TypeConn /\ NoByteLost /\ NoSleeper /\ EndAfterData

LEMMA InvInit == Init => IInv
<1> SUFFICES ASSUME Init PROVE IInv
  OBVIOUS
<1> USE DEF Init
<1>1. <<>> \in Seq(Byte) /\ <<>> \o <<>> = <<>>
  BY EmptySeq, ConcatEmptySeq
<1>2. TypeConn
  BY <1>1 DEF TypeConn
<1>3. NoByteLost
  BY <1>1 DEF NoByteLost
<1>4. NoSleeper /\ EndAfterData
  BY DEF NoSleeper, EndAfterData
<1>5. QED
  BY <1>2, <1>3, <1>4 DEF IInv

LEMMA PushStep ==
  ASSUME IInv, NEW chunk \in Chunks, Push(chunk)
  PROVE  IInv'
<1> USE DEF IInv, Push, AppendChunk
<1>1. CASE closed
  BY <1>1 DEF TypeConn, NoByteLost, NoSleeper, EndAfterData
<1>2. CASE ~closed
  <2>1. /\ chunk \in Seq(Byte)
        /\ buf \in Seq(Byte) /\ arrived \in Seq(Byte) /\ delivered \in Seq(Byte)
    BY DEF TypeConn
  <2>2. /\ buf' = buf \o chunk /\ arrived' = arrived \o chunk
        /\ Broadcast
        /\ UNCHANGED <<closed, err, delivered, writeVars>>
    BY <1>2
  <2>3. buf' \in Seq(Byte) /\ arrived' \in Seq(Byte)
    BY <2>1, <2>2, ConcatProperties
  <2>4. reader' \in [Readers -> {"idle", "reading", "waiting", "ended"}]
    BY <2>2 DEF TypeConn, Broadcast
  <2>5. TypeConn'
    BY <2>2, <2>3, <2>4 DEF TypeConn
  <2>6. delivered \o (buf \o chunk) = (delivered \o buf) \o chunk
    BY <2>1, ConcatAssociative
  <2>7. NoByteLost'
    BY <2>2, <2>6 DEF NoByteLost
  <2>8. NoSleeper' /\ EndAfterData'
    BY <1>2, <2>2 DEF NoSleeper, EndAfterData, Broadcast, TypeConn
  <2>9. QED
    BY <2>5, <2>7, <2>8
<1>3. QED
  BY <1>1, <1>2

LEMMA CloseStep ==
  ASSUME IInv, NEW e \in {"none", "dropped"}, CloseWith(e)
  PROVE  IInv'
<1> USE DEF IInv, CloseWith, FirstClose, MarkClosed, Broadcast
<1>1. TypeConn'
  BY DEF TypeConn
<1>2. NoByteLost'
  BY DEF NoByteLost
<1>3. NoSleeper' /\ EndAfterData'
  BY DEF NoSleeper, EndAfterData, TypeConn
<1>4. QED
  BY <1>1, <1>2, <1>3

LEMMA ReadStep ==
  ASSUME IInv, NEW r \in Readers, Read(r)
  PROVE  IInv'
<1> USE DEF IInv
<1>1. CASE ReadCall(r)
  BY <1>1 DEF ReadCall, TypeConn, NoByteLost, NoSleeper, EndAfterData
<1>2. CASE ReadWaits(r)
  BY <1>2 DEF ReadWaits, TypeConn, NoByteLost, NoSleeper, EndAfterData
<1>3. CASE ReadData(r)
  <2> DEFINE taken == SubSeq(buf, 1, Count)
             rest == SubSeq(buf, Count + 1, Len(buf))
  <2>1. buf \in Seq(Byte) /\ delivered \in Seq(Byte) /\ buf # <<>>
    BY <1>3 DEF ReadData, TypeConn
  <2>2. taken \in Seq(Byte) /\ rest \in Seq(Byte) /\ taken \o rest = buf
    BY <2>1, CountBounds, PrefixAndRest
  <2>3. /\ delivered' = delivered \o taken /\ buf' = rest
        /\ reader' = [reader EXCEPT ![r] = "idle"]
        /\ UNCHANGED <<closed, err, arrived, writeVars>>
    BY <1>3 DEF ReadData
  <2> HIDE DEF taken, rest
  <2>4. delivered' \in Seq(Byte)
    BY <2>1, <2>2, <2>3, ConcatProperties
  <2>5. TypeConn'
    BY <2>2, <2>3, <2>4 DEF TypeConn
  <2>6. (delivered \o taken) \o rest = delivered \o (taken \o rest)
    <3>1. \A s, t, u \in Seq(Byte) : (s \o t) \o u = s \o (t \o u)
      BY ConcatAssociative
    <3>2. QED
      BY <2>1, <2>2, <3>1
  <2>7. NoByteLost'
    BY <2>2, <2>3, <2>6 DEF NoByteLost
  <2>8. NoSleeper' /\ EndAfterData'
    BY <2>1, <2>3 DEF NoSleeper, EndAfterData, TypeConn
  <2>9. QED
    BY <2>5, <2>7, <2>8
<1>4. CASE ReadEnd(r)
  BY <1>4 DEF ReadEnd, Drained, TypeConn, NoByteLost, NoSleeper, EndAfterData
<1>5. QED
  BY <1>1, <1>2, <1>3, <1>4 DEF Read

LEMMA InvStep ==
  ASSUME IInv, [Next]_vars
  PROVE  IInv'
<1>1. CASE Write
  <2>1. UNCHANGED <<buf, closed, err, reader, arrived, delivered>>
    BY <1>1 DEF Write, WriteChecks, WriteSinks
  <2>2. QED
    BY <2>1 DEF IInv, TypeConn, NoByteLost, NoSleeper, EndAfterData
<1>2. CASE UNCHANGED vars
  BY <1>2 DEF vars, IInv, TypeConn, NoByteLost, NoSleeper, EndAfterData
<1>3. QED
  BY <1>1, <1>2, PushStep, CloseStep, ReadStep DEF Next

(* Every reachable state of a conn satisfies the inductive invariant. *)
THEOREM BridgeInvariant == Spec => []IInv
BY InvInit, InvStep, PTL DEF Spec

(* Writers that are refused stay a sign of the close. *)
LEMMA WritesStep ==
  ASSUME TypeWrites, [Next]_vars
  PROVE  TypeWrites'
<1>1. CASE WriteChecks
  <2>1. sending' \in Nat /\ sunk' \in Nat
    BY <1>1 DEF WriteChecks, TypeWrites
  <2>2. refused' \in BOOLEAN /\ (refused' => closed')
    BY <1>1 DEF WriteChecks, TypeWrites
  <2>3. QED
    BY <2>1, <2>2 DEF TypeWrites
<1>2. CASE WriteSinks
  <2>1. sending' \in Nat /\ sunk' \in Nat
    BY <1>2 DEF WriteSinks, TypeWrites
  <2>2. refused' \in BOOLEAN /\ (refused' => closed')
    BY <1>2 DEF WriteSinks, TypeWrites
  <2>3. QED
    BY <2>1, <2>2 DEF TypeWrites
<1>3. CASE UNCHANGED writeVars /\ (closed => closed')
  BY <1>3 DEF writeVars, TypeWrites
<1>4. ASSUME NEW chunk \in Chunks, Push(chunk)
      PROVE  UNCHANGED writeVars /\ (closed => closed')
  BY <1>4 DEF Push
<1>5. ASSUME NEW e \in {"none", "dropped"}, CloseWith(e)
      PROVE  UNCHANGED writeVars /\ (closed => closed')
  BY <1>5 DEF CloseWith, FirstClose, MarkClosed
<1>6. ASSUME NEW r \in Readers, Read(r)
      PROVE  UNCHANGED writeVars /\ (closed => closed')
  BY <1>6 DEF Read, ReadCall, ReadWaits, ReadData, ReadEnd
<1>7. UNCHANGED vars => UNCHANGED writeVars /\ (closed => closed')
  BY DEF vars
<1>8. QED
  BY <1>1, <1>2, <1>3, <1>4, <1>5, <1>6, <1>7 DEF Next, Write

(* A conn's fields keep their types; readers get an error and writers are     *)
(* refused only once it is closed (bridge.go:21-29, 66-67, 80-82).            *)
THEOREM BridgeTypeOK == Spec => []TypeOK
<1>1. Init => TypeWrites
  <2>1. Init => sending \in Nat /\ sunk \in Nat
    BY DEF Init
  <2>2. Init => refused \in BOOLEAN /\ (refused => closed)
    BY DEF Init
  <2>3. QED
    BY <2>1, <2>2 DEF TypeWrites
<1>2. Spec => []TypeWrites
  BY <1>1, WritesStep, PTL DEF Spec
<1>3. IInv /\ TypeWrites => TypeOK
  BY DEF IInv, TypeOK
<1>4. QED
  BY <1>2, <1>3, BridgeInvariant, PTL

(* What was pushed before the close is read once and in order, or is still    *)
(* buffered (bridge.go:39-46, 59-74).                                         *)
THEOREM BridgeNoByteLost == Spec => []NoByteLost
BY BridgeInvariant, PTL DEF IInv

(* No reader sleeps in cond.Wait beside bytes or a close (bridge.go:43, 62).  *)
THEOREM BridgeNoSleeper == Spec => []NoSleeper
BY BridgeInvariant, PTL DEF IInv

(* Readers see the end only after the last byte (bridge.go:65-70). *)
THEOREM BridgeEndAfterData == Spec => []EndAfterData
BY BridgeInvariant, PTL DEF IInv

-----------------------------------------------------------------------------
(* The refinement *)

(* Pushed bytes are a prefix-preserving extension of the queue. *)
LEMMA PushRefines ==
  ASSUME IInv, NEW chunk \in Chunks, Push(chunk)
  PROVE  Stream!Next \/ UNCHANGED Stream!svars
<1>1. CASE closed
  BY <1>1 DEF Push, Stream!svars, Ended
<1>2. CASE ~closed
  <2>1. chunk \in Seq(Byte) /\ buf \in Seq(Byte)
    BY DEF IInv, TypeConn
  <2>2. buf' = buf \o chunk /\ UNCHANGED <<closed, delivered>> /\ Broadcast
    BY <1>2 DEF Push, AppendChunk
  <2>3. buf' \in Seq(Byte) /\ Len(buf') = Len(buf) + Len(chunk)
    BY <2>1, <2>2, ConcatProperties
  <2>4. Len(buf) \in Nat /\ Len(chunk) \in Nat
    BY <2>1, LenProperties
  <2>5. SubSeq(buf', 1, Len(buf)) = buf
    <3>1. CASE Len(buf) = 0
      <4>1. buf = <<>>
        BY <2>1, <3>1, EmptySeq
      <4>2. SubSeq(buf', 1, 0) = <<>>
        BY SubSeqEmpty
      <4>3. QED
        BY <3>1, <4>1, <4>2
    <3>2. CASE Len(buf) # 0
      <4>1. SubSeq(buf \o chunk, 1, Len(buf)) = SubSeq(buf, 1, Len(buf))
        BY <2>1, <2>4, <3>2, SubSeqOfConcat1
      <4>2. QED
        BY <2>1, <2>2, <4>1, SubSeqFull
    <3>3. QED
      BY <3>1, <3>2
  <2>6. Ended' = Ended
    BY <2>2 DEF Ended, Broadcast, IInv, TypeConn
  <2>7. QED
    BY <1>2, <2>2, <2>3, <2>4, <2>5, <2>6 DEF Stream!Next, Stream!Accept
<1>3. QED
  BY <1>1, <1>2

LEMMA CloseRefines ==
  ASSUME IInv, NEW e \in {"none", "dropped"}, CloseWith(e)
  PROVE  Stream!Next \/ UNCHANGED Stream!svars
<1>1. CASE closed
  BY <1>1 DEF CloseWith, FirstClose, Stream!svars, Ended
<1>2. CASE ~closed
  <2>1. closed' = TRUE /\ Broadcast /\ UNCHANGED <<buf, delivered>>
    BY <1>2 DEF CloseWith, FirstClose, MarkClosed
  <2>2. Ended' = Ended
    BY <2>1 DEF Ended, Broadcast, IInv, TypeConn
  <2>3. QED
    BY <2>1, <2>2 DEF Stream!Next, Stream!Shut
<1>3. QED
  BY <1>1, <1>2

LEMMA ReadRefines ==
  ASSUME IInv, NEW r \in Readers, Read(r)
  PROVE  Stream!Next \/ UNCHANGED Stream!svars
<1>1. CASE ReadCall(r) \/ ReadWaits(r)
  <2>1. Ended' = Ended /\ UNCHANGED <<buf, closed, delivered>>
    BY <1>1 DEF ReadCall, ReadWaits, Ended, IInv, TypeConn
  <2>2. QED
    BY <2>1 DEF Stream!svars
<1>2. CASE ReadData(r)
  <2>1. Count \in 1..Len(buf) /\ buf # <<>>
    BY <1>2, CountBounds DEF ReadData, IInv, TypeConn
  <2>2. Ended' = Ended
    BY <1>2 DEF ReadData, Ended, IInv, TypeConn
  <2>3. /\ delivered' = delivered \o SubSeq(buf, 1, Count)
        /\ buf' = SubSeq(buf, Count + 1, Len(buf)) /\ UNCHANGED closed
    BY <1>2 DEF ReadData
  <2>4. QED
    BY <2>1, <2>2, <2>3 DEF Stream!Next, Stream!Deliver
<1>3. CASE ReadEnd(r)
  <2>1. closed /\ buf = <<>> /\ UNCHANGED <<buf, closed, delivered>>
    BY <1>3 DEF ReadEnd, Drained
  <2>2. Ended' = TRUE
    BY <1>3 DEF ReadEnd, Ended, IInv, TypeConn
  <2>3. QED
    BY <2>1, <2>2 DEF Stream!Next, Stream!End
<1>4. QED
  BY <1>1, <1>2, <1>3 DEF Read

(* bridge.Conn implements the byte stream the Go libraries take it for. *)
THEOREM BridgeImplementsStream == Spec => ImplementsStream
<1>1. IInv /\ [Next]_vars => [Stream!Next]_(Stream!svars)
  <2> SUFFICES ASSUME IInv, [Next]_vars
               PROVE  Stream!Next \/ UNCHANGED Stream!svars
    OBVIOUS
  <2>1. CASE Write
    BY <2>1 DEF Write, WriteChecks, WriteSinks, Stream!svars, Ended
  <2>2. CASE UNCHANGED vars
    BY <2>2 DEF vars, Stream!svars, Ended
  <2>3. QED
    BY <2>1, <2>2, PushRefines, CloseRefines, ReadRefines DEF Next
<1>2. Init => Stream!Init
  BY DEF Init, Stream!Init, Ended
<1>3. QED
  BY <1>1, <1>2, BridgeInvariant, PTL DEF Spec, ImplementsStream, Stream!Spec

(* The first close is final (bridge.go:49-57, 89-97). *)
THEOREM BridgeCloseIsFinal == Spec => CloseIsFinal
<1>1. [Next]_vars => [closed => closed' /\ err' = err]_vars
  BY DEF Next, Push, CloseWith, FirstClose, Read, ReadCall, ReadWaits, ReadData,
         ReadEnd, Write, WriteChecks, WriteSinks, vars
<1>2. QED
  BY <1>1, PTL DEF Spec, CloseIsFinal
=============================================================================
