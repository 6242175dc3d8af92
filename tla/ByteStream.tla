------------------------------ MODULE ByteStream ------------------------------
(* What a net.Conn promises its reader, and what bridge.Conn must implement:  *)
(* the bytes put in come out once, in order and without a gap; the end of the *)
(* stream is seen only after the last of them; nothing is accepted after it.  *)
EXTENDS Naturals, Sequences

CONSTANT Byte

VARIABLES
  queue,      \* bytes accepted and not yet read
  delivered,  \* all bytes read so far
  open,       \* bytes are still accepted
  ended       \* some reader has been told that the stream is over

svars == <<queue, delivered, open, ended>>

Init == queue = <<>> /\ delivered = <<>> /\ open = TRUE /\ ended = FALSE

Accept ==
  /\ open
  /\ queue' \in Seq(Byte) /\ Len(queue') >= Len(queue)
  /\ SubSeq(queue', 1, Len(queue)) = queue
  /\ UNCHANGED <<delivered, open, ended>>

Deliver ==
  /\ queue # <<>>
  /\ \E n \in 1..Len(queue) :
       /\ delivered' = delivered \o SubSeq(queue, 1, n)
       /\ queue' = SubSeq(queue, n + 1, Len(queue))
  /\ UNCHANGED <<open, ended>>

Shut == open' = FALSE /\ UNCHANGED <<queue, delivered, ended>>

End ==
  /\ ~open /\ queue = <<>>
  /\ ended' = TRUE
  /\ UNCHANGED <<queue, delivered, open>>

Next == Accept \/ Deliver \/ Shut \/ End

Spec == Init /\ [][Next]_svars
=============================================================================
