--------------------------- MODULE AuthWorkerProofs ---------------------------
(* Theorems about AuthWorker, for any clients, polls and messages.            *)
EXTENDS AuthWorker, SequenceTheorems, TLAPS

USE ClientAssumption, PollsAssumption

Msg == Ends \X Nat

(* A page gets past the worker's checks only with names that pass them, naps  *)
(* only while polls are left, and dials only the address it was given.        *)
Admitted ==
  \A c \in Client :
    /\ page[c] \in {"asked", "nap", "dial"} => names[c] = "formed"
    /\ page[c] = "nap" => polls[c] < MaxPolls
    /\ page[c] = "dial" => uri[c] = <<"proxy", "formed">>

(* The two sockets of a pair come together, and nothing happens before.       *)
Paired ==
  \A e \in Ends :
    sock[e] = "none" =>
      /\ sock[Opp(e)] = "none" /\ fin[e] = "none" /\ sent[e] = 0
      /\ inq[e] = <<>> /\ out[e] = <<>>

\* An end that is there, or has closed in good order.
Orderly == {"none", "plain", "odd"}

(* As long as the other socket is open, what waits to be handled continues    *)
(* what was passed on, and nothing of the end's messages is missing, if it did *)
(* not break.                                                                 *)
Continues ==
  \A e \in Ends :
    sock[Opp(e)] = "open" =>
      /\ \A i \in 1..Len(inq[e]) : inq[e][i] = <<e, Len(out[Opp(e)]) + i>>
      /\ fin[e] \in Orderly => sent[e] = Len(out[Opp(e)]) + Len(inq[e])

(* The inductive invariant. *)
IInv == TypeOK /\ Admitted /\ PageServed /\ Paired /\ Continues /\ InOrder

-----------------------------------------------------------------------------
(* The two ends of a pair *)

LEMMA OppFacts ==
  ASSUME NEW e \in Ends
  PROVE  Opp(e) \in Ends /\ Opp(Opp(e)) = e /\ Opp(e) # e /\ Opp(e)[1] = e[1]
BY DEF Ends, Opp

LEMMA SameClient ==
  ASSUME NEW d \in Ends, NEW e \in Ends, d[1] = e[1]
  PROVE  d = e \/ d = Opp(e)
BY DEF Ends, Opp

LEMMA EndOf ==
  ASSUME NEW e \in Ends
  PROVE  e[1] \in Client
BY DEF Ends

LEMMA RelayEnd ==
  ASSUME NEW c \in Client
  PROVE  <<c, "relay">> \in Ends /\ <<c, "browser">> \in Ends
BY DEF Ends

-----------------------------------------------------------------------------
LEMMA InvInit == Init => IInv
<1> SUFFICES ASSUME Init PROVE IInv
  OBVIOUS
<1>1. <<>> \in Seq(Msg) /\ Len(<<>>) = 0
  BY EmptySeq
<1>2. TypeOK
  BY <1>1 DEF Init, TypeOK, TypePages, TypeSockets, TypeMessages, Pages, Polling,
              NoUri, Codes, Msg
<1>3. Admitted /\ PageServed
  BY DEF Init, Admitted, PageServed
<1>4. Paired /\ Continues /\ InOrder
  BY <1>1, OppFacts DEF Init, Paired, Continues, InOrder
<1>5. QED
  BY <1>2, <1>3, <1>4 DEF IInv

-----------------------------------------------------------------------------
(* The pages.  A step changes what the pages' conjuncts speak of, or what the *)
(* sockets' conjuncts speak of; Join does both.                               *)

PagesOK == TypePages /\ Admitted /\ PageServed
SocketsOK == TypeSockets /\ TypeMessages /\ Paired /\ Continues /\ InOrder

LEMMA IInvParts == IInv <=> PagesOK /\ SocketsOK
BY DEF IInv, TypeOK, PagesOK, SocketsOK

LEMMA PagesKept ==
  ASSUME PagesOK, UNCHANGED pageVars
  PROVE  PagesOK'
BY DEF PagesOK, TypePages, Admitted, PageServed, pageVars

LEMMA SocketsKept ==
  ASSUME SocketsOK, UNCHANGED bridgeVars
  PROVE  SocketsOK'
BY DEF SocketsOK, TypeSockets, TypeMessages, Paired, Continues, InOrder, bridgeVars

LEMMA NegotiatedOffered ==
  ASSUME NEW choice
  PROVE  Negotiated(choice) \in Offered
<1>1. Offered \intersect Known # {}
  BY DEF Offered, Known
<1>2. QED
  BY <1>1 DEF Negotiated

LEMMA PagesStep ==
  ASSUME PagesOK, NEW c \in Client,
         Wait(c) \/ Direct(c) \/ DialWorker(c) \/ GiveUp(c) \/ Fetch(c)
  PROVE  PagesOK'
<1> USE DEF PagesOK, TypePages, Admitted, PageServed, Pages, Polling, Goto
<1>1. CASE AskTunnel(c)
  BY <1>1 DEF AskTunnel, WellFormed
<1>2. ASSUME NEW hostUp \in BOOLEAN, TunnelKnown(c, hostUp) PROVE PagesOK'
  <2>1. uri' = [uri EXCEPT ![c] = <<"proxy", "formed">>]
    BY <1>2 DEF TunnelKnown, Rewritten
  <2>2. <<"proxy", "formed">> \in Uris
    BY DEF Uris, Names
  <2>3. CASE ~Enough(c, hostUp)
    BY <1>2, <2>1, <2>2, <2>3 DEF TunnelKnown, Enough
  <2>4. CASE Enough(c, hostUp)
    BY <1>2, <2>1, <2>2, <2>4 DEF TunnelKnown, Enough
  <2>5. QED
    BY <2>3, <2>4
<1>3. CASE TunnelUnknown(c)
  BY <1>3 DEF TunnelUnknown
<1>4. CASE Nap(c)
  BY <1>4 DEF Nap, Counted
<1>5. CASE Direct(c)
  BY <1>5 DEF Direct
<1>6. CASE DialWorker(c)
  <2>1. uri[c] = <<"proxy", "formed">>
    BY <1>6 DEF DialWorker
  <2>2. page' = [page EXCEPT ![c] = "upgrading"]
    BY <1>6, <2>1 DEF DialWorker, WellFormed
  <2>3. QED
    BY <1>6, <2>2 DEF DialWorker
<1>7. CASE GiveUp(c)
  BY <1>7 DEF GiveUp
<1>8. ASSUME NEW choice, Join(c, choice) PROVE PagesOK'
  <2>1. page' = [page EXCEPT ![c] = IF page[c] = "gone" THEN "gone" ELSE "open"]
    BY <1>8, NegotiatedOffered DEF Join
  <2>2. QED
    BY <1>8, <2>1 DEF Join
<1>9. CASE UpstreamRefuses(c)
  BY <1>9 DEF UpstreamRefuses
<1>10. QED
  BY <1>1, <1>2, <1>3, <1>4, <1>5, <1>6, <1>7, <1>8, <1>9 DEF Wait, Tunnel, Fetch

-----------------------------------------------------------------------------
(* The sockets *)

LEMMA JoinStep ==
  ASSUME SocketsOK, NEW c \in Client, NEW choice, Join(c, choice)
  PROVE  SocketsOK'
<1> USE DEF SocketsOK, TypeSockets, TypeMessages
<1>1. \A e \in Ends : e[1] = c => sock[e] = "none"
  <2> SUFFICES ASSUME NEW e \in Ends, e[1] = c PROVE sock[e] = "none"
    OBVIOUS
  <2>1. sock[<<c, "relay">>] = "none" /\ <<c, "relay">> \in Ends
    BY RelayEnd DEF Join, Upgrading
  <2>2. e = <<c, "relay">> \/ e = Opp(<<c, "relay">>)
    BY <2>1, SameClient
  <2>3. QED
    BY <2>1, <2>2 DEF Paired
<1>2. /\ sock' = [e \in Ends |-> IF e[1] = c THEN "open" ELSE sock[e]]
      /\ UNCHANGED <<inq, out, sent, load>> /\ bridge' = c
  BY DEF Join
<1>3. \/ fin' = fin
      \/ fin' = [fin EXCEPT ![<<c, "browser">>] = "lost"]
  BY DEF Join
<1>4. TypeSockets' /\ TypeMessages'
  BY <1>2, <1>3 DEF Codes
<1>5. Paired'
  <2> SUFFICES ASSUME NEW e \in Ends, sock'[e] = "none"
               PROVE  /\ sock'[Opp(e)] = "none" /\ fin'[e] = "none" /\ sent'[e] = 0
                      /\ inq'[e] = <<>> /\ out'[e] = <<>>
    BY DEF Paired
  <2>1. e[1] # c /\ sock[e] = "none"
    BY <1>2
  <2>2. sock'[Opp(e)] = "none"
    BY <1>2, <2>1, OppFacts DEF Paired
  <2>3. fin'[e] = "none"
    BY <1>3, <2>1 DEF Paired
  <2>4. QED
    BY <1>2, <2>1, <2>2, <2>3 DEF Paired
<1>6. Continues'
  <2> SUFFICES ASSUME NEW e \in Ends, sock'[Opp(e)] = "open"
               PROVE  /\ \A i \in 1..Len(inq[e]) :
                           inq[e][i] = <<e, Len(out[Opp(e)]) + i>>
                      /\ fin'[e] \in Orderly => sent[e] = Len(out[Opp(e)]) + Len(inq[e])
    BY <1>2 DEF Continues
  <2>1. Opp(e) \in Ends /\ Opp(e)[1] = e[1]
    BY OppFacts
  <2>2. CASE e[1] = c
    <3>1. inq[e] = <<>> /\ out[Opp(e)] = <<>> /\ sent[e] = 0
      BY <1>1, <2>1, <2>2 DEF Paired
    <3>2. Len(inq[e]) = 0 /\ Len(out[Opp(e)]) = 0
      BY <3>1, EmptySeq
    <3>3. QED
      BY <3>1, <3>2
  <2>3. CASE e[1] # c
    <3>1. sock[Opp(e)] = "open" /\ fin'[e] = fin[e]
      BY <1>2, <1>3, <2>1, <2>3
    <3>2. QED
      BY <3>1 DEF Continues
  <2>4. QED
    BY <2>2, <2>3
<1>7. InOrder'
  BY <1>2 DEF InOrder
<1>8. QED
  BY <1>4, <1>5, <1>6, <1>7

LEMMA MessageStep ==
  ASSUME SocketsOK, NEW e \in Ends, Message(e)
  PROVE  SocketsOK'
<1> DEFINE d == Opp(e)
<1> USE DEF SocketsOK, TypeSockets
<1>1. d \in Ends /\ d # e /\ Opp(d) = e
  BY OppFacts
<1>2. inq[e] \in Seq(Msg) /\ inq[e] # <<>> /\ out[d] \in Seq(Msg)
  BY <1>1 DEF Message, TypeMessages, Msg
<1>3. /\ Head(inq[e]) \in Msg /\ Tail(inq[e]) \in Seq(Msg)
      /\ Len(Tail(inq[e])) = Len(inq[e]) - 1
      /\ \A i \in 1..Len(Tail(inq[e])) : Tail(inq[e])[i] = inq[e][i + 1]
      /\ Len(inq[e]) \in Nat \ {0} /\ Head(inq[e]) = inq[e][1]
  BY <1>2, HeadTailProperties, EmptySeq
<1>4. /\ inq' = [inq EXCEPT ![e] = Tail(inq[e])]
      /\ UNCHANGED <<sock, fin, sent, load, bridge>>
      /\ \/ sock[d] # "open" /\ out' = out
         \/ sock[d] = "open" /\ out' = [out EXCEPT ![d] = Append(out[d], Head(inq[e]))]
  BY DEF Message, Peer
<1>5. Append(out[d], Head(inq[e])) \in Seq(Msg)
  BY <1>2, <1>3, AppendProperties
<1>6. TypeSockets' /\ TypeMessages'
  BY <1>1, <1>3, <1>4, <1>5 DEF TypeMessages, Msg
<1>7. sock[e] # "none" /\ sock[d] # "none"
  BY <1>1, <1>2 DEF Paired
<1>8. Paired'
  BY <1>1, <1>4, <1>7 DEF Paired, TypeMessages
<1>9. CASE sock[d] # "open"
  <2>1. InOrder'
    BY <1>4, <1>9 DEF InOrder
  <2>2. Continues'
    <3>1. sock' = sock /\ fin' = fin /\ sent' = sent /\ out' = out
      BY <1>4, <1>9
    <3> SUFFICES ASSUME NEW f \in Ends, sock[Opp(f)] = "open"
                 PROVE  /\ \A i \in 1..Len(inq'[f]) :
                             inq'[f][i] = <<f, Len(out[Opp(f)]) + i>>
                        /\ fin[f] \in Orderly =>
                             sent[f] = Len(out[Opp(f)]) + Len(inq'[f])
      BY <3>1 DEF Continues
    <3>2. f # e
      BY <1>9
    <3>3. inq'[f] = inq[f]
      BY <1>4, <3>2 DEF TypeMessages
    <3>4. QED
      BY <3>3 DEF Continues
  <2>3. QED
    BY <1>6, <1>8, <2>1, <2>2
<1>10. CASE sock[d] = "open"
  <2> DEFINE n == Len(out[d])
  <2>1. n \in Nat
    BY <1>2, LenProperties
  <2>2. Head(inq[e]) = <<e, n + 1>>
    <3>1. inq[e][1] = <<e, n + 1>>
      <4>1. 1 \in 1..Len(inq[e])
        BY <1>3
      <4>2. QED
        BY <1>10, <4>1 DEF Continues
    <3>2. QED
      BY <1>3, <3>1
  <2>3. /\ out'[d] = Append(out[d], Head(inq[e]))
        /\ \A f \in Ends \ {d} : out'[f] = out[f]
        /\ inq'[e] = Tail(inq[e])
        /\ \A f \in Ends \ {e} : inq'[f] = inq[f]
    BY <1>1, <1>4, <1>10 DEF TypeMessages
  <2>4. /\ Len(out'[d]) = n + 1
        /\ \A i \in 1..n : out'[d][i] = out[d][i]
        /\ out'[d][n + 1] = Head(inq[e])
    BY <1>2, <1>3, <2>3, AppendProperties
  <2> HIDE DEF d, n
  <2>5. InOrder'
    <3> SUFFICES ASSUME NEW f \in Ends, NEW i \in 1..Len(out'[f])
                 PROVE  out'[f][i] = <<Opp(f), i>>
      BY DEF InOrder
    <3>1. CASE f # d
      BY <2>3, <3>1 DEF InOrder
    <3>2. CASE f = d
      <4>1. i \in 1..n \/ i = n + 1
        BY <2>1, <2>4, <3>2
      <4>2. CASE i = n + 1
        BY <1>1, <2>2, <2>4, <3>2, <4>2
      <4>3. CASE i \in 1..n
        <5>1. out[d][i] = <<Opp(d), i>>
          BY <1>1, <4>3 DEF InOrder, n
        <5>2. QED
          BY <2>4, <3>2, <4>3, <5>1
      <4>4. QED
        BY <4>1, <4>2, <4>3
    <3>3. QED
      BY <3>1, <3>2
  <2>6. Continues'
    <3> SUFFICES ASSUME NEW f \in Ends, sock[Opp(f)] = "open"
                 PROVE  /\ \A i \in 1..Len(inq'[f]) :
                             inq'[f][i] = <<f, Len(out'[Opp(f)]) + i>>
                        /\ fin[f] \in Orderly =>
                             sent[f] = Len(out'[Opp(f)]) + Len(inq'[f])
      BY <1>4 DEF Continues
    <3>1. CASE f # e
      <4>1. Opp(f) \in Ends /\ Opp(f) # d
        BY <1>1, <3>1, OppFacts
      <4>2. QED
        BY <2>3, <3>1, <4>1 DEF Continues
    <3>2. CASE f = e
      <4>1. Opp(f) = d
        BY <3>2 DEF d
      <4>2. fin[e] \in Orderly => sent[e] = n + Len(inq[e])
        BY <1>10 DEF Continues, d, n
      <4>3. \A j \in 1..Len(inq[e]) : inq[e][j] = <<e, n + j>>
        BY <1>10 DEF Continues, d, n
      <4>4. Len(inq'[e]) = Len(inq[e]) - 1
        BY <1>3, <2>3
      <4>5. \A i \in 1..Len(inq'[e]) : inq'[e][i] = <<e, (n + 1) + i>>
        BY <1>3, <2>1, <2>3, <4>3
      <4>6. fin[e] \in Orderly => sent[e] = (n + 1) + Len(inq'[e])
        BY <1>3, <2>1, <4>2, <4>4
      <4>7. QED
        BY <2>4, <3>2, <4>1, <4>5, <4>6
    <3>3. QED
      BY <3>1, <3>2
  <2>7. QED
    BY <1>6, <1>8, <2>5, <2>6
<1>11. QED
  BY <1>9, <1>10

(* The end of a socket only ever closes sockets.                              *)
LEMMA EndedStep ==
  ASSUME SocketsOK, NEW e \in Ends, Ended(e)
  PROVE  SocketsOK'
<1> USE DEF SocketsOK, TypeSockets, TypeMessages, Codes
<1>1. Opp(e) \in Ends /\ Opp(Opp(e)) = e
  BY OppFacts
<1>2. sock[e] # "none" /\ sock[Opp(e)] # "none"
  BY <1>1 DEF Ended, Paired
<1>3. /\ fin' = [fin EXCEPT ![e] = "told"]
      /\ UNCHANGED <<inq, out, sent, load, bridge>>
  BY DEF Ended
<1>4. /\ sock' \in [Ends -> {"none", "open", "closed"}]
      /\ \A f \in Ends : /\ sock'[f] = "none" <=> sock[f] = "none"
                         /\ sock'[f] = "open" => sock[f] = "open"
  BY <1>1, <1>2 DEF Ended, CloseSafely, SafeCode
<1>5. TypeSockets' /\ TypeMessages'
  BY <1>3, <1>4
<1>6. Paired'
  BY <1>2, <1>3, <1>4, OppFacts DEF Paired
<1>7. Continues' /\ InOrder'
  <2>1. \A f \in Ends : fin'[f] \in Orderly => fin[f] \in Orderly
    BY <1>3 DEF Orderly
  <2>2. \A f \in Ends : sock'[Opp(f)] = "open" => sock[Opp(f)] = "open"
    BY <1>4, OppFacts
  <2>3. QED
    BY <1>3, <2>1, <2>2 DEF Continues, InOrder
<1>8. QED
  BY <1>5, <1>6, <1>7

LEMMA SendStep ==
  ASSUME SocketsOK, NEW e \in Ends, PeerSends(e)
  PROVE  SocketsOK'
<1> USE DEF SocketsOK, TypeSockets
<1>1. /\ sock[e] # "none" /\ fin[e] = "none"
      /\ inq' = [inq EXCEPT ![e] = Append(inq[e], <<e, sent[e] + 1>>)]
      /\ sent' = [sent EXCEPT ![e] = sent[e] + 1]
      /\ load' = load + 1
      /\ UNCHANGED <<sock, fin, out, bridge>>
  BY DEF PeerSends, Up
<1>2. inq[e] \in Seq(Msg) /\ <<e, sent[e] + 1>> \in Msg /\ Len(inq[e]) \in Nat
  BY LenProperties DEF TypeMessages, Msg
<1>3. /\ inq'[e] \in Seq(Msg) /\ Len(inq'[e]) = Len(inq[e]) + 1
      /\ \A i \in 1..Len(inq[e]) : inq'[e][i] = inq[e][i]
      /\ inq'[e][Len(inq[e]) + 1] = <<e, sent[e] + 1>>
  BY <1>1, <1>2, AppendProperties DEF TypeMessages
<1>4. TypeSockets' /\ TypeMessages'
  BY <1>1, <1>3 DEF TypeMessages, Msg
<1>5. Paired'
  BY <1>1 DEF Paired, TypeMessages
<1>6. InOrder'
  BY <1>1 DEF InOrder
<1>7. Continues'
  <2> SUFFICES ASSUME NEW f \in Ends, sock[Opp(f)] = "open"
               PROVE  /\ \A i \in 1..Len(inq'[f]) :
                           inq'[f][i] = <<f, Len(out[Opp(f)]) + i>>
                      /\ fin[f] \in Orderly =>
                           sent'[f] = Len(out[Opp(f)]) + Len(inq'[f])
    <3>1. sock' = sock /\ fin' = fin /\ out' = out
      BY <1>1
    <3>2. QED
      BY <3>1 DEF Continues
  <2>1. CASE f # e
    BY <1>1, <2>1 DEF Continues, TypeMessages
  <2>2. CASE f = e
    <3> DEFINE n == Len(out[Opp(e)])
    <3>1. n \in Nat
      BY OppFacts, LenProperties DEF TypeMessages
    <3>2. sent[e] = n + Len(inq[e])
      BY <1>1, <2>2 DEF Continues, Orderly
    <3>3. \A i \in 1..Len(inq[e]) : inq[e][i] = <<e, n + i>>
      BY <2>2 DEF Continues
    <3>4. sent'[e] = sent[e] + 1
      BY <1>1
    <3> HIDE DEF n
    <3>5. \A i \in 1..Len(inq'[e]) : inq'[e][i] = <<e, n + i>>
      <4> SUFFICES ASSUME NEW i \in 1..Len(inq'[e])
                   PROVE  inq'[e][i] = <<e, n + i>>
        OBVIOUS
      <4>1. i \in 1..Len(inq[e]) \/ i = Len(inq[e]) + 1
        BY <1>2, <1>3
      <4>2. CASE i = Len(inq[e]) + 1
        <5>1. inq'[e][i] = <<e, sent[e] + 1>>
          BY <1>3, <4>2
        <5>2. sent[e] + 1 = n + i
          BY <1>2, <3>1, <3>2, <4>2
        <5>3. QED
          BY <5>1, <5>2
      <4>3. QED
        BY <1>3, <3>3, <4>1, <4>2
    <3>6. sent'[e] = n + Len(inq'[e])
      BY <1>2, <1>3, <3>1, <3>2, <3>4
    <3>7. QED
      BY <2>2, <3>5, <3>6 DEF n
  <2>3. QED
    BY <2>1, <2>2
<1>8. QED
  BY <1>4, <1>5, <1>6, <1>7

(* A socket that ends sends no more; a break also loses what is on its way.   *)
LEMMA LeaveStep ==
  ASSUME SocketsOK, NEW e \in Ends,
         \/ \E code \in {"plain", "odd"} : PeerCloses(e, code)
         \/ \E n \in 0..Len(inq[e]) : LinkBreaks(e, n)
  PROVE  SocketsOK'
<1> USE DEF SocketsOK, TypeSockets
<1>1. inq[e] \in Seq(Msg) /\ Len(inq[e]) \in Nat
  BY LenProperties DEF TypeMessages, Msg
<1>2. /\ sock[e] # "none"
      /\ \E code \in Codes : fin' = [fin EXCEPT ![e] = code]
      /\ UNCHANGED <<sock, out, sent, load, bridge>>
      /\ \/ inq' = inq
         \/ \E n \in 0..Len(inq[e]) : inq' = [inq EXCEPT ![e] = SubSeq(inq[e], 1, n)]
  BY DEF PeerCloses, LinkBreaks, Up, Codes
<1>3. \A n \in 0..Len(inq[e]) :
         /\ SubSeq(inq[e], 1, n) \in Seq(Msg)
         /\ Len(SubSeq(inq[e], 1, n)) = n
         /\ \A i \in 1..n : SubSeq(inq[e], 1, n)[i] = inq[e][i]
  <2> TAKE n \in 0..Len(inq[e])
  <2>1. \A i \in 1..n : inq[e][i] \in Msg
    BY <1>1, ElementOfSeq
  <2>2. QED
    BY <1>1, <2>1, SubSeqProperties
<1>4. /\ inq'[e] \in Seq(Msg) /\ Len(inq'[e]) \in 0..Len(inq[e])
      /\ \A i \in 1..Len(inq'[e]) : inq'[e][i] = inq[e][i]
      /\ \A f \in Ends \ {e} : inq'[f] = inq[f]
      /\ inq' \in [Ends -> Seq(Msg)]
  <2>1. CASE inq' = inq
    BY <1>1, <2>1 DEF TypeMessages, Msg
  <2>2. ASSUME NEW n \in 0..Len(inq[e]),
               inq' = [inq EXCEPT ![e] = SubSeq(inq[e], 1, n)]
        PROVE  <1>4
    BY <1>3, <2>2 DEF TypeMessages, Msg
  <2>3. QED
    BY <1>2, <2>1, <2>2
<1>5. TypeSockets' /\ TypeMessages'
  BY <1>2, <1>4 DEF TypeMessages, Msg
<1>6. Paired'
  BY <1>2, <1>4 DEF Paired
<1>7. Continues' /\ InOrder'
  <2>1. /\ fin'[e] \in Orderly => fin[e] \in Orderly /\ inq'[e] = inq[e]
        /\ \A f \in Ends \ {e} : fin'[f] = fin[f]
    BY DEF PeerCloses, LinkBreaks, Up, Orderly
  <2>2. Continues'
    <3>1. sock' = sock /\ sent' = sent /\ out' = out
      BY <1>2
    <3> SUFFICES ASSUME NEW f \in Ends, sock[Opp(f)] = "open"
                 PROVE  /\ \A i \in 1..Len(inq'[f]) :
                             inq'[f][i] = <<f, Len(out[Opp(f)]) + i>>
                        /\ fin'[f] \in Orderly =>
                             sent[f] = Len(out[Opp(f)]) + Len(inq'[f])
      BY <3>1 DEF Continues
    <3>2. CASE f = e
      <4>1. \A i \in 1..Len(inq'[e]) : i \in 1..Len(inq[e])
        BY <1>1, <1>4
      <4>2. /\ \A i \in 1..Len(inq[e]) : inq[e][i] = <<e, Len(out[Opp(e)]) + i>>
            /\ fin[e] \in Orderly => sent[e] = Len(out[Opp(e)]) + Len(inq[e])
        BY <3>2 DEF Continues
      <4>3. \A i \in 1..Len(inq'[e]) : inq'[e][i] = <<e, Len(out[Opp(e)]) + i>>
        BY <1>4, <4>1, <4>2
      <4>4. fin'[e] \in Orderly => sent[e] = Len(out[Opp(e)]) + Len(inq'[e])
        BY <2>1, <4>2
      <4>5. QED
        BY <3>2, <4>3, <4>4
    <3>3. CASE f # e
      <4>1. inq'[f] = inq[f] /\ fin'[f] = fin[f]
        BY <1>4, <2>1, <3>3
      <4>2. QED
        BY <4>1 DEF Continues
    <3>4. QED
      BY <3>2, <3>3
  <2>3. QED
    BY <1>2, <2>2 DEF InOrder
<1>8. QED
  BY <1>5, <1>6, <1>7

-----------------------------------------------------------------------------
(* The theorems *)

LEMMA InvStep ==
  ASSUME IInv, [Next]_vars
  PROVE  IInv'
<1> SUFFICES PagesOK' /\ SocketsOK'
  BY DEF IInv, TypeOK, PagesOK, SocketsOK
<1>1. PagesOK /\ SocketsOK
  BY IInvParts
<1>2. ASSUME NEW c \in Client, Wait(c) \/ Direct(c) \/ DialWorker(c) \/ GiveUp(c)
      PROVE  PagesOK' /\ SocketsOK'
  <2>1. UNCHANGED bridgeVars
    BY <1>2 DEF Wait, Tunnel, AskTunnel, TunnelKnown, TunnelUnknown, Nap, Direct,
                DialWorker, GiveUp, bridgeVars
  <2>2. QED
    BY <1>1, <1>2, <2>1, PagesStep, SocketsKept
<1>3. ASSUME NEW c \in Client, Fetch(c) PROVE PagesOK' /\ SocketsOK'
  <2>1. PagesOK'
    BY <1>1, <1>3, PagesStep
  <2>2. CASE UpstreamRefuses(c)
    BY <1>1, <2>1, <2>2, SocketsKept DEF UpstreamRefuses, bridgeVars
  <2>3. ASSUME NEW choice, Join(c, choice) PROVE SocketsOK'
    BY <1>1, <2>3, JoinStep
  <2>4. QED
    BY <1>3, <2>1, <2>2, <2>3 DEF Fetch
<1>4. ASSUME NEW e \in Ends, Handle(e) \/ Outside(e) PROVE PagesOK' /\ SocketsOK'
  <2>1. UNCHANGED pageVars
    BY <1>4 DEF Handle, Message, Ended, Outside, PeerSends, PeerCloses, LinkBreaks,
                pageVars
  <2>2. SocketsOK'
    BY <1>1, <1>4, MessageStep, EndedStep, SendStep, LeaveStep DEF Handle, Outside
  <2>3. QED
    BY <1>1, <2>1, <2>2, PagesKept
<1>5. CASE UNCHANGED vars
  BY <1>1, <1>5, PagesKept, SocketsKept DEF vars, pageVars, bridgeVars
<1>6. QED
  BY <1>2, <1>3, <1>4, <1>5 DEF Next

(* Every reachable state of the worker and its clients satisfies the          *)
(* inductive invariant.                                                       *)
THEOREM AuthWorkerInvariant == Spec => []IInv
BY InvInit, InvStep, PTL DEF Spec

(* Types, and the bound of the polling loop (boot.js:560-573).                *)
THEOREM AuthWorkerTypeOK == Spec => []TypeOK
BY AuthWorkerInvariant, PTL DEF IInv

(* No page that falls back to the worker is turned away by it                 *)
(* (worker.js:109-130, 159-169, 276-286).                                     *)
THEOREM AuthWorkerPageServed == Spec => []PageServed
BY AuthWorkerInvariant, PTL DEF IInv

(* Each end receives what its own peer sent, in order and without a gap       *)
(* (worker.js:263-271).                                                       *)
THEOREM AuthWorkerInOrder == Spec => []InOrder
BY AuthWorkerInvariant, PTL DEF IInv

-----------------------------------------------------------------------------
(* The pipes *)

(* What an end has received, and what the object has still to pass on to it,  *)
(* was sent: also when a break or a closed socket has lost some of it.        *)
Causal == \A e \in Ends : Len(out[Opp(e)]) + Len(inq[e]) <= sent[e]

\* The lengths are numbers, of one message less for a tail and one more for
\* an added one.
LEMMA Lengths ==
  ASSUME TypeMessages, NEW e \in Ends
  PROVE  /\ Len(inq[e]) \in Nat /\ Len(out[e]) \in Nat
         /\ inq[e] # <<>> => Len(Tail(inq[e])) = Len(inq[e]) - 1
         /\ \A m : Len(Append(out[e], m)) = Len(out[e]) + 1
         /\ \A m : Len(Append(inq[e], m)) = Len(inq[e]) + 1
         /\ \A n \in 0..Len(inq[e]) : Len(SubSeq(inq[e], 1, n)) = n
BY DEF TypeMessages

\* Arithmetic, apart from the sequences it is used for.
LEMMA Least ==
  ASSUME NEW a \in Nat, NEW b \in Nat, NEW s \in Nat, a + b <= s, b >= 1
  PROVE  a < s
OBVIOUS

LEMMA OneOn ==
  ASSUME NEW a \in Nat, NEW b \in Nat, NEW s \in Nat, a + b <= s
  PROVE  /\ (a + 1) + (b - 1) <= s /\ a + (b - 1) <= s
         /\ a + (b + 1) <= s + 1
         /\ \A n \in 0..b : a + n <= s
OBVIOUS

LEMMA Numbers ==
  ASSUME TypeMessages, TypeSockets, NEW e \in Ends
  PROVE  Len(out[Opp(e)]) \in Nat /\ Len(inq[e]) \in Nat /\ sent[e] \in Nat
BY OppFacts, Lengths DEF TypeSockets

\* Steps of the page and of /tunnel leave the object alone.
LEMMA PagesAlone ==
  ASSUME NEW c \in Client,
         \/ Wait(c) \/ Direct(c) \/ DialWorker(c) \/ GiveUp(c)
         \/ UpstreamRefuses(c)
  PROVE  UNCHANGED bridgeVars
BY DEF Wait, Tunnel, AskTunnel, TunnelKnown, TunnelUnknown, Nap, Direct, DialWorker,
       GiveUp, UpstreamRefuses, bridgeVars

LEMMA CausalStep ==
  ASSUME IInv, Causal, [Next]_vars
  PROVE  Causal'
<1> USE DEF Causal
<1>1. TypeMessages /\ TypeSockets
  BY DEF IInv, TypeOK
<1>2. CASE UNCHANGED <<inq, out, sent>>
  BY <1>2
<1>3. ASSUME NEW e \in Ends, Message(e) PROVE Causal'
  <2>1. /\ inq[e] # <<>> /\ sent' = sent
        /\ inq' = [inq EXCEPT ![e] = Tail(inq[e])]
        /\ \/ out' = out
           \/ out' = [out EXCEPT ![Opp(e)] = Append(out[Opp(e)], Head(inq[e]))]
    BY <1>3 DEF Message, Peer
  <2>2. ASSUME NEW d \in Ends PROVE Len(out'[Opp(d)]) + Len(inq'[d]) <= sent'[d]
    <3>1. Opp(d) \in Ends /\ Opp(e) \in Ends /\ (Opp(d) = Opp(e) => d = e)
      BY OppFacts
    <3>2. CASE d = e
      <4>1. /\ inq'[e] = Tail(inq[e])
            /\ \/ out'[Opp(e)] = out[Opp(e)]
               \/ out'[Opp(e)] = Append(out[Opp(e)], Head(inq[e]))
        BY <1>1, <2>1, <3>1 DEF TypeMessages
      <4>2. Len(Tail(inq[e])) = Len(inq[e]) - 1
        BY <1>1, <2>1, Lengths
      <4>3. Len(Append(out[Opp(e)], Head(inq[e]))) = Len(out[Opp(e)]) + 1
        BY <1>1, <3>1, Lengths
      <4>4. Len(out[Opp(e)]) + Len(inq[e]) <= sent[e]
        OBVIOUS
      <4>5. QED
        BY <1>1, <2>1, <3>2, <4>1, <4>2, <4>3, <4>4, Numbers, OneOn
    <3>3. CASE d # e
      BY <1>1, <2>1, <3>1, <3>3 DEF TypeMessages
    <3>4. QED
      BY <3>2, <3>3
  <2>3. QED
    BY <2>2
<1>4. ASSUME NEW e \in Ends, PeerSends(e) PROVE Causal'
  <2>1. /\ sent' = [sent EXCEPT ![e] = sent[e] + 1] /\ out' = out
        /\ inq' = [inq EXCEPT ![e] = Append(inq[e], <<e, sent[e] + 1>>)]
    BY <1>4 DEF PeerSends
  <2>2. ASSUME NEW d \in Ends PROVE Len(out'[Opp(d)]) + Len(inq'[d]) <= sent'[d]
    <3>1. CASE d = e
      <4>1. Len(inq'[e]) = Len(inq[e]) + 1 /\ sent'[e] = sent[e] + 1
        BY <1>1, <2>1, Lengths DEF TypeMessages, TypeSockets
      <4>2. Len(out[Opp(e)]) + Len(inq[e]) <= sent[e]
        OBVIOUS
      <4>3. QED
        BY <1>1, <2>1, <3>1, <4>1, <4>2, Numbers, OneOn
    <3>2. CASE d # e
      BY <1>1, <2>1, <3>2 DEF TypeMessages, TypeSockets
    <3>3. QED
      BY <3>1, <3>2
  <2>3. QED
    BY <2>2
<1>5. ASSUME NEW e \in Ends, NEW n \in 0..Len(inq[e]), LinkBreaks(e, n)
      PROVE  Causal'
  <2>1. /\ inq' = [inq EXCEPT ![e] = SubSeq(inq[e], 1, n)]
        /\ out' = out /\ sent' = sent
    BY <1>5 DEF LinkBreaks
  <2>2. ASSUME NEW d \in Ends PROVE Len(out'[Opp(d)]) + Len(inq'[d]) <= sent'[d]
    <3>1. CASE d = e
      <4>1. Len(inq'[e]) = n
        BY <1>1, <2>1, Lengths DEF TypeMessages
      <4>2. Len(out[Opp(e)]) + Len(inq[e]) <= sent[e]
        OBVIOUS
      <4>3. QED
        BY <1>1, <2>1, <3>1, <4>1, <4>2, Numbers, OneOn
    <3>2. CASE d # e
      BY <2>1, <3>2, <1>1 DEF TypeMessages
    <3>3. QED
      BY <3>1, <3>2
  <2>3. QED
    BY <2>2
<1>6. ASSUME NEW c \in Client,
             Wait(c) \/ Direct(c) \/ DialWorker(c) \/ GiveUp(c) \/ Fetch(c)
      PROVE  UNCHANGED <<inq, out, sent>>
  BY <1>6, PagesAlone DEF Fetch, Join, bridgeVars
<1>7. ASSUME NEW e \in Ends,
             Ended(e) \/ \E code \in {"plain", "odd"} : PeerCloses(e, code)
      PROVE  UNCHANGED <<inq, out, sent>>
  BY <1>7 DEF Ended, PeerCloses
<1>8. CASE UNCHANGED vars
  BY <1>8 DEF vars, bridgeVars
<1>9. QED
  BY <1>2, <1>3, <1>4, <1>5, <1>6, <1>7, <1>8 DEF Next, Handle, Outside

LEMMA AuthWorkerCausal == Spec => []Causal
<1>1. Init => Causal
  BY OppFacts, EmptySeq DEF Init, Causal
<1>2. QED
  BY <1>1, CausalStep, AuthWorkerInvariant, PTL DEF Spec

(* What passes on one way is a receipt of the pipe: the message handled is    *)
(* the next one that the other end has sent.                                  *)
LEMMA MessageRefines ==
  ASSUME IInv, Causal, NEW e \in Ends, Message(e)
  PROVE  P!Receive(Opp(e)) \/ UNCHANGED P!pvars
<1> DEFINE d == Opp(e)
<1>1. d \in Ends /\ Opp(d) = e /\ TypeMessages /\ TypeSockets
  BY OppFacts DEF IInv, TypeOK
<1>2. sock' = sock /\ sent' = sent /\ inq[e] # <<>>
  BY <1>1 DEF Message
<1>3. CASE sock[d] # "open"
  BY <1>2, <1>3 DEF Message, Peer, P!pvars
<1>4. CASE sock[d] = "open"
  <2>1. out' = [out EXCEPT ![d] = Append(out[d], Head(inq[e]))]
    BY <1>4 DEF Message, Peer
  <2>2. Len(inq[e]) \in Nat /\ Len(out[d]) \in Nat /\ 1 \in 1..Len(inq[e])
        /\ Head(inq[e]) = inq[e][1]
    BY <1>1, <1>2, Lengths, HeadTailProperties, EmptySeq DEF TypeMessages
  <2>3. inq[e][1] = <<e, Len(out[d]) + 1>>
    BY <1>4, <2>2 DEF IInv, Continues
  <2>4. Len(out[d]) < sent[e]
    <3>1. Len(out[d]) + Len(inq[e]) <= sent[e]
      BY DEF Causal
    <3>2. Len(inq[e]) >= 1 /\ sent[e] \in Nat
      BY <1>1, <2>2 DEF TypeSockets
    <3>3. QED
      BY <2>2, <3>1, <3>2, Least
  <2>5. [f \in Ends |-> Opp(f)][d] = e
    BY <1>1
  <2> HIDE DEF d
  <2>6. P!Receive(d)
    BY <1>2, <1>4, <2>1, <2>2, <2>3, <2>4, <2>5 DEF P!Receive
  <2>7. QED
    BY <2>6 DEF d
<1>5. QED
  BY <1>3, <1>4

(* Sockets open only in pairs that were not there, and close for good.        *)
LEMMA SocketsRefine ==
  ASSUME IInv, \/ \E c \in Client : \E choice : Join(c, choice)
               \/ \E e \in Ends : Ended(e)
  PROVE  P!Turn
<1> USE DEF P!Turn
<1>1. TypeSockets /\ Paired
  BY DEF IInv, TypeOK
<1>2. ASSUME NEW c \in Client, NEW choice, Join(c, choice) PROVE P!Turn
  <2>1. sock' = [e \in Ends |-> IF e[1] = c THEN "open" ELSE sock[e]]
        /\ UNCHANGED <<sent, out>>
    BY <1>2 DEF Join
  <2>2. \A e \in Ends : e[1] = c => sock[e] = "none"
    <3> SUFFICES ASSUME NEW e \in Ends, e[1] = c PROVE sock[e] = "none"
      OBVIOUS
    <3>1. sock[<<c, "relay">>] = "none" /\ <<c, "relay">> \in Ends
      BY <1>2, RelayEnd DEF Join, Upgrading
    <3>2. e = <<c, "relay">> \/ e = Opp(<<c, "relay">>)
      BY <3>1, SameClient
    <3>3. QED
      BY <1>1, <3>1, <3>2 DEF Paired
  <2>3. QED
    BY <1>1, <2>1, <2>2 DEF TypeSockets
<1>3. ASSUME NEW e \in Ends, Ended(e) PROVE P!Turn
  <2>1. Opp(e) \in Ends /\ Opp(Opp(e)) = e
    BY OppFacts
  <2>2. sock[e] # "none" /\ sock[Opp(e)] # "none"
    BY <1>1, <1>3, <2>1 DEF Ended, Paired, Codes
  <2>3. UNCHANGED <<sent, out>>
    BY <1>3 DEF Ended
  <2>4. /\ sock' \in [Ends -> {"none", "open", "closed"}]
        /\ \A f \in Ends : \/ sock'[f] = sock[f]
                           \/ sock[f] # "none" /\ sock'[f] = "closed"
    BY <1>1, <1>3, <2>1, <2>2 DEF Ended, CloseSafely, SafeCode, TypeSockets
  <2>5. QED
    BY <2>3, <2>4
<1>4. QED
  BY <1>2, <1>3

(* The object implements the pipes of every pair (worker.js:217-295).         *)
THEOREM AuthWorkerImplementsPipes == Spec => ImplementsPipes
<1>1. Init => P!Init
  BY DEF Init, P!Init
<1>2. IInv /\ Causal /\ [Next]_vars => [P!Next]_(P!pvars)
  <2> SUFFICES ASSUME IInv, Causal, [Next]_vars
               PROVE  P!Next \/ UNCHANGED P!pvars
    OBVIOUS
  <2>1. ASSUME NEW c \in Client,
               \/ Wait(c) \/ Direct(c) \/ DialWorker(c) \/ GiveUp(c)
               \/ UpstreamRefuses(c)
        PROVE  UNCHANGED P!pvars
    BY <2>1, PagesAlone DEF bridgeVars, P!pvars
  <2>2. ASSUME NEW c \in Client, NEW choice, Join(c, choice) PROVE P!Next
    BY <2>2, SocketsRefine DEF P!Next
  <2>3. ASSUME NEW e \in Ends, Message(e) PROVE P!Next \/ UNCHANGED P!pvars
    BY <2>3, OppFacts, MessageRefines DEF P!Next
  <2>4. ASSUME NEW e \in Ends, Ended(e) PROVE P!Next
    BY <2>4, SocketsRefine DEF P!Next
  <2>5. ASSUME NEW e \in Ends, PeerSends(e) PROVE P!Next
    <3>1. P!Send(e)
      BY <2>5 DEF PeerSends, Up, P!Send
    <3>2. QED
      BY <3>1 DEF P!Next
  <2>6. ASSUME NEW e \in Ends,
               \/ \E code \in {"plain", "odd"} : PeerCloses(e, code)
               \/ \E n \in 0..Len(inq[e]) : LinkBreaks(e, n)
        PROVE  UNCHANGED P!pvars
    BY <2>6 DEF PeerCloses, LinkBreaks, P!pvars
  <2>7. CASE UNCHANGED vars
    BY <2>7 DEF vars, bridgeVars, P!pvars
  <2>8. QED
    BY <2>1, <2>2, <2>3, <2>4, <2>5, <2>6, <2>7 DEF Next, Fetch, Handle, Outside
<1>3. QED
  BY <1>1, <1>2, AuthWorkerInvariant, AuthWorkerCausal, PTL
     DEF Spec, ImplementsPipes, P!Spec

(* Only its own handler counts an end as handled.                             *)
LEMMA OnlyEnded ==
  ASSUME IInv, [Next]_vars, NEW f \in Ends, fin[f] # "told", fin'[f] = "told"
  PROVE  Ended(f)
<1>1. TypeSockets
  BY DEF IInv, TypeOK
<1>2. ASSUME NEW c \in Client,
             \/ Wait(c) \/ Direct(c) \/ DialWorker(c) \/ GiveUp(c)
             \/ UpstreamRefuses(c)
      PROVE  fin' = fin
  BY <1>2, PagesAlone DEF bridgeVars
<1>3. ASSUME NEW c \in Client, NEW choice, Join(c, choice)
      PROVE  fin'[f] \in {fin[f], "lost"}
  BY <1>1, <1>3 DEF Join, TypeSockets
<1>4. ASSUME NEW e \in Ends, Outside(e)
      PROVE  fin'[f] \in {fin[f], "plain", "odd", "lost"}
  BY <1>1, <1>4 DEF Outside, PeerSends, PeerCloses, LinkBreaks, TypeSockets
<1>5. ASSUME NEW e \in Ends, Message(e) PROVE fin' = fin
  BY <1>5 DEF Message
<1>6. ASSUME NEW e \in Ends, Ended(e) PROVE Ended(f)
  BY <1>1, <1>6 DEF Ended, TypeSockets
<1>7. QED
  BY <1>2, <1>3, <1>4, <1>5, <1>6 DEF Next, Fetch, Handle, vars, bridgeVars

(* Once the object has handled the end of one socket, the other is closed,    *)
(* and stays so: also after an odd close code, and when both ends go at once  *)
(* (worker.js:234-261, 268-273).                                              *)
THEOREM AuthWorkerPassedOn == Spec => []PassedOn
<1>1. Init => PassedOn
  BY DEF Init, PassedOn
<1>2. IInv /\ PassedOn /\ [Next]_vars => PassedOn'
  <2> SUFFICES ASSUME IInv, PassedOn, [Next]_vars, NEW f \in Ends, fin'[f] = "told"
               PROVE  sock'[Opp(f)] = "closed"
    BY DEF PassedOn
  <2>1. Opp(f) \in Ends /\ Opp(Opp(f)) = f /\ TypeSockets /\ Paired
    BY OppFacts DEF IInv, TypeOK
  <2>2. CASE fin[f] = "told"
    <3>1. sock[Opp(f)] = "closed"
      BY <2>2 DEF PassedOn
    <3>2. P!Turn \/ sock' = sock
      <4>1. ASSUME NEW c \in Client, NEW choice, Join(c, choice) PROVE P!Turn
        BY <4>1, SocketsRefine
      <4>2. ASSUME NEW e \in Ends, Ended(e) PROVE P!Turn
        BY <4>2, SocketsRefine
      <4>3. ASSUME NEW c \in Client,
                   \/ Wait(c) \/ Direct(c) \/ DialWorker(c) \/ GiveUp(c)
                   \/ UpstreamRefuses(c)
            PROVE  sock' = sock
        BY <4>3, PagesAlone DEF bridgeVars
      <4>4. ASSUME NEW e \in Ends, Message(e) \/ Outside(e) PROVE sock' = sock
        BY <4>4 DEF Message, Outside, PeerSends, PeerCloses, LinkBreaks
      <4>5. QED
        BY <4>1, <4>2, <4>3, <4>4 DEF Next, Fetch, Handle, vars, bridgeVars
    <3>3. QED
      BY <2>1, <3>1, <3>2 DEF P!Turn
  <2>3. CASE fin[f] # "told"
    <3>1. Ended(f)
      BY <2>3, OnlyEnded
    <3>2. QED
      BY <2>1, <3>1 DEF Ended, CloseSafely, SafeCode, TypeSockets
  <2>4. QED
    BY <2>2, <2>3
<1>3. QED
  BY <1>1, <1>2, AuthWorkerInvariant, PTL DEF Spec

(* NothingCut: what an end that closes in good order sent before is passed on *)
(* before its close is.                                                       *)
THEOREM AuthWorkerNothingCut == Spec => NothingCut
<1> DEFINE Whole(e) ==
      fin[e] \in {"plain", "odd"} /\ fin'[e] = "told" /\ sock[Opp(e)] = "open"
        => Len(out[Opp(e)]) = sent[e]
<1>1. ASSUME IInv, [Next]_vars, NEW e \in Ends PROVE Whole(e)
  <2> SUFFICES ASSUME fin[e] \in {"plain", "odd"}, fin'[e] = "told",
                      sock[Opp(e)] = "open"
               PROVE  Len(out[Opp(e)]) = sent[e]
    OBVIOUS
  <2>1. Ended(e)
    BY <1>1, OnlyEnded
  <2>2. Continues /\ TypeMessages /\ TypeSockets /\ Opp(e) \in Ends
    BY <1>1, OppFacts DEF IInv, TypeOK
  <2>3. inq[e] = <<>> /\ Len(inq[e]) = 0 /\ Len(out[Opp(e)]) \in Nat
    BY <2>1, <2>2, EmptySeq, LenProperties DEF Ended, TypeMessages
  <2>4. sent[e] = Len(out[Opp(e)]) + Len(inq[e])
    BY <2>2 DEF Continues, Orderly
  <2>5. QED
    BY <2>3, <2>4
<1>2. IInv /\ [Next]_vars => [\A e \in Ends : Whole(e)]_vars
  BY <1>1
<1>3. QED
  BY <1>2, AuthWorkerInvariant, PTL DEF Spec, NothingCut
=============================================================================
