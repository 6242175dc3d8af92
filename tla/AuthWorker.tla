------------------------------ MODULE AuthWorker ------------------------------
(* The auth worker (worker.js) as the page uses it: the wait for the tunnel's *)
(* host through /tunnel (boot.js 556-583, worker.js 138-180), and the relay   *)
(* through /relay and the RelayProxy Durable Object (worker.js 104-134,       *)
(* 217-295), which joins the browser's WebSocket to one it opens to the relay.*)
(*                                                                            *)
(* Clients are pages, or tries of one page, that reach the same object.  The  *)
(* object handles one event at a time; each socket brings its messages in     *)
(* order and its end last.                                                    *)
EXTENDS Naturals, Sequences

CONSTANTS
  Client,
  NoClient,   \* null
  MaxPolls,   \* repeated polls of /tunnel (40 in boot.js)
  MaxSent     \* bound: messages sent in one behaviour

ASSUME ClientAssumption == NoClient \notin Client
ASSUME PollsAssumption == MaxPolls \in Nat

Ends == Client \X {"browser", "relay"}
Opp(e) == <<e[1], IF e[2] = "browser" THEN "relay" ELSE "browser">>

VARIABLES
  page,   \* [Client -> where the page is]
  names,  \* [Client -> clusterId and tunnelId of its tunnelProperties]
  polls,  \* [Client -> i of the polling loop]
  uri,    \* [Client -> workerRelayUri: whose address, with which names]
  sock,   \* [Ends -> the object's socket to that end: "none", "open", "closed"]
  inq,    \* [Ends -> messages of that end the object has still to handle]
  fin,    \* [Ends -> how that end has ended: see Codes; "told" once handled]
  out,    \* [Ends -> history: what the object sent to that end]
  sent,   \* [Ends -> number of messages that end has sent]
  load,   \* their sum, for the bound
  bridge  \* the client whose pair `_bridge` refers to, or NoClient

pageVars == <<page, names, polls, uri>>
bridgeVars == <<sock, inq, fin, out, sent, load, bridge>>
vars == <<pageVars, bridgeVars>>

\* Close codes: "plain" ones may be passed to close(), "odd" ones may not;
\* "lost" is a connection that broke: an error event, then a close with 1006.
Codes == {"plain", "odd", "lost"}
Names == {"formed", "malformed"}
Uris == {"service", "proxy"} \X Names
NoUri == <<"none", "malformed">>

Polling == {"poll", "asked", "nap"}
Pages == Polling \union {"dial", "direct", "upgrading", "gone", "open",
                         "failed", "rejected"}

Init ==
  /\ page = [c \in Client |-> "poll"]
  /\ names \in [Client -> Names]
  /\ polls = [c \in Client |-> 0]
  /\ uri = [c \in Client |-> NoUri]
  /\ sock = [e \in Ends |-> "none"]
  /\ inq = [e \in Ends |-> <<>>]
  /\ fin = [e \in Ends |-> "none"]
  /\ out = [e \in Ends |-> <<>>]
  /\ sent = [e \in Ends |-> 0] /\ load = 0 /\ bridge = NoClient

-----------------------------------------------------------------------------
(* /tunnel and the page's loop around it *)

Goto(c, p) == page' = [page EXCEPT ![c] = p]

\* Both routes check the two names against the same patterns.
WellFormed(n) == n = "formed"

(* The page asks; the worker refuses parameters that are not well formed. *)
AskTunnel(c) ==
  /\ page[c] = "poll"
  /\ Goto(c, IF WellFormed(names[c]) THEN "asked" ELSE "failed")
  /\ UNCHANGED <<names, polls, uri, bridgeVars>>

(* Mutant: the relay address the service gives is passed through. *)
PassedThrough(c) == <<"service", names[c]>>

Rewritten(c) == <<"proxy", names[c]>>

(* Mutant: the page goes on polling until it sees a host. *)
HostOnly(c, hostUp) == hostUp

Enough(c, hostUp) == hostUp \/ polls[c] >= MaxPolls

(* The service's tunnel has an endpoint, and perhaps a host. *)
TunnelKnown(c, hostUp) ==
  /\ page[c] = "asked"
  /\ uri' = [uri EXCEPT ![c] = Rewritten(c)]
  /\ \/ ~Enough(c, hostUp) /\ Goto(c, "nap") /\ UNCHANGED polls
     \/ /\ Enough(c, hostUp) /\ Goto(c, "dial")
        /\ polls' = [polls EXCEPT ![c] = 0]   \* i goes out of scope
  /\ UNCHANGED <<names, bridgeVars>>

(* The service refuses or fails, its answer does not parse (and is passed     *)
(* through), or it names no endpoint: the page throws.                        *)
TunnelUnknown(c) ==
  /\ page[c] = "asked"
  /\ Goto(c, "failed")
  /\ polls' = [polls EXCEPT ![c] = 0]
  /\ UNCHANGED <<names, uri, bridgeVars>>

(* Mutant: the loop does not count. *)
Uncounted(c) == polls[c]

Counted(c) == polls[c] + 1

Nap(c) ==
  /\ page[c] = "nap"
  /\ polls' = [polls EXCEPT ![c] = Counted(c)]
  /\ Goto(c, "poll")
  /\ UNCHANGED <<names, uri, bridgeVars>>

-----------------------------------------------------------------------------
(* /relay *)

(* The page reaches the relay without the worker. *)
Direct(c) ==
  /\ page[c] = "dial"
  /\ Goto(c, "direct")
  /\ UNCHANGED <<names, polls, uri, bridgeVars>>

(* The page falls back to workerRelayUri.  The worker refuses a path that is  *)
(* not well formed, and hands the request to the object otherwise.            *)
DialWorker(c) ==
  /\ page[c] = "dial"
  /\ Goto(c, IF uri[c][1] = "proxy" /\ WellFormed(uri[c][2])
             THEN "upgrading" ELSE "rejected")
  /\ UNCHANGED <<names, polls, uri, bridgeVars>>

(* The browser closes a socket that did not open within 7 s. *)
GiveUp(c) ==
  /\ page[c] = "upgrading"
  /\ Goto(c, "gone")
  /\ UNCHANGED <<names, polls, uri, bridgeVars>>

-----------------------------------------------------------------------------
(* RelayProxy.fetch *)

\* What the page offers besides its token, and what the object knows.
Known == {"tunnel-relay-client", "tunnel-relay-client-v2-dev"}
Offered == {"tunnel-relay-client", "token"}

(* Mutant: the upstream's choice is returned as it is. *)
AsUpstream(choice) == choice

(* The subprotocol returned to the browser: the upstream's choice if it was   *)
(* offered, or else the known one that was.                                   *)
Negotiated(choice) ==
  IF choice \in Offered THEN choice ELSE CHOOSE p \in Offered \intersect Known : TRUE

Upgrading(c) == page[c] \in {"upgrading", "gone"} /\ sock[<<c, "relay">>] = "none"

(* The relay upgrades.  Both sockets are accepted and joined, and the browser *)
(* gets its 101, which it refuses when the subprotocol was not offered.       *)
Join(c, choice) ==
  LET served == Negotiated(choice) \in Offered
  IN /\ Upgrading(c)
     /\ sock' = [e \in Ends |-> IF e[1] = c THEN "open" ELSE sock[e]]
     /\ page' = [page EXCEPT ![c] = CASE @ = "gone" -> "gone"
                                      [] @ # "gone" /\ served -> "open"
                                      [] OTHER -> "rejected"]
     /\ fin' = [fin EXCEPT ![<<c, "browser">>] =
                  IF page[c] = "gone" \/ ~served THEN "lost" ELSE @]
     /\ bridge' = c
     /\ UNCHANGED <<names, polls, uri, inq, out, sent, load>>

(* The fetch throws, or the relay answers without a WebSocket: 502. *)
UpstreamRefuses(c) ==
  /\ Upgrading(c)
  /\ Goto(c, "failed")
  /\ UNCHANGED <<names, polls, uri, bridgeVars>>

-----------------------------------------------------------------------------
(* The event handlers of a joined pair, for the socket to end e *)

(* Mutant: handlers look their pair up in _bridge, the latest one joined. *)
Latest(e) == <<bridge, Opp(e)[2]>>

Peer(e) == Opp(e)

(* "message": sent on to the other end, or dropped if that socket is closed.  *)
Message(e) ==
  /\ inq[e] # <<>>
  /\ inq' = [inq EXCEPT ![e] = Tail(@)]
  /\ out' = IF sock[Peer(e)] = "open"
            THEN [out EXCEPT ![Peer(e)] = Append(@, Head(inq[e]))] ELSE out
  /\ UNCHANGED <<pageVars, sock, fin, sent, load, bridge>>

(* Mutant: the code received is passed on as it is. *)
AnyCode(code) == code

SafeCode(code) == "plain"

\* closeSafely: close() throws for an odd code, and the exception is dropped.
CloseSafely(e, code) ==
  IF SafeCode(code) = "plain" THEN [sock EXCEPT ![e] = "closed"] ELSE sock

(* "close", or "error" and the close after it.  The socket that was closed    *)
(* under the object stays open for sending until the object closes it, too.   *)
Ended(e) ==
  LET cl == CloseSafely(Opp(e), fin[e])
  IN /\ inq[e] = <<>> /\ fin[e] \in Codes
     /\ fin' = [fin EXCEPT ![e] = "told"]
     /\ sock' = IF fin[e] = "lost" THEN [cl EXCEPT ![e] = "closed"] ELSE cl
     /\ UNCHANGED <<pageVars, inq, out, sent, load, bridge>>

-----------------------------------------------------------------------------
(* The browser, the relay and their links *)

Up(e) == sock[e] # "none" /\ fin[e] = "none"

PeerSends(e) ==
  /\ Up(e)
  /\ load < MaxSent
  /\ load' = load + 1
  /\ sent' = [sent EXCEPT ![e] = @ + 1]
  /\ inq' = [inq EXCEPT ![e] = Append(@, <<e, sent[e] + 1>>)]
  /\ UNCHANGED <<pageVars, sock, fin, out, bridge>>

PeerCloses(e, code) ==
  /\ Up(e)
  /\ fin' = [fin EXCEPT ![e] = code]
  /\ UNCHANGED <<pageVars, sock, inq, out, sent, load, bridge>>

(* The connection breaks, with messages still on the way. *)
LinkBreaks(e, n) ==
  /\ Up(e)
  /\ inq' = [inq EXCEPT ![e] = SubSeq(@, 1, n)]
  /\ fin' = [fin EXCEPT ![e] = "lost"]
  /\ UNCHANGED <<pageVars, sock, out, sent, load, bridge>>

-----------------------------------------------------------------------------
Tunnel(c) == TunnelUnknown(c) \/ \E hostUp \in BOOLEAN : TunnelKnown(c, hostUp)
Wait(c) == AskTunnel(c) \/ Tunnel(c) \/ Nap(c)
Fetch(c) == UpstreamRefuses(c) \/ \E p \in Known \union {"none"} : Join(c, p)
Handle(e) == Message(e) \/ Ended(e)

Outside(e) ==
  \/ PeerSends(e)
  \/ \E code \in {"plain", "odd"} : PeerCloses(e, code)
  \/ \E n \in 0..Len(inq[e]) : LinkBreaks(e, n)

Next ==
  \/ \E c \in Client : Wait(c) \/ Direct(c) \/ DialWorker(c) \/ GiveUp(c) \/ Fetch(c)
  \/ \E e \in Ends : Handle(e) \/ Outside(e)

\* Requests are answered or fail, timers and queued events run.
Fairness ==
  /\ \A c \in Client : WF_vars(Wait(c))
  /\ \A e \in Ends : WF_vars(Handle(e))

Spec == Init /\ [][Next]_vars /\ Fairness

-----------------------------------------------------------------------------
(* Properties *)

TypePages ==
  /\ page \in [Client -> Pages] /\ names \in [Client -> Names]
  /\ polls \in [Client -> 0..MaxPolls]
  /\ uri \in [Client -> Uris \union {NoUri}]

TypeSockets ==
  /\ sock \in [Ends -> {"none", "open", "closed"}]
  /\ fin \in [Ends -> Codes \union {"none", "told"}]
  /\ sent \in [Ends -> Nat] /\ load \in Nat
  /\ bridge \in Client \union {NoClient}

TypeMessages ==
  /\ inq \in [Ends -> Seq(Ends \X Nat)] /\ out \in [Ends -> Seq(Ends \X Nat)]

(* Types; the polling loop never counts beyond its limit.                     *)
TypeOK == TypePages /\ TypeSockets /\ TypeMessages

(* A page that falls back to the worker is served: the address /tunnel handed *)
(* it is one /relay accepts, and the browser accepts the subprotocol of the   *)
(* answer, whatever the relay chose.                                          *)
PageServed == \A c \in Client : page[c] # "rejected"

(* What an end receives is what the end joined to it sent, in order, without  *)
(* a gap and with nothing of another pair's, whichever ends close or break.   *)
InOrder ==
  \A e \in Ends : \A i \in 1..Len(out[e]) : out[e][i] = <<Opp(e), i>>

P == INSTANCE Pipes
       WITH End <- Ends, Source <- [e \in Ends |-> Opp(e)],
            state <- sock, received <- out

(* The object's sockets, event queues and handlers implement a pipe each way  *)
(* between the ends of a pair, whichever ends close or break, and however the *)
(* events of several pairs interleave.                                        *)
ImplementsPipes == P!Spec

(* The close of an end that closes in good order comes behind its messages:   *)
(* all of them have been passed on, unless the other end was gone by then.    *)
NothingCut ==
  [][\A e \in Ends :
       fin[e] \in {"plain", "odd"} /\ fin'[e] = "told" /\ sock[Opp(e)] = "open"
         => Len(out[Opp(e)]) = sent[e]]_vars

(* An end whose end the object has handled has left nothing open behind it.   *)
PassedOn == \A e \in Ends : fin[e] = "told" => sock[Opp(e)] = "closed"

(* When one end of a pair ends, the socket to the other is closed, whatever   *)
(* the close code: no half of a session stays behind.                         *)
EndsPassOn ==
  \A e \in Ends : fin[e] # "none" ~> sock[Opp(e)] = "closed"

(* The wait for the tunnel's host ends, whether or not a host comes.          *)
PollEnds == \A c \in Client : page[c] \in Polling ~> page[c] \notin Polling
=============================================================================
