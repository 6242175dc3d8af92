------------------------------- MODULE PortWait -------------------------------
(* What WaitForPort promises its callers (tunnel.go 44-59, 97-100): a port    *)
(* that is there never has to be waited for, a call that returns nil asked    *)
(* for a port the host has forwarded, one that returns an error was out of    *)
(* time, and no call returns twice.  Nothing is said of channels and lists.   *)
CONSTANTS Ports, Calls, NoPort

VARIABLES
  forwarded,  \* the ports forwarded so far
  asked,      \* [Calls -> the port it asks for, once made]
  late,       \* the calls whose time is up
  answer      \* [Calls -> "new", "waiting", "ok" or "timeout"]

wvars == <<forwarded, asked, late, answer>>

Init ==
  /\ forwarded = {} /\ late = {}
  /\ asked = [c \in Calls |-> NoPort]
  /\ answer = [c \in Calls |-> "new"]

Forward(p) ==
  /\ forwarded' = forwarded \union {p}
  /\ UNCHANGED <<asked, late, answer>>

Ask(c, p) ==
  /\ answer[c] = "new" /\ p \notin forwarded
  /\ asked' = [asked EXCEPT ![c] = p]
  /\ answer' = [answer EXCEPT ![c] = "waiting"]
  /\ UNCHANGED <<forwarded, late>>

\* A call for a port already there is answered at once.
AskKnown(c, p) ==
  /\ answer[c] = "new" /\ p \in forwarded
  /\ asked' = [asked EXCEPT ![c] = p]
  /\ answer' = [answer EXCEPT ![c] = "ok"]
  /\ UNCHANGED <<forwarded, late>>

TimeUp(c) ==
  /\ answer[c] = "waiting"
  /\ late' = late \union {c}
  /\ UNCHANGED <<forwarded, asked, answer>>

Succeed(c) ==
  /\ answer[c] = "waiting" /\ asked[c] \in forwarded
  /\ answer' = [answer EXCEPT ![c] = "ok"]
  /\ UNCHANGED <<forwarded, asked, late>>

GiveUp(c) ==
  /\ answer[c] = "waiting" /\ c \in late
  /\ answer' = [answer EXCEPT ![c] = "timeout"]
  /\ UNCHANGED <<forwarded, asked, late>>

Next ==
  \/ \E p \in Ports :
       Forward(p) \/ \E c \in Calls : Ask(c, p) \/ AskKnown(c, p)
  \/ \E c \in Calls : TimeUp(c) \/ Succeed(c) \/ GiveUp(c)

Spec == Init /\ [][Next]_wvars
=============================================================================
