----------------------------- MODULE Reconnect ------------------------------
(***************************************************************************)
(* A page on a phone and a daemon, with a network between them that loses  *)
(* connections at the worst moment: before the request arrives, after it,  *)
(* or with the answer under way.                                           *)
(***************************************************************************)
EXTENDS AttachGate, PageLink

CONSTANT MaxFaults   \* bound: connections lost, reloads and crashes

VARIABLES
  up,       \* up[s]: the upgrade request under way, or NoRequest
  down,     \* down[s]: what the daemon has sent and the page has not read
  served,   \* sockets the daemon has attached
  tapped,   \* history: the ticket of the user's last tap
  faults

wireVars == <<up, down, served>>

rcVars == <<gateVars, pageVars, wireVars, tapped, faults>>

Free == {s \in Socket : ~Live(s) /\ up[s] = NoRequest}

NewSocket == CHOOSE s \in Free : TRUE

Append2All(socks, what) == [s \in Socket |-> IF s \in socks THEN down[s] \o Say(what) ELSE down[s]]

Fault == faults < MaxFaults /\ faults' = faults + 1

(* The wire after a step of the page: new sockets send their request, and  *)
(* nothing more is read from closed ones.  A request that is under way     *)
(* arrives all the same.                                                   *)
WireFollows ==
  /\ up' = [s \in Socket |-> IF ~Live(s) /\ Live(s)' THEN shows'[s] ELSE up[s]]
  /\ down' = [s \in Socket |-> IF Live(s)' THEN down[s] ELSE <<>>]
  /\ served' = {s \in served : Live(s)'}
---------------------------------------------------------------------------
RcInit ==
  /\ GateInit /\ PageInit
  /\ up = [s \in Socket |-> NoRequest]
  /\ down = [s \in Socket |-> <<>>]
  /\ served = {} /\ tapped = NoTicket /\ faults = 0

UserTaps(t, n) ==
  /\ Free # {} /\ SignTicket(t, n) /\ Tap(NewSocket, t) /\ tapped' = t
  /\ WireFollows /\ UNCHANGED faults

(* The daemon's close frame has come and onclose has not run yet.          *)
Closing ==
  /\ ws # NoSocket /\ Live(ws) /\ down[ws] # <<>>
  /\ Head(down[ws]).is \in {"ended", "unpaired", "gone"}

PageConnects ==
  /\ Free # {}
  /\ \/ Reload(NewSocket) /\ Fault
     \/ ShowAgain(NewSocket, Closing) /\ UNCHANGED faults
  /\ WireFollows /\ UNCHANGED <<gateVars, tapped>>

PageRetries ==
  /\ Free # {} /\ TimerFires(NewSocket)
  /\ WireFollows /\ UNCHANGED <<gateVars, tapped, faults>>

(* The page reads the next word from the daemon.                           *)
Hears(s, w) ==
  \/ w.is = "open" /\ OnOpen(s)
  \/ w.is = "key" /\ OnSession(w.key)
  \/ w.is \in {"refused", "ended", "unpaired", "gone", "lost"} /\ OnClose(s, w.is)

Deliver(s) ==
  /\ Live(s) /\ down[s] # <<>> /\ Hears(s, Head(down[s]))
  /\ down' = [down EXCEPT ![s] = IF Live(s)' THEN Tail(@) ELSE <<>>]
  /\ served' = {k \in served : Live(k)'}
  /\ UNCHANGED <<gateVars, up, tapped, faults>>

(* The daemon handles a request; the page may have given it up meanwhile.  *)
Answer(s) ==
  /\ up[s] # NoRequest
  /\ \E reply \in Reply :
       /\ Upgrade(up[s], reply)
       /\ down' = IF Live(s) THEN [down EXCEPT ![s] = reply] ELSE down
       /\ served' = IF Live(s) /\ reply \notin {Say("refused"), Say("open") \o Say("unpaired")}
                    THEN served \cup {s} ELSE served
  /\ up' = [up EXCEPT ![s] = NoRequest]
  /\ UNCHANGED <<pageVars, tapped, faults>>

(* attach() fails, or the relay of this one connection dies: code 1011.    *)
RelayDies(s) ==
  /\ s \in served /\ Fault
  /\ down' = Append2All({s}, "gone") /\ served' = served \ {s}
  /\ UNCHANGED <<gateVars, pageVars, up, tapped>>

DaemonShutsDown ==
  /\ Shutdown
  /\ down' = Append2All(served, "ended") /\ served' = {}
  /\ UNCHANGED <<pageVars, up, tapped, faults>>

DaemonExits ==
  /\ Exit
  /\ \/ life = "stopping" /\ UNCHANGED faults
     \/ life = "up" /\ Fault
  /\ down' = Append2All(served, "lost") /\ served' = {}
  /\ UNCHANGED <<pageVars, up, tapped>>

DaemonStarts == Start /\ UNCHANGED <<pageVars, wireVars, tapped, faults>>

PhonePairsOrUnpairs == PairOrUnpair /\ UNCHANGED <<pageVars, wireVars, tapped, faults>>

PaneEnds == PaneDies /\ UNCHANGED <<pageVars, wireVars, tapped, faults>>

TimePasses == Tick /\ UNCHANGED <<pageVars, wireVars, tapped, faults>>

(* The network drops a connection, with or without the request on it.      *)
Lost(s) ==
  /\ Live(s) /\ Fault /\ OnClose(s, "lost")
  /\ up' \in {up, [up EXCEPT ![s] = NoRequest]}
  /\ down' = [down EXCEPT ![s] = <<>>] /\ served' = served \ {s}
  /\ UNCHANGED <<gateVars, tapped>>

RcNext ==
  \/ \E t \in Ticket, n \in 1..MaxSessions : UserTaps(t, n)
  \/ PageConnects
  \/ PageRetries
  \/ \E s \in Socket : Deliver(s)
  \/ \E s \in Socket : Answer(s)
  \/ \E s \in Socket : RelayDies(s)
  \/ \E s \in Socket : Lost(s)
  \/ DaemonShutsDown
  \/ DaemonExits
  \/ DaemonStarts
  \/ PhonePairsOrUnpairs
  \/ PaneEnds
  \/ TimePasses

RcSpec == RcInit /\ [][RcNext]_rcVars

(* The event loops of both ends run, and what is not lost arrives.         *)
FairRcSpec ==
  /\ RcSpec
  /\ WF_rcVars(PageRetries)
  /\ \A s \in Socket : WF_rcVars(Deliver(s)) /\ WF_rcVars(Answer(s))
---------------------------------------------------------------------------
TypeOK ==
  /\ GateTypeOK
  /\ ticket \in signed \cup {NoTicket} /\ key \in Key \cup {NoKey}
  /\ timer \in BOOLEAN /\ ws \in Socket \cup {NoSocket}
  /\ phone \in [Socket -> {"none", "connecting", "open"}]
  /\ shows \in [Socket -> Request \cup {NoRequest}]
  /\ told \in {"none", "refused", "ended", "unpaired", "gone", "lost"}
  /\ up \in [Socket -> Request \cup {NoRequest}]
  /\ \A s \in Socket : down[s] \in Seq(Word)
  /\ served \subseteq Socket
  /\ tapped \in Ticket \cup {NoTicket} /\ faults \in 0..MaxFaults

(* The page has one socket at a time, the one in ws, and no timer that     *)
(* would open another (term.js:508-509 "connecting again would leave two   *)
(* live sockets both writing to the same terminal").                       *)
OneLiveSocket ==
  \A s \in Socket : Live(s) => s = ws /\ ~timer

(* A page that has stopped - no socket, no timer - was told the end of the *)
(* session or of the pairing, or has nothing left to show: while a ticket  *)
(* or a key is in hand it goes on, whatever closed the last socket.        *)
StopsForAReason ==
  \/ timer
  \/ \E s \in Socket : Live(s)
  \/ told \in {"ended", "unpaired"}
  \/ ticket = NoTicket /\ key = NoKey

(* Whatever a connection still had to say when the user opened the card    *)
(* again, the stored key is one that the last ticket brought               *)
(* (term.js:536-540: a fresh ticket supersedes any stored key).            *)
KeyIsOfTheLastTap == key # NoKey => key.of = tapped

Attached == \E s \in Socket : phone[s] = "open"

(* A ticket that the daemon would take gets the page in, however many      *)
(* connections were lost before, unless the ticket runs out or is used up  *)
(* or the session ends meanwhile.                                          *)
Usable == ticket # NoTicket /\ Good(ticket, age) /\ paired /\ paneAlive /\ life = "up"

TicketGetsIn == Usable ~> (Attached \/ ~Usable)
=============================================================================
