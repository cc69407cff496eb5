--------------------------- MODULE ReconnectProofs --------------------------
(***************************************************************************)
(* Theorems about the attach gate and the page's reconnecting: any number  *)
(* of tickets, sockets, sessions, lost connections and restarts.           *)
(***************************************************************************)
EXTENDS Reconnect, SequenceTheorems, TLAPS

(* Why a ticket that opened a connection will not open another: its nonce  *)
(* is remembered, or it has run out, or it is for a session that is over,  *)
(* or the daemon's memory went together with its session.                  *)
Spent(t) == t \in nonces \/ Expired(t) \/ signedFor[t] < session \/ life = "down"

SpentOnce == \A t \in Ticket : opened[t] > 0 => t \in signed /\ Spent(t)

SignedInTime == \A t \in signed : signedFor[t] <= session

(* A ticket that opened a second connection has run out for good.          *)
StraddledRanOut == \A t \in straddled : Expired(t)

GateInv == GateTypeOK /\ TicketOpensOnce /\ SpentOnce /\ SignedInTime /\ StraddledRanOut

LEMMA GateStarts ==
  ASSUME GateInit
  PROVE  GateInv
BY GateAssumption DEF GateInit, GateInv, GateTypeOK, TicketOpensOnce, SpentOnce, SignedInTime,
                       StraddledRanOut

(* Time, the phone, the pane and the process's life.                       *)
LEMMA OthersKeepInv ==
  ASSUME GateInv,
         \/ \E t \in Ticket, n \in 1..MaxSessions : SignTicket(t, n)
         \/ Tick \/ PairOrUnpair \/ PaneDies \/ Shutdown \/ Exit \/ Start
         \/ UNCHANGED gateVars
  PROVE  GateInv'
<1> USE GateAssumption DEF GateInv, GateTypeOK
<1>1. ASSUME NEW t \in Ticket, NEW n \in 1..MaxSessions, SignTicket(t, n) PROVE GateInv'
  BY <1>1 DEF SignTicket, TicketOpensOnce, SpentOnce, Spent, SignedInTime, Expired, usedVars,
              StraddledRanOut
<1>2. CASE Tick
  BY <1>2 DEF Tick, Older, TicketOpensOnce, SpentOnce, Spent, SignedInTime, Expired, usedVars,
              StraddledRanOut
<1>3. CASE PairOrUnpair \/ PaneDies \/ UNCHANGED gateVars
  BY <1>3 DEF PairOrUnpair, PaneDies, gateVars, TicketOpensOnce, SpentOnce, Spent, SignedInTime,
              Expired, usedVars, StraddledRanOut
<1>4. CASE Shutdown
  BY <1>4 DEF Shutdown, TicketOpensOnce, SpentOnce, Spent, SignedInTime, Expired, usedVars,
              StraddledRanOut
<1>5. CASE Exit
  BY <1>5 DEF Exit, TicketOpensOnce, SpentOnce, Spent, SignedInTime, Expired, usedVars,
              StraddledRanOut
<1>6. CASE Start
  BY <1>6 DEF Start, TicketOpensOnce, SpentOnce, Spent, SignedInTime, Expired, usedVars,
              StraddledRanOut
<1> QED
  BY <1>1, <1>2, <1>3, <1>4, <1>5, <1>6

(* Whatever is shown, and by whomever.                                     *)
LEMMA UpgradeKeepsInv ==
  ASSUME NEW r, NEW reply, GateInv, Upgrade(r, reply)
  PROVE  GateInv'
<1> USE DEF GateInv, GateTypeOK
<1>0. UNCHANGED <<life, session, paneAlive, paired, signed, signedFor>>
  BY DEF Upgrade
<1>1. CASE UpgradeNobodyHome(r, reply) \/ UpgradeUnpaired(r, reply)
  <2>1. UNCHANGED gateVars
    BY <1>0, <1>1 DEF UpgradeNobodyHome, UpgradeUnpaired, gateVars
  <2> QED
    BY <2>1, OthersKeepInv
<1>2. CASE UpgradeTicket(r, reply)
  <2> DEFINE t == r.it
  <2>0. PICK now \in {age, Older} : UpgradeTicket(r, reply)!2!(now)
    BY <1>2 DEF UpgradeTicket
  <2>a. life # "down" /\ r.by = "ticket" /\ age' = now
    BY <1>2, <2>0 DEF UpgradeTicket
  <2>b. now \in [Ticket -> 0..(Lifetime + 1)] /\ \A k \in Ticket : age[k] <= now[k]
    BY GateAssumption DEF Older, Expired
  <2>c. \A k \in Ticket : Expired(k) => Expired(k)'
    BY <2>a, <2>b, GateAssumption DEF Expired
  <2>d. \A k \in nonces : k \in Remembered(now) \/ Expired(k)'
    BY <2>a, <2>b, GateAssumption DEF Remembered, Expired
  <2>1. CASE ~Good(t, now)
    <3>1. UNCHANGED <<keys, issued, opened, straddled>>
      BY <2>0, <2>1 DEF Turned
    <3>2. nonces' = nonces \/ nonces' = Remembered(now)
      BY <2>0, <2>1
    <3>3. SpentOnce'
      BY <1>0, <2>c, <2>d, <3>1, <3>2 DEF SpentOnce, Spent
    <3> QED
      BY <1>0, <2>a, <2>b, <2>c, <3>1, <3>2, <3>3
         DEF TicketOpensOnce, SignedInTime, Remembered, StraddledRanOut
  <2>2. CASE Good(t, now)
    <3>1. t \in Ticket /\ t \in signed /\ ~Expired(t) /\ signedFor[t] = session
      BY <2>2 DEF Good, Verified
    <3>2. nonces' = Remembered(now) \cup {t} /\ straddled' = straddled \cup (nonces \cap {t})
      BY <2>0, <2>2
    <3>3. t \notin straddled /\ opened[t] <= 1
      BY <3>1 DEF StraddledRanOut, TicketOpensOnce
    <3>4. t \in nonces => Expired(t)'
      BY <2>2, <2>d DEF Good
    <3>5. opened[t] > 0 => t \in nonces
      BY <2>a, <3>1 DEF SpentOnce, Spent
    <3>6. StraddledRanOut'
      BY <2>c, <3>2, <3>4 DEF StraddledRanOut
    <3>7. \A k \in Ticket : opened'[k] > 0 /\ k # t => opened[k] > 0
      BY <2>0, <2>2, <2>a DEF AdmitOrTurn, Admit, Turned
    <3>8. SpentOnce'
      BY <1>0, <2>c, <2>d, <3>1, <3>2, <3>7 DEF SpentOnce, Spent
    <3>9. CASE Turned(reply)
      BY <1>0, <2>a, <2>b, <3>1, <3>2, <3>6, <3>8, <3>9
         DEF Turned, TicketOpensOnce, SignedInTime, Remembered
    <3>10. CASE Admit(r, reply)
      <4>1. /\ opened' = [opened EXCEPT ![t] = @ + 1]
            /\ issued' = [issued EXCEPT ![t] = @ + 1]
            /\ keys' = keys \cup {NewKey(t)} /\ issued[t] < MaxKeys
        BY <2>a, <3>10 DEF Admit, MintsKey, TicketOf
      <4>2. NewKey(t) \in Key
        BY <3>1, <4>1, GateAssumption DEF NewKey, Key
      <4>3. TicketOpensOnce'
        BY <3>1, <3>2, <3>3, <3>5, <4>1 DEF TicketOpensOnce
      <4>4. GateTypeOK'
        BY <1>0, <2>a, <2>b, <3>1, <3>2, <4>1, <4>2, GateAssumption DEF Remembered
      <4> QED
        BY <1>0, <3>6, <3>8, <4>3, <4>4 DEF SignedInTime
    <3> QED
      BY <2>0, <2>2, <3>9, <3>10 DEF AdmitOrTurn
  <2> QED
    BY <2>1, <2>2
<1>3. CASE UpgradeKey(r, reply)
  <2>1. UNCHANGED gateVars
    BY <1>0, <1>3 DEF UpgradeKey, AdmitOrTurn, Admit, Turned, MintsKey, gateVars, usedVars
  <2> QED
    BY <2>1, OthersKeepInv
<1> QED
  BY <1>1, <1>2, <1>3 DEF Upgrade

(* The gate by itself, whatever requests reach it and however the clock    *)
(* runs between its two readings: a ticket opens one connection, or two if *)
(* the second is asked for at its exp, never a third, and brings no more   *)
(* keys than that.                                                         *)
THEOREM GateOpensOnce == GateSpec => []TicketOpensOnce
<1>1. GateInit => GateInv
  BY GateStarts
<1>2. GateInv /\ [GateNext]_gateVars => GateInv'
  BY UpgradeKeepsInv, OthersKeepInv DEF GateNext
<1>3. GateInv => TicketOpensOnce
  BY DEF GateInv
<1> QED
  BY <1>1, <1>2, <1>3, PTL DEF GateSpec
---------------------------------------------------------------------------
(* The page's steps, and those of the network, leave the gate alone; the   *)
(* others are the gate's.                                                  *)
LEMMA RcStepKeepsGate ==
  ASSUME GateInv, [RcNext]_rcVars
  PROVE  GateInv'
<1>1. ASSUME NEW s \in Socket, Answer(s) PROVE GateInv'
  BY <1>1, UpgradeKeepsInv DEF Answer
<1>2. ASSUME NEW t \in Ticket, NEW n \in 1..MaxSessions, UserTaps(t, n) PROVE GateInv'
  BY <1>2, OthersKeepInv DEF UserTaps
<1>3. CASE DaemonShutsDown \/ DaemonExits \/ DaemonStarts \/ PhonePairsOrUnpairs \/ PaneEnds
           \/ TimePasses
  BY <1>3, OthersKeepInv DEF DaemonShutsDown, DaemonExits, DaemonStarts, PhonePairsOrUnpairs,
                             PaneEnds, TimePasses
<1>4. CASE PageConnects \/ PageRetries \/ UNCHANGED rcVars
  BY <1>4, OthersKeepInv DEF PageConnects, PageRetries, rcVars
<1>5. ASSUME NEW s \in Socket, Deliver(s) \/ RelayDies(s) \/ Lost(s) PROVE GateInv'
  BY <1>5, OthersKeepInv DEF Deliver, RelayDies, Lost
<1> QED
  BY <1>1, <1>2, <1>3, <1>4, <1>5 DEF RcNext

(* With this page, which shows a ticket again when the answer was lost.    *)
THEOREM TicketOpensOnceHere == RcSpec => []TicketOpensOnce
<1>1. RcInit => GateInv
  BY GateStarts DEF RcInit
<1>2. GateInv /\ [RcNext]_rcVars => GateInv'
  BY RcStepKeepsGate
<1>3. GateInv => TicketOpensOnce
  BY DEF GateInv
<1> QED
  BY <1>1, <1>2, <1>3, PTL DEF RcSpec
---------------------------------------------------------------------------
PhoneOK ==
  /\ phone \in [Socket -> {"none", "connecting", "open"}]
  /\ ws \in Socket \cup {NoSocket}

PageInv == PhoneOK /\ OneLiveSocket /\ StopsForAReason

(* connect(), called with all sockets closed.                              *)
LEMMA ConnectKeepsInv ==
  ASSUME NEW s \in Socket, NEW tk, NEW ky,
         NEW ph \in [Socket -> {"none", "connecting", "open"}],
         ws \in Socket \cup {NoSocket},
         \A k \in Socket : ph[k] = "none",
         Connect(s, tk, ky, ph)
  PROVE  PageInv'
BY DEF Connect, PageInv, PhoneOK, OneLiveSocket, StopsForAReason, Live

LEMMA ClosedAll ==
  ASSUME PageInv
  PROVE  /\ CloseSocket(phone) \in [Socket -> {"none", "connecting", "open"}]
         /\ \A k \in Socket : CloseSocket(phone)[k] = "none"
BY PageAssumption DEF PageInv, PhoneOK, OneLiveSocket, Live, CloseSocket

LEMMA OnCloseKeepsInv ==
  ASSUME NEW s \in Socket, NEW why, PageInv, Live(s), OnClose(s, why)
  PROVE  PageInv'
BY DEF OnClose, EndsHere, PageInv, PhoneOK, OneLiveSocket, StopsForAReason, Live

LEMMA NewSocketIsFree ==
  ASSUME Free # {}
  PROVE  NewSocket \in Socket /\ ~Live(NewSocket) /\ up[NewSocket] = NoRequest
BY DEF NewSocket, Free

LEMMA RcStepKeepsPage ==
  ASSUME PageInv, [RcNext]_rcVars
  PROVE  PageInv'
<1>1. ASSUME NEW t \in Ticket, NEW n \in 1..MaxSessions, UserTaps(t, n) PROVE PageInv'
  BY <1>1, ClosedAll, NewSocketIsFree, ConnectKeepsInv DEF UserTaps, Tap, PageInv, PhoneOK
<1>2. CASE PageConnects
  BY <1>2, ClosedAll, NewSocketIsFree, ConnectKeepsInv
     DEF PageConnects, Reload, ShowAgain, PageInv, PhoneOK
<1>3. CASE PageRetries
  <2>1. \A k \in Socket : phone[k] = "none"
    BY <1>3 DEF PageRetries, TimerFires, PageInv, OneLiveSocket, Live
  <2> QED
    BY <1>3, <2>1, NewSocketIsFree, ConnectKeepsInv DEF PageRetries, TimerFires, PageInv, PhoneOK
<1>4. ASSUME NEW s \in Socket, Deliver(s) PROVE PageInv'
  <2>1. CASE OnOpen(s)
    BY <1>4, <2>1 DEF Deliver, OnOpen, PageInv, PhoneOK, OneLiveSocket, StopsForAReason, Live
  <2>2. ASSUME NEW k, OnSession(k) PROVE PageInv'
    BY <1>4, <2>2 DEF Deliver, OnSession, PageInv, PhoneOK, OneLiveSocket, StopsForAReason, Live
  <2>3. ASSUME NEW why, OnClose(s, why) PROVE PageInv'
    BY <1>4, <2>3, OnCloseKeepsInv DEF Deliver
  <2> QED
    BY <1>4, <2>1, <2>2, <2>3 DEF Deliver, Hears
<1>5. ASSUME NEW s \in Socket, Lost(s) PROVE PageInv'
  BY <1>5, OnCloseKeepsInv DEF Lost
<1>6. CASE UNCHANGED pageVars
  BY <1>6 DEF pageVars, PageInv, PhoneOK, OneLiveSocket, StopsForAReason, Live
<1> QED
  BY <1>1, <1>2, <1>3, <1>4, <1>5, <1>6
     DEF RcNext, rcVars, Answer, RelayDies, DaemonShutsDown, DaemonExits, DaemonStarts,
         PhonePairsOrUnpairs, PaneEnds, TimePasses

LEMMA PageStarts ==
  ASSUME RcInit
  PROVE  PageInv
BY DEF RcInit, PageInit, PageInv, PhoneOK, OneLiveSocket, StopsForAReason, Live

(* One socket at a time, and no timer behind its back.                     *)
THEOREM OneLiveSocketAlways == RcSpec => []OneLiveSocket
<1>1. PageInv => OneLiveSocket
  BY DEF PageInv
<1> QED
  BY <1>1, PageStarts, RcStepKeepsPage, PTL DEF RcSpec

(* A page that holds a ticket or a key and was not told the end goes on.   *)
THEOREM StopsForAReasonAlways == RcSpec => []StopsForAReason
<1>1. PageInv => StopsForAReason
  BY DEF PageInv
<1> QED
  BY <1>1, PageStarts, RcStepKeepsPage, PTL DEF RcSpec
---------------------------------------------------------------------------
(* Everything from which the live socket may still bring a key goes back   *)
(* to the last tap: the key and the ticket in hand, the request under way, *)
(* the words not yet read.                                                 *)
OfTheTap(words) == \A i \in 1..Len(words) : words[i].is = "key" => words[i].key.of = tapped

InHand ==
  /\ key # NoKey => key.of = tapped
  /\ ticket # NoTicket => ticket = tapped

OnTheWire ==
  /\ up \in [Socket -> Request \cup {NoRequest}]
  /\ down \in [Socket -> Seq(Word)]
  /\ \A s \in Socket : Live(s) => /\ up[s] # NoRequest => TicketOf(up[s]) = tapped
                                  /\ OfTheTap(down[s])
  /\ \A s \in Socket : ~Live(s) => down[s] = <<>>
  /\ \A s \in served : s \in Socket /\ Live(s)

Kinds ==
  /\ ticket \in Ticket \cup {NoTicket}
  /\ key \in Key \cup {NoKey}

TapInv == Kinds /\ InHand /\ OnTheWire

LEMMA ReplyIsOfTheTicket ==
  ASSUME NEW r \in Request, NEW reply \in Reply, Upgrade(r, reply), TicketOf(r) = tapped
  PROVE  OfTheTap(reply)
<1>1. CASE reply = Say("refused") \/ reply = Say("open")
  BY <1>1 DEF Say, OfTheTap
<1>2. CASE reply = Say("open") \o Say("unpaired")
  BY <1>2 DEF Say, OfTheTap
<1>3. ASSUME NEW k \in Key, reply = Say("open") \o <<[is |-> "key", key |-> k]>>
      PROVE  OfTheTap(reply)
  <2>1. /\ Len(reply) = 2 /\ reply[1] = [is |-> "open"]
        /\ reply[2] = [is |-> "key", key |-> k]
    BY <1>3 DEF Say
  <2>2. reply # Say("refused") /\ reply # Say("open")
    BY <2>1 DEF Say
  <2>3. reply # Say("open") \o Say("unpaired")
    <3>1. (Say("open") \o Say("unpaired"))[2] = [is |-> "unpaired"]
      BY DEF Say
    <3>2. [is |-> "unpaired"].is # reply[2].is
      BY <2>1
    <3> QED
      BY <3>1, <3>2
  <2>4. reply = Say("open") \o <<[is |-> "key", key |-> NewKey(TicketOf(r))]>>
    BY <2>2, <2>3 DEF Upgrade, UpgradeNobodyHome, UpgradeUnpaired, UpgradeTicket, UpgradeKey,
                      AdmitOrTurn, Admit, Turned
  <2>5. reply[2] = [is |-> "key", key |-> NewKey(TicketOf(r))]
    BY <2>4 DEF Say
  <2>6. reply[2].key = NewKey(TicketOf(r))
    BY <2>5
  <2>7. reply[2].key.of = tapped
    BY <2>6 DEF NewKey
  <2>8. reply[1].is # "key"
    BY <2>1
  <2> QED
    BY <2>1, <2>7, <2>8 DEF OfTheTap
<1> QED
  BY <1>1, <1>2, <1>3 DEF Reply

LEMMA WordsAreWords ==
  /\ \A what \in {"open", "refused", "ended", "unpaired", "gone", "lost"} :
        Say(what) \in Seq(Word)
  /\ \A k \in Key : <<[is |-> "key", key |-> k]>> \in Seq(Word)
<1>1. \A what \in {"open", "refused", "ended", "unpaired", "gone", "lost"} :
        [is |-> what] \in Word
  BY DEF Word
<1>2. \A k \in Key : [is |-> "key", key |-> k] \in Word
  BY DEF Word
<1> QED
  BY <1>1, <1>2 DEF Say

LEMMA ReplyIsWords ==
  ASSUME NEW reply \in Reply
  PROVE  reply \in Seq(Word)
<1>1. CASE reply = Say("refused") \/ reply = Say("open")
  BY <1>1, WordsAreWords
<1>2. CASE reply = Say("open") \o Say("unpaired")
  BY <1>2, WordsAreWords
<1>3. ASSUME NEW k \in Key, reply = Say("open") \o <<[is |-> "key", key |-> k]>>
      PROVE  reply \in Seq(Word)
  BY <1>3, WordsAreWords
<1> QED
  BY <1>1, <1>2, <1>3 DEF Reply

(* connect(), called with all sockets closed, and the wire after it.       *)
LEMMA ConnectKeepsTap ==
  ASSUME TapInv, NEW s \in Socket, up[s] = NoRequest, NEW tk, NEW ky,
         NEW ph \in [Socket -> {"none", "connecting", "open"}],
         \A k \in Socket : ph[k] = "none",
         \A k \in Socket : ~Live(k) \/ k # s,
         Connect(s, tk, ky, ph), WireFollows,
         tk \in Ticket \cup {NoTicket}, ky \in Key \cup {NoKey},
         tk # NoTicket => tk = tapped', ky # NoKey => ky.of = tapped'
  PROVE  TapInv'
<1> DEFINE Req == IF tk # NoTicket THEN [by |-> "ticket", it |-> tk] ELSE [by |-> "key", it |-> ky]
<1>1. Kinds' /\ InHand'
  BY DEF Connect, Kinds, InHand
<1>2. ~Live(s) /\ down[s] = <<>>
  BY DEF TapInv, OnTheWire
<1>3. \A k \in Socket : Live(k)' => /\ k = s /\ shows'[k] = Req
                                    /\ tk # NoTicket \/ ky # NoKey
  BY DEF Connect, Live, Closures
<1>4. tk # NoTicket \/ ky # NoKey => Req \in Request /\ TicketOf(Req) = tapped'
  BY DEF Request, TicketOf
<1>5. \A k \in Socket : /\ Live(k)' => up'[k] = shows'[k]
                        /\ ~Live(k)' => up'[k] = up[k]
  BY <1>2, <1>3 DEF WireFollows, Live
<1>6. \A k \in Socket : down'[k] = <<>>
  BY <1>2, <1>3 DEF WireFollows, Live
<1>7. up' \in [Socket -> Request \cup {NoRequest}]
  BY <1>3, <1>4, <1>5 DEF WireFollows, TapInv, OnTheWire
<1>8. down' \in [Socket -> Seq(Word)]
  <2>1. down' = [k \in Socket |-> <<>>]
    BY <1>6 DEF WireFollows, Live
  <2> QED
    BY <2>1
<1>9. \A k \in served' : k \in Socket /\ Live(k)'
  BY DEF WireFollows, TapInv, OnTheWire
<1>10. OnTheWire'
  BY <1>3, <1>4, <1>5, <1>6, <1>7, <1>8, <1>9 DEF OnTheWire, OfTheTap
<1> QED
  BY <1>1, <1>10 DEF TapInv

(* A word read, or the socket closed at the page.                          *)
LEMMA DeliverKeepsTap ==
  ASSUME TapInv, PageInv, NEW s \in Socket, Deliver(s)
  PROVE  TapInv'
<1> DEFINE w == Head(down[s])
<1>1. /\ Live(s) /\ down[s] # <<>> /\ Hears(s, w)
      /\ up' = up /\ tapped' = tapped
      /\ down' = [down EXCEPT ![s] = IF Live(s)' THEN Tail(@) ELSE <<>>]
  BY DEF Deliver
<1>2. /\ down[s] \in Seq(Word) /\ OfTheTap(down[s])
      /\ w = down[s][1] /\ 1 \in 1..Len(down[s]) /\ w \in Word
  BY <1>1 DEF TapInv, OnTheWire
<1>3. ASSUME w.is = "key" PROVE w.key \in Key /\ w.key.of = tapped
  <2>1. w.key.of = tapped
    BY <1>2, <1>3 DEF OfTheTap
  <2>2. w.key \in Key
    BY <1>2, <1>3 DEF Word
  <2> QED
    BY <2>1, <2>2
<1>4. Tail(down[s]) \in Seq(Word) /\ OfTheTap(Tail(down[s]))
  <2>1. /\ Tail(down[s]) \in Seq(Word) /\ Len(Tail(down[s])) = Len(down[s]) - 1
        /\ \A i \in 1..Len(Tail(down[s])) : Tail(down[s])[i] = down[s][i + 1]
    BY <1>1, <1>2
  <2>2. \A i \in 1..Len(Tail(down[s])) : i + 1 \in 1..Len(down[s])
    BY <2>1, <1>2
  <2> QED
    BY <2>1, <2>2, <1>2 DEF OfTheTap
<1>5. Kinds' /\ InHand'
  <2>1. CASE w.is = "open" /\ OnOpen(s)
    BY <1>1, <2>1 DEF OnOpen, Kinds, InHand, TapInv
  <2>2. CASE w.is = "key" /\ OnSession(w.key)
    BY <1>1, <1>3, <2>2 DEF OnSession, Kinds, InHand, TapInv
  <2>3. ASSUME NEW why, OnClose(s, why) PROVE Kinds' /\ InHand'
    BY <1>1, <2>3 DEF OnClose, Kinds, InHand, TapInv
  <2> QED
    BY <1>1, <2>1, <2>2, <2>3 DEF Hears
<1>6. \A k \in Socket : k # s => (Live(k)' <=> Live(k))
  BY <1>1 DEF Hears, OnOpen, OnSession, OnClose, Live, PageInv, PhoneOK
<1>7. OnTheWire'
  <2>1. \A k \in Socket : k # s => down'[k] = down[k]
    BY <1>1 DEF TapInv, OnTheWire
  <2>2. down'[s] = IF Live(s)' THEN Tail(down[s]) ELSE <<>>
    BY <1>1 DEF TapInv, OnTheWire
  <2>3. down' \in [Socket -> Seq(Word)]
    BY <1>1, <1>4 DEF TapInv, OnTheWire
  <2> QED
    BY <1>1, <1>4, <1>6, <2>1, <2>2, <2>3 DEF Deliver, TapInv, OnTheWire, OfTheTap
<1> QED
  BY <1>5, <1>7 DEF TapInv

(* Words put behind those under way: none of them is a key.                *)
LEMMA AppendKeepsTap ==
  ASSUME TapInv, PageInv, NEW socks, NEW what \in {"ended", "gone", "lost"},
         socks \subseteq served, served' \subseteq served,
         down' = Append2All(socks, what), UNCHANGED <<pageVars, up, tapped>>
  PROVE  TapInv'
<1>1. \A k \in Socket : down'[k] = IF k \in socks THEN down[k] \o Say(what) ELSE down[k]
  BY DEF Append2All
<1>2. \A k \in Socket : down[k] \o Say(what) \in Seq(Word)
  BY WordsAreWords DEF TapInv, OnTheWire
<1>3. ASSUME NEW k \in Socket, OfTheTap(down[k]) PROVE OfTheTap(down[k] \o Say(what))
  <2>1. down[k] \in Seq(Word)
    BY DEF TapInv, OnTheWire
  <2>2. Len(Say(what)) = 1 /\ Say(what)[1] = [is |-> what] /\ Say(what) \in Seq(Word)
    BY WordsAreWords DEF Say
  <2>3. /\ Len(down[k]) \in Nat
        /\ Len(down[k] \o Say(what)) = Len(down[k]) + 1
        /\ \A i \in 1..Len(down[k]) + 1 : (down[k] \o Say(what))[i] =
             IF i <= Len(down[k]) THEN down[k][i] ELSE Say(what)[i - Len(down[k])]
    <3>1. Len(down[k]) \in Nat
      BY <2>1
    <3>2. /\ Len(down[k] \o Say(what)) = Len(down[k]) + Len(Say(what))
          /\ \A i \in 1..Len(down[k]) + Len(Say(what)) : (down[k] \o Say(what))[i] =
               IF i <= Len(down[k]) THEN down[k][i] ELSE Say(what)[i - Len(down[k])]
      BY <2>1, <2>2, ConcatProperties, Zenon
    <3> QED
      BY <2>2, <3>1, <3>2
  <2>4. \A i \in 1..Len(down[k] \o Say(what)) : i <= Len(down[k]) \/ i - Len(down[k]) = 1
    BY <2>3
  <2> QED
    BY <1>3, <2>2, <2>3, <2>4 DEF OfTheTap
<1>4. down' \in [Socket -> Seq(Word)]
  BY <1>1, <1>2 DEF Append2All, TapInv, OnTheWire
<1>5. \A k \in Socket : Live(k)' <=> Live(k)
  BY DEF pageVars, Live
<1>6. \A k \in Socket : Live(k) /\ OfTheTap(down[k]) => OfTheTap(down'[k])
  BY <1>1, <1>3
<1>7. \A k \in Socket : OfTheTap(down'[k]) => OfTheTap(down[k])'
  BY DEF OfTheTap
<1>8. OnTheWire'
  BY <1>1, <1>4, <1>5, <1>6, <1>7 DEF TapInv, OnTheWire
<1> QED
  BY <1>8 DEF TapInv, Kinds, InHand, pageVars

LEMMA AnswerKeepsTap ==
  ASSUME TapInv, NEW s \in Socket, Answer(s)
  PROVE  TapInv'
<1>1. up[s] \in Request
  BY DEF Answer, TapInv, OnTheWire
<1>2. PICK reply \in Reply :
        /\ Upgrade(up[s], reply)
        /\ down' = IF Live(s) THEN [down EXCEPT ![s] = reply] ELSE down
        /\ Live(s) \/ served' = served
        /\ served' \subseteq served \cup {s}
  BY DEF Answer
<1>3. up' = [up EXCEPT ![s] = NoRequest] /\ UNCHANGED <<pageVars, tapped>>
  BY DEF Answer
<1>4. \A k \in Socket : (Live(k)' <=> Live(k)) /\ (OfTheTap(down[k])' <=> OfTheTap(down'[k]))
  BY <1>3 DEF pageVars, Live, OfTheTap
<1>5. Live(s) => OfTheTap(reply)
  BY <1>1, <1>2, ReplyIsOfTheTicket DEF Answer, TapInv, OnTheWire
<1>6. reply \in Seq(Word)
  BY ReplyIsWords
<1>7. /\ \A k \in Socket : k # s => down'[k] = down[k] /\ up'[k] = up[k]
      /\ down'[s] = IF Live(s) THEN reply ELSE down[s]
      /\ up'[s] = NoRequest
      /\ down' \in [Socket -> Seq(Word)] /\ up' \in [Socket -> Request \cup {NoRequest}]
  BY <1>2, <1>3, <1>6 DEF TapInv, OnTheWire
<1>8. \A k \in served' : k \in Socket /\ Live(k)'
  BY <1>2, <1>4 DEF TapInv, OnTheWire
<1>9. \A k \in Socket : Live(k)' => OfTheTap(down[k])'
  BY <1>4, <1>5, <1>7 DEF TapInv, OnTheWire
<1>10. OnTheWire'
  BY <1>3, <1>4, <1>7, <1>8, <1>9 DEF TapInv, OnTheWire
<1> QED
  BY <1>3, <1>10 DEF TapInv, Kinds, InHand, pageVars

LEMMA LostKeepsTap ==
  ASSUME TapInv, PageInv, NEW s \in Socket, Lost(s)
  PROVE  TapInv'
<1>1. Kinds' /\ InHand'
  BY DEF Lost, OnClose, TapInv, Kinds, InHand
<1>2. /\ ~Live(s)' /\ \A k \in Socket : k # s => (Live(k)' <=> Live(k))
  BY DEF Lost, OnClose, Live, PageInv, PhoneOK
<1>3. /\ \A k \in Socket : k # s => down'[k] = down[k] /\ up'[k] = up[k]
      /\ down'[s] = <<>> /\ tapped' = tapped
      /\ down' \in [Socket -> Seq(Word)] /\ up' \in [Socket -> Request \cup {NoRequest}]
      /\ served' = served \ {s}
  BY DEF Lost, TapInv, OnTheWire
<1>4. \A k \in served' : k \in Socket /\ Live(k)'
  BY <1>2, <1>3 DEF TapInv, OnTheWire
<1>5. \A k \in Socket : Live(k)' => /\ Live(k) /\ down'[k] = down[k] /\ up'[k] = up[k]
  BY <1>2, <1>3
<1>6. \A k \in Socket : ~Live(k)' => down'[k] = <<>>
  BY <1>2, <1>3 DEF TapInv, OnTheWire
<1>7. \A k \in Socket : Live(k)' => OfTheTap(down[k])'
  BY <1>3, <1>5 DEF TapInv, OnTheWire, OfTheTap
<1>8. OnTheWire'
  BY <1>3, <1>4, <1>5, <1>6, <1>7 DEF TapInv, OnTheWire
<1> QED
  BY <1>1, <1>8 DEF TapInv

LEMMA UnchangedKeepsTap ==
  ASSUME TapInv, UNCHANGED <<pageVars, wireVars, tapped>>
  PROVE  TapInv'
BY DEF TapInv, Kinds, InHand, OnTheWire, OfTheTap, Live, pageVars, wireVars

LEMMA RcStepKeepsTap ==
  ASSUME TapInv, PageInv, [RcNext]_rcVars
  PROVE  TapInv'
<1>1. ASSUME NEW t \in Ticket, NEW n \in 1..MaxSessions, UserTaps(t, n) PROVE TapInv'
  <2>1. NewSocket \in Socket /\ ~Live(NewSocket) /\ up[NewSocket] = NoRequest
    BY <1>1, NewSocketIsFree DEF UserTaps
  <2>2. Connect(NewSocket, t, NoKey, CloseSocket(phone)) /\ WireFollows /\ tapped' = t
    BY <1>1 DEF UserTaps, Tap
  <2> QED
    BY <2>1, <2>2, ClosedAll, ConnectKeepsTap
<1>2. CASE PageConnects \/ PageRetries
  <2>1. NewSocket \in Socket /\ ~Live(NewSocket) /\ up[NewSocket] = NoRequest
    BY <1>2, NewSocketIsFree DEF PageConnects, PageRetries
  <2>2. WireFollows /\ tapped' = tapped
    BY <1>2 DEF PageConnects, PageRetries
  <2>3. CASE Connect(NewSocket, NoTicket, key, CloseSocket(phone))
    BY <2>1, <2>2, <2>3, ClosedAll, ConnectKeepsTap DEF TapInv, Kinds, InHand
  <2>4. CASE Connect(NewSocket, ticket, key, CloseSocket(phone))
    BY <2>1, <2>2, <2>4, ClosedAll, ConnectKeepsTap DEF TapInv, Kinds, InHand
  <2>5. CASE timer /\ Connect(NewSocket, ticket, key, phone)
    <3>1. \A k \in Socket : phone[k] = "none"
      BY <2>5 DEF PageInv, OneLiveSocket, Live
    <3> QED
      BY <2>1, <2>2, <2>5, <3>1, ConnectKeepsTap DEF TapInv, Kinds, InHand, PageInv, PhoneOK
  <2> QED
    BY <1>2, <2>3, <2>4, <2>5 DEF PageConnects, PageRetries, Reload, ShowAgain, TimerFires
<1>3. ASSUME NEW s \in Socket, Deliver(s) \/ Answer(s) \/ Lost(s) PROVE TapInv'
  BY <1>3, DeliverKeepsTap, AnswerKeepsTap, LostKeepsTap
<1>4. ASSUME NEW s \in Socket, RelayDies(s) PROVE TapInv'
  BY <1>4, AppendKeepsTap DEF RelayDies
<1>5. CASE DaemonShutsDown
  BY <1>5, AppendKeepsTap DEF DaemonShutsDown
<1>6. CASE DaemonExits
  BY <1>6, AppendKeepsTap DEF DaemonExits
<1>7. CASE DaemonStarts \/ PhonePairsOrUnpairs \/ PaneEnds \/ TimePasses \/ UNCHANGED rcVars
  BY <1>7, UnchangedKeepsTap DEF DaemonStarts, PhonePairsOrUnpairs, PaneEnds, TimePasses, rcVars
<1> QED
  BY <1>1, <1>2, <1>3, <1>4, <1>5, <1>6, <1>7 DEF RcNext

(* A key that an older connection still had to bring never takes the       *)
(* place of what the last tap stands for.                                  *)
THEOREM KeyIsOfTheLastTapAlways == RcSpec => []KeyIsOfTheLastTap
<1>1. RcInit => TapInv
  BY DEF RcInit, PageInit, TapInv, Kinds, InHand, OnTheWire, Live
<1>2. TapInv => KeyIsOfTheLastTap
  BY DEF TapInv, InHand, KeyIsOfTheLastTap
<1> QED
  BY <1>1, <1>2, PageStarts, RcStepKeepsPage, RcStepKeepsTap, PTL DEF RcSpec
=============================================================================
