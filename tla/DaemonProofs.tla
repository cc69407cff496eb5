---------------------------- MODULE DaemonProofs ----------------------------
(***************************************************************************)
(* Theorems about the terminal daemon, seen from the hub and from the      *)
(* command line.  Presence, for every set of sockets and sessions and      *)
(* every length of the periods: shutdown() leaves nothing behind in the    *)
(* registry, a push is never held back for long after the last look, and   *)
(* the unread mark outlives the heartbeats.  Remote, for any number of     *)
(* panes, pids, commands and faults: `off` finds what serves and nobody    *)
(* else is hit.                                                            *)
(***************************************************************************)
EXTENDS Presence, Remote, TLAPS

(***************************************************************************)
(* Presence.                                                               *)
(***************************************************************************)
(* Somebody was looking when a request that says so was sent; it cannot    *)
(* say so longer than it is under way.                                     *)
SaysSo(r) == r.kind = "register" /\ r.viewing

RequestsAreFresh == \A r \in outbox : SaysSo(r) => sinceWatched <= r.age

(* What the hub believes is as old as the entry, plus the time the last    *)
(* heartbeat travelled.                                                    *)
BeliefIsFresh ==
  IsViewing(Mine, sessions) => sinceWatched <= sessions[Mine].age + MaxDelay

PrInv == TypeOK /\ RegistryStaysClean /\ RequestsAreFresh /\ BeliefIsFresh
---------------------------------------------------------------------------
(* The steps of the daemon, all but its timer and its end, are a change of *)
(* its viewers followed by watchingChanged().                              *)
LEMMA Changes ==
  ASSUME TypeOK, DaemonSteps
  PROVE  \/ /\ Alive
            /\ viewers' \in [Socket -> {"none", "hidden", "visible"}]
            /\ WatchingChanged(viewers')
            /\ UNCHANGED <<life, awake, sinceBeat>>
         \/ TimerBeats \/ Shutdown \/ Exit \/ Killed \/ MachineSleepsOrWakes
<1>. USE DEF TypeOK, DaemonTypeOK
<1>1. ASSUME NEW k \in Socket, Connect(k) PROVE viewers' \in [Socket -> {"none", "hidden", "visible"}]
  BY <1>1 DEF Connect
<1>2. ASSUME NEW k \in Socket, NEW visible \in BOOLEAN, ReportVisibility(k, visible)
      PROVE  viewers' \in [Socket -> {"none", "hidden", "visible"}]
  BY <1>2 DEF ReportVisibility
<1>3. ASSUME NEW k \in Socket, SocketCloses(k)
      PROVE  viewers' \in [Socket -> {"none", "hidden", "visible"}]
  BY <1>3 DEF SocketCloses, WithoutSocket
<1>. QED
  BY <1>1, <1>2, <1>3 DEF DaemonSteps, Connect, ReportVisibility, SocketCloses

(* A step of the daemon sends nothing, or one request.  A register that    *)
(* says somebody is looking is sent only while somebody is.                *)
LEMMA Sends ==
  ASSUME TypeOK, RegistryStaysClean, DaemonSteps
  PROVE  /\ DaemonTypeOK'
         /\ RegistryStaysClean'
         /\ \/ outbox' = outbox
            \/ Put("unregister", FALSE)
            \/ Put("register", SomeoneIsWatching(viewers')) /\ life' = "running"
<1>1. /\ life \in {"running", "stopping", "exited", "killed"}
      /\ awake \in BOOLEAN /\ lastWatching \in BOOLEAN /\ registered \in BOOLEAN
      /\ viewers \in [Socket -> {"none", "hidden", "visible"}]
      /\ sinceBeat \in 0..Period
      /\ outbox \in SUBSET Request
  BY DEF TypeOK, DaemonTypeOK
<1>2. 0 \in 0..Period /\ 0 \in 0..MaxDelay
  BY TicksAssumption
<1>3. ASSUME NEW kind \in {"register", "unregister"}, NEW viewing \in BOOLEAN, Put(kind, viewing)
      PROVE  outbox' \in SUBSET Request
  BY <1>1, <1>2, <1>3 DEF Put, Request
<1>4. ASSUME NEW v, Beat(v), UNCHANGED life, Alive
      PROVE  /\ outbox' \in SUBSET Request
             /\ registered' \in BOOLEAN
             /\ RegistryStaysClean'
             /\ \/ outbox' = outbox
                \/ Put("register", SomeoneIsWatching(v)) /\ life' = "running"
  <2>1. SomeoneIsWatching(v) \in BOOLEAN
    BY DEF SomeoneIsWatching
  <2>2. CASE life = "stopping"
    BY <1>1, <1>4, <2>2 DEF Beat, RegistryStaysClean
  <2>3. CASE life # "stopping"
    <3>1. life = "running" /\ life' = "running"
      BY <1>4, <2>3 DEF Alive
    <3>2. Put("register", SomeoneIsWatching(v)) /\ registered' = TRUE
      BY <1>4, <2>3 DEF Beat
    <3>. QED
      BY <3>1, <3>2, <2>1, <1>3 DEF RegistryStaysClean
  <2>. QED
    BY <2>2, <2>3
<1>5. CASE /\ Alive
           /\ viewers' \in [Socket -> {"none", "hidden", "visible"}]
           /\ WatchingChanged(viewers')
           /\ UNCHANGED <<life, awake, sinceBeat>>
  <2>1. CASE UNCHANGED <<lastWatching, registered, outbox>>
    BY <1>1, <1>5, <2>1 DEF DaemonTypeOK, RegistryStaysClean
  <2>2. CASE lastWatching' = SomeoneIsWatching(viewers') /\ Beat(viewers')
    <3>1. lastWatching' \in BOOLEAN
      BY <2>2 DEF SomeoneIsWatching
    <3>. QED
      BY <1>1, <1>4, <1>5, <2>2, <3>1 DEF DaemonTypeOK
  <2>. QED
    BY <1>5, <2>1, <2>2 DEF WatchingChanged
<1>6. CASE TimerBeats
  <2>1. Beat(viewers) /\ UNCHANGED <<life, awake, viewers, lastWatching>> /\ Alive /\ sinceBeat' = 0
    BY <1>6 DEF TimerBeats
  <2>. QED
    BY <1>1, <1>2, <1>4, <2>1 DEF DaemonTypeOK
<1>7. CASE Shutdown
  BY <1>1, <1>3, <1>7 DEF Shutdown, DaemonTypeOK, RegistryStaysClean
<1>8. CASE Exit \/ Killed \/ MachineSleepsOrWakes
  <2>1. awake' \in BOOLEAN
    BY <1>1, <1>8 DEF Exit, Killed, MachineSleepsOrWakes
  <2>2. UNCHANGED <<viewers, lastWatching, sinceBeat, registered, outbox>>
    BY <1>8 DEF Exit, Killed, MachineSleepsOrWakes
  <2>3. /\ life' \in {"running", "stopping", "exited", "killed"}
        /\ life' \in {"stopping", "exited"} => life \in {"stopping", "exited"}
    BY <1>1, <1>8 DEF Exit, Killed, MachineSleepsOrWakes
  <2>. QED
    BY <1>1, <2>1, <2>2, <2>3 DEF DaemonTypeOK, RegistryStaysClean
<1>. QED
  BY <1>5, <1>6, <1>7, <1>8, Changes
---------------------------------------------------------------------------
(* What the hub knows of a session after each of its operations: it is     *)
(* well-formed, no entry becomes younger or starts to say that somebody is *)
(* looking, and a mark goes only with its entry.                           *)
Kept(s) ==
  \/ s \notin DOMAIN sessions'
  \/ /\ s \in DOMAIN sessions
     /\ sessions'[s].age = sessions[s].age
     /\ sessions'[s].viewing = sessions[s].viewing
     /\ sessions[s].notified => sessions'[s].notified

LEMMA Registers ==
  ASSUME HubTypeOK, NEW s \in Session, NEW viewing \in BOOLEAN, Register(s, viewing)
  PROVE  /\ HubTypeOK'
         /\ s \in DOMAIN sessions' /\ sessions'[s].age = 0 /\ sessions'[s].viewing = viewing
         /\ s \in DOMAIN sessions /\ sessions[s].notified /\ sessions[s].age <= Evict
               => sessions'[s].notified
         /\ \A t \in DOMAIN sessions' \ {s} : Kept(t)
<1>1. 0 \in 0..(Evict + 1)
  BY AgesAssumption
<1>2. DOMAIN Pruned \subseteq DOMAIN sessions /\ \A t \in DOMAIN Pruned : Pruned[t] = sessions[t]
  BY DEF Pruned
<1>3. DOMAIN sessions \subseteq Session /\ \A t \in DOMAIN sessions : sessions[t] \in Entry
  BY DEF HubTypeOK
<1>4. /\ DOMAIN sessions' = DOMAIN Pruned \cup {s}
      /\ sessions'[s] = [age |-> 0, viewing |-> viewing, notified |-> MarkOf(s)]
      /\ \A t \in DOMAIN Pruned \ {s} : sessions'[t] = Pruned[t]
  BY DEF Register
<1>5. MarkOf(s) \in BOOLEAN
  BY <1>2, <1>3 DEF MarkOf, Entry
<1>6. sessions'[s] \in Entry
  BY <1>1, <1>4, <1>5 DEF Entry
<1>7. HubTypeOK'
  BY <1>2, <1>3, <1>4, <1>6 DEF HubTypeOK
<1>8. s \in DOMAIN sessions /\ sessions[s].notified /\ sessions[s].age <= Evict
        => sessions'[s].notified
  <2>1. SUFFICES ASSUME s \in DOMAIN sessions, sessions[s].notified, sessions[s].age <= Evict
                 PROVE  sessions'[s].notified
    OBVIOUS
  <2>2. s \in DOMAIN Pruned /\ Pruned[s] = sessions[s]
    BY <2>1 DEF Pruned
  <2>3. MarkOf(s)
    BY <2>1, <2>2 DEF MarkOf
  <2>. QED
    BY <1>4, <2>3
<1>9. \A t \in DOMAIN sessions' \ {s} : Kept(t)
  BY <1>2, <1>4 DEF Kept
<1>. QED
  BY <1>4, <1>7, <1>8, <1>9

LEMMA OnlyPrunes ==
  ASSUME HubTypeOK, NEW s, Unregister(s) \/ List \/ HubRestarts \/ Notify(s) \/ UNCHANGED sessions
  PROVE  HubTypeOK' /\ \A t : Kept(t)
<1>1. DOMAIN sessions \subseteq Session /\ \A t \in DOMAIN sessions : sessions[t] \in Entry
  BY DEF HubTypeOK
<1>2. CASE Unregister(s)
  BY <1>1, <1>2 DEF Unregister, HubTypeOK, Kept
<1>3. CASE List
  BY <1>1, <1>3 DEF List, Pruned, HubTypeOK, Kept
<1>4. CASE HubRestarts
  BY <1>1, <1>4 DEF HubRestarts, HubTypeOK, Kept
<1>5. CASE Notify(s)
  <2>1. /\ DOMAIN Marked(s) = DOMAIN sessions
        /\ \A t \in DOMAIN sessions :
             /\ Marked(s)[t] \in Entry
             /\ Marked(s)[t].age = sessions[t].age
             /\ Marked(s)[t].viewing = sessions[t].viewing
             /\ sessions[t].notified => Marked(s)[t].notified
    BY <1>1 DEF Marked, Entry
  <2>. QED
    BY <1>1, <1>5, <2>1 DEF Notify, HubTypeOK, Kept
<1>6. CASE UNCHANGED sessions
  BY <1>1, <1>6 DEF HubTypeOK, Kept
<1>. QED
  BY <1>2, <1>3, <1>4, <1>5, <1>6

LEMMA GrowsOlder ==
  ASSUME HubTypeOK, Ages
  PROVE  /\ HubTypeOK'
         /\ DOMAIN sessions' = DOMAIN sessions
         /\ \A s \in DOMAIN sessions :
              /\ sessions'[s].viewing = sessions[s].viewing
              /\ sessions'[s].notified = sessions[s].notified
              /\ sessions[s].age <= Evict => sessions'[s].age = sessions[s].age + 1
              /\ sessions[s].age > Evict => sessions'[s].age = sessions[s].age
<1>1. DOMAIN sessions \subseteq Session /\ \A t \in DOMAIN sessions : sessions[t] \in Entry
  BY DEF HubTypeOK
<1>2. DOMAIN sessions' = DOMAIN sessions
  BY DEF Ages
<1>3. ASSUME NEW s \in DOMAIN sessions
      PROVE  /\ sessions'[s] \in Entry
             /\ sessions'[s].viewing = sessions[s].viewing
             /\ sessions'[s].notified = sessions[s].notified
             /\ sessions[s].age <= Evict => sessions'[s].age = sessions[s].age + 1
             /\ sessions[s].age > Evict => sessions'[s].age = sessions[s].age
  <2>1. sessions[s].age \in 0..(Evict + 1) /\ sessions[s] \in Entry
    BY <1>1 DEF Entry
  <2>2. sessions'[s] = [sessions[s] EXCEPT !.age = IF sessions[s].age > Evict THEN sessions[s].age
                                                  ELSE sessions[s].age + 1]
    BY DEF Ages
  <2>. QED
    BY <2>1, <2>2, AgesAssumption DEF Entry
<1>. QED
  BY <1>1, <1>2, <1>3 DEF HubTypeOK
---------------------------------------------------------------------------
LEMMA FirstPresence == PrInit => PrInv
<1>. SUFFICES ASSUME PrInit PROVE PrInv
  OBVIOUS
<1>1. 0 \in 0..MaxDelay /\ 0 \in 0..Period /\ LongAgo \in 0..LongAgo
  BY TicksAssumption, AgesAssumption DEF LongAgo
<1>2. DaemonTypeOK /\ life = "running"
  <2>1. [kind |-> "register", viewing |-> FALSE, age |-> 0] \in Request
    BY <1>1 DEF Request
  <2>2. outbox \in SUBSET Request /\ life = "running" /\ awake = TRUE /\ lastWatching = FALSE
    BY <2>1 DEF PrInit, DLInit
  <2>3. viewers \in [Socket -> {"none", "hidden", "visible"}]
    BY DEF PrInit, DLInit
  <2>4. sinceBeat \in 0..Period /\ registered = TRUE
    BY <1>1 DEF PrInit, DLInit
  <2>. QED
    BY <2>2, <2>3, <2>4 DEF DaemonTypeOK
<1>3. HubTypeOK /\ Mine \notin DOMAIN sessions
  BY DEF PrInit, HSInit, HubTypeOK
<1>4. RequestsAreFresh
  BY DEF PrInit, DLInit, RequestsAreFresh, SaysSo
<1>. QED
  BY <1>1, <1>2, <1>3, <1>4
  DEF PrInit, PrInv, TypeOK, RegistryStaysClean, BeliefIsFresh, IsViewing

(* Looking starts the history anew, and nothing but time makes it longer.  *)
LEMMA DaemonKeepsFresh ==
  ASSUME PrInv, DaemonSteps
  PROVE  PrInv'
<1>1. /\ TypeOK /\ RegistryStaysClean /\ RequestsAreFresh /\ BeliefIsFresh
      /\ sinceWatched \in 0..LongAgo /\ HubTypeOK /\ DaemonTypeOK /\ outbox \in SUBSET Request
  BY DEF PrInv, TypeOK, DaemonTypeOK
<1>2. /\ DaemonTypeOK'
      /\ RegistryStaysClean'
      /\ \/ outbox' = outbox
         \/ Put("unregister", FALSE)
         \/ Put("register", SomeoneIsWatching(viewers')) /\ life' = "running"
  BY <1>1, Sends
<1>3. sinceWatched' = (IF Watched' THEN 0 ELSE sinceWatched) /\ UNCHANGED <<sessions, notices>>
  BY DEF DaemonSteps, SinceWatched
<1>4. sinceWatched' \in 0..LongAgo /\ sinceWatched' <= sinceWatched
  <2>1. LongAgo \in Nat
    BY TicksAssumption, AgesAssumption DEF LongAgo
  <2>2. CASE Watched'
    BY <1>1, <1>3, <2>1, <2>2
  <2>3. CASE ~Watched'
    BY <1>1, <1>3, <2>1, <2>3
  <2>. QED
    BY <2>2, <2>3
<1>5. TypeOK'
  BY <1>1, <1>2, <1>3, <1>4 DEF TypeOK, HubTypeOK
<1>6. RequestsAreFresh'
  <2>1. ASSUME NEW r \in outbox, SaysSo(r)
        PROVE  sinceWatched' <= r.age
    <3>1. sinceWatched <= r.age /\ r.age \in 0..MaxDelay
      BY <1>1, <2>1 DEF RequestsAreFresh, Request
    <3>. QED
      BY <1>1, <1>4, <3>1, TicksAssumption
  <2>2. CASE outbox' = outbox
    BY <2>1, <2>2 DEF RequestsAreFresh, SaysSo
  <2>3. CASE Put("unregister", FALSE)
    BY <2>1, <2>3 DEF Put, RequestsAreFresh, SaysSo
  <2>4. CASE Put("register", SomeoneIsWatching(viewers')) /\ life' = "running"
    <3>1. SomeoneIsWatching(viewers') => sinceWatched' = 0
      BY <1>3, <2>4 DEF Watched
    <3>. QED
      BY <2>1, <2>4, <3>1 DEF Put, RequestsAreFresh, SaysSo
  <2>. QED
    BY <1>2, <2>2, <2>3, <2>4
<1>7. BeliefIsFresh'
  <2>1. SUFFICES ASSUME IsViewing(Mine, sessions)
                 PROVE  sinceWatched' <= sessions[Mine].age + MaxDelay
    BY <1>3 DEF BeliefIsFresh, IsViewing
  <2>2. sinceWatched <= sessions[Mine].age + MaxDelay
    BY <1>1, <2>1 DEF BeliefIsFresh
  <2>3. sessions[Mine].age \in 0..(Evict + 1)
    BY <1>1, <2>1 DEF HubTypeOK, IsViewing, Entry
  <2>. QED
    BY <1>1, <1>4, <2>2, <2>3, TicksAssumption, AgesAssumption
<1>. QED
  BY <1>2, <1>5, <1>6, <1>7 DEF PrInv

(* The hub believes what a request said, and no more; what it already      *)
(* believed only ages.                                                     *)
LEMMA HubKeepsFresh ==
  ASSUME PrInv, TypeOK', UNCHANGED <<life, sinceWatched>>,
         outbox' \subseteq outbox, registered' => registered,
         \/ Kept(Mine)
         \/ \E r \in outbox : /\ r.kind = "register"
                              /\ sessions'[Mine].age = 0 /\ sessions'[Mine].viewing = r.viewing
  PROVE  PrInv'
<1>1. /\ TypeOK /\ RegistryStaysClean /\ RequestsAreFresh /\ BeliefIsFresh
      /\ sinceWatched \in 0..LongAgo /\ outbox \in SUBSET Request
  BY DEF PrInv, TypeOK, DaemonTypeOK
<1>2. RegistryStaysClean'
  BY <1>1 DEF RegistryStaysClean
<1>3. RequestsAreFresh'
  BY <1>1 DEF RequestsAreFresh, SaysSo
<1>4. BeliefIsFresh'
  <2>1. SUFFICES ASSUME Mine \in DOMAIN sessions', sessions'[Mine].age <= Dead,
                        sessions'[Mine].viewing
                 PROVE  sinceWatched <= sessions'[Mine].age + MaxDelay
    BY DEF BeliefIsFresh, IsViewing
  <2>2. CASE Kept(Mine)
    BY <1>1, <2>1, <2>2 DEF Kept, BeliefIsFresh, IsViewing
  <2>3. CASE \E r \in outbox : /\ r.kind = "register"
                              /\ sessions'[Mine].age = 0 /\ sessions'[Mine].viewing = r.viewing
    <3>1. PICK r \in outbox : /\ r.kind = "register"
                             /\ sessions'[Mine].age = 0 /\ sessions'[Mine].viewing = r.viewing
      BY <2>3
    <3>2. sinceWatched <= r.age /\ r.age \in 0..MaxDelay
      BY <1>1, <2>1, <3>1 DEF RequestsAreFresh, SaysSo, Request
    <3>. QED
      BY <1>1, <3>1, <3>2, TicksAssumption
  <2>. QED
    BY <2>2, <2>3
<1>. QED
  BY <1>2, <1>3, <1>4 DEF PrInv

(* A tick: the history and everything under way or believed grow by one    *)
(* together.                                                               *)
LEMMA TickKeepsFresh ==
  ASSUME PrInv, Tick
  PROVE  PrInv'
<1>1. /\ TypeOK /\ RegistryStaysClean /\ RequestsAreFresh /\ BeliefIsFresh
      /\ sinceWatched \in 0..LongAgo /\ HubTypeOK /\ DaemonTypeOK /\ outbox \in SUBSET Request
  BY DEF PrInv, TypeOK, DaemonTypeOK
<1>2. /\ HubTypeOK'
      /\ DOMAIN sessions' = DOMAIN sessions
      /\ \A s \in DOMAIN sessions :
           /\ sessions'[s].viewing = sessions[s].viewing
           /\ sessions'[s].notified = sessions[s].notified
           /\ sessions[s].age <= Evict => sessions'[s].age = sessions[s].age + 1
           /\ sessions[s].age > Evict => sessions'[s].age = sessions[s].age
  BY <1>1, GrowsOlder DEF Tick
<1>3. /\ \A r \in outbox : r.age < MaxDelay
      /\ sinceBeat' = (IF sinceBeat < Period THEN sinceBeat + 1 ELSE sinceBeat)
      /\ outbox' = {[r EXCEPT !.age = r.age + 1] : r \in outbox}
      /\ UNCHANGED <<life, awake, viewers, lastWatching, registered>>
  BY DEF Tick, DaemonTick
<1>4. sinceWatched' \in 0..LongAgo /\ sinceWatched' <= sinceWatched + 1
  <2>1. LongAgo \in Nat
    BY TicksAssumption, AgesAssumption DEF LongAgo
  <2>2. sinceWatched' = IF Watched THEN 0 ELSE IF sinceWatched < LongAgo THEN sinceWatched + 1
                        ELSE sinceWatched
    BY DEF Tick
  <2>. QED
    BY <1>1, <2>1, <2>2
<1>5. ASSUME NEW r \in outbox
      PROVE  /\ [r EXCEPT !.age = r.age + 1] \in Request
             /\ [r EXCEPT !.age = r.age + 1].kind = r.kind
             /\ [r EXCEPT !.age = r.age + 1].viewing = r.viewing
             /\ [r EXCEPT !.age = r.age + 1].age = r.age + 1
             /\ r.age \in 0..MaxDelay
  <2>1. r \in Request /\ r.age < MaxDelay
    BY <1>1, <1>3
  <2>2. r.age \in 0..MaxDelay
    BY <2>1 DEF Request
  <2>3. r.age + 1 \in 0..MaxDelay
    BY <2>1, <2>2, TicksAssumption
  <2>. QED
    BY <2>1, <2>2, <2>3 DEF Request
<1>6. DaemonTypeOK'
  <2>1. sinceBeat' \in 0..Period
    BY <1>1, <1>3, TicksAssumption DEF DaemonTypeOK
  <2>2. outbox' \in SUBSET Request
    BY <1>3, <1>5
  <2>. QED
    BY <1>1, <1>3, <2>1, <2>2 DEF DaemonTypeOK
<1>7. TypeOK'
  BY <1>1, <1>2, <1>4, <1>6 DEF TypeOK, Tick
<1>8. RegistryStaysClean'
  BY <1>1, <1>3 DEF RegistryStaysClean
<1>9. RequestsAreFresh'
  <2>1. SUFFICES ASSUME NEW q \in outbox', SaysSo(q) PROVE sinceWatched' <= q.age
    BY DEF RequestsAreFresh, SaysSo
  <2>2. PICK r \in outbox : q = [r EXCEPT !.age = r.age + 1]
    BY <1>3
  <2>3. sinceWatched <= r.age
    BY <1>1, <1>5, <2>1, <2>2 DEF RequestsAreFresh, SaysSo
  <2>. QED
    BY <1>1, <1>4, <1>5, <2>2, <2>3, TicksAssumption
<1>10. BeliefIsFresh'
  <2>1. SUFFICES ASSUME Mine \in DOMAIN sessions, sessions'[Mine].age <= Dead,
                        sessions[Mine].viewing
                 PROVE  sinceWatched' <= sessions'[Mine].age + MaxDelay
    BY <1>2 DEF BeliefIsFresh, IsViewing
  <2>2. sessions[Mine].age \in 0..(Evict + 1)
    BY <1>1, <2>1 DEF HubTypeOK, Entry
  <2>3. sessions'[Mine].age = sessions[Mine].age + 1 /\ sessions[Mine].age <= Dead
    BY <1>2, <2>1, <2>2, AgesAssumption
  <2>4. sinceWatched <= sessions[Mine].age + MaxDelay
    BY <1>1, <2>1, <2>3 DEF BeliefIsFresh, IsViewing
  <2>. QED
    BY <1>1, <1>4, <2>2, <2>3, <2>4, TicksAssumption
<1>. QED
  BY <1>7, <1>8, <1>9, <1>10 DEF PrInv

LEMMA StepPresence == PrInv /\ [PrNext]_prVars => PrInv'
<1>. SUFFICES ASSUME PrInv, [PrNext]_prVars PROVE PrInv'
  OBVIOUS
<1>1. /\ TypeOK /\ HubTypeOK /\ DaemonTypeOK /\ outbox \in SUBSET Request
      /\ notices \in 0..1 /\ sinceWatched \in 0..LongAgo /\ registered \in BOOLEAN
  BY DEF PrInv, TypeOK, DaemonTypeOK
<1>2. CASE DaemonSteps
  BY <1>2, DaemonKeepsFresh
<1>3. ASSUME NEW r \in outbox, HubHandles(r) PROVE PrInv'
  <2>1. /\ outbox' \subseteq outbox
        /\ UNCHANGED <<life, awake, viewers, lastWatching, sinceBeat, registered, notices,
                       sinceWatched>>
    BY <1>3 DEF HubHandles
  <2>2. /\ HubTypeOK'
        /\ \/ Kept(Mine)
           \/ r.kind = "register" /\ sessions'[Mine].age = 0 /\ sessions'[Mine].viewing = r.viewing
    <3>1. CASE r.kind = "register" /\ Register(Mine, r.viewing)
      BY <1>1, <3>1, Registers, MineAssumption DEF Request
    <3>2. CASE r.kind = "unregister" /\ Unregister(Mine)
      BY <1>1, <3>2, OnlyPrunes
    <3>. QED
      BY <1>3, <3>1, <3>2 DEF HubHandles
  <2>3. TypeOK'
    BY <1>1, <2>1, <2>2 DEF TypeOK, DaemonTypeOK
  <2>. QED
    BY <1>1, <2>1, <2>2, <2>3, HubKeepsFresh
<1>4. ASSUME NEW r \in outbox, RequestLost(r) PROVE PrInv'
  <2>1. /\ outbox' \subseteq outbox
        /\ UNCHANGED <<sessions, life, awake, viewers, lastWatching, sinceBeat, registered, notices,
                       sinceWatched>>
    BY <1>4 DEF RequestLost
  <2>2. HubTypeOK' /\ Kept(Mine)
    BY <1>1, <2>1, OnlyPrunes
  <2>3. TypeOK'
    BY <1>1, <2>1, <2>2 DEF TypeOK, DaemonTypeOK
  <2>. QED
    BY <2>1, <2>2, <2>3, HubKeepsFresh
<1>5. CASE HookNotifies
  <2>1. /\ registered' \in BOOLEAN /\ (registered' => registered) /\ notices' \in 0..1
        /\ UNCHANGED <<sessions, life, awake, viewers, lastWatching, sinceBeat, outbox, sinceWatched>>
    BY <1>1, <1>5 DEF HookNotifies, HookReads, HookFinds
  <2>2. HubTypeOK' /\ Kept(Mine)
    BY <1>1, <2>1, OnlyPrunes
  <2>3. TypeOK'
    BY <1>1, <2>1, <2>2 DEF TypeOK, DaemonTypeOK
  <2>. QED
    BY <2>1, <2>2, <2>3, HubKeepsFresh
<1>6. CASE HubNotified \/ HubListed \/ HubStartsAgain \/ UNCHANGED prVars
  <2>1. /\ UNCHANGED dlVars /\ sinceWatched' = sinceWatched /\ notices' \in 0..1
        /\ Notify(Mine) \/ List \/ HubRestarts \/ UNCHANGED sessions
    BY <1>1, <1>6 DEF HubNotified, HubListed, HubStartsAgain, prVars, dlVars
  <2>2. HubTypeOK' /\ Kept(Mine)
    BY <1>1, <2>1, OnlyPrunes
  <2>3. TypeOK'
    BY <1>1, <2>1, <2>2 DEF TypeOK, DaemonTypeOK, dlVars
  <2>. QED
    BY <2>1, <2>2, <2>3, HubKeepsFresh DEF dlVars
<1>7. CASE Tick
  BY <1>7, TickKeepsFresh
<1>. QED
  BY <1>2, <1>3, <1>4, <1>5, <1>6, <1>7 DEF PrNext
---------------------------------------------------------------------------
(* After shutdown() the session's file is gone from the registry and no    *)
(* heartbeat puts it back, whatever the sockets' close events and the      *)
(* timer still do (term/bin/ccrc-term.js: beat, shutdown).                 *)
THEOREM RegistryIsClean == PrSpec => []RegistryStaysClean
<1>1. PrInv => RegistryStaysClean
  BY DEF PrInv
<1>. QED
  BY FirstPresence, StepPresence, <1>1, PTL DEF PrSpec

(* The hub holds a push back only for a terminal that somebody had on      *)
(* screen at most HEARTBEAT_DEAD_MS and one delay ago, whichever of the    *)
(* heartbeats were lost or overtaken and however the daemon ended          *)
(* (server/src/terminal-sessions.js: isViewing, register).                 *)
THEOREM SilenceBounded == PrSpec => []SilenceIsBounded
<1>1. PrInv => SilenceIsBounded
  <2>1. SUFFICES ASSUME PrInv, IsViewing(Mine, sessions) PROVE sinceWatched <= Dead + MaxDelay
    BY DEF SilenceIsBounded, HoldsBack
  <2>2. sinceWatched <= sessions[Mine].age + MaxDelay /\ sessions[Mine].age <= Dead
    BY <2>1 DEF PrInv, BeliefIsFresh, IsViewing
  <2>3. sinceWatched \in 0..LongAgo /\ sessions[Mine].age \in 0..(Evict + 1)
    BY <2>1 DEF PrInv, TypeOK, HubTypeOK, IsViewing, Entry
  <2>. QED
    BY <2>2, <2>3, AgesAssumption, TicksAssumption
<1>. QED
  BY FirstPresence, StepPresence, <1>1, PTL DEF PrSpec

(* No step of the daemon, the hub, the hook or the clock takes the unread  *)
(* mark from an entry that is not evicted and stays listed                 *)
(* (server/src/terminal-sessions.js: register, noteArrived).               *)
THEOREM UnreadSurvives == PrSpec => UnreadSurvivesBeats
<1>. DEFINE Survives ==
       \A s \in DOMAIN sessions \cap DOMAIN sessions' :
          sessions[s].notified /\ sessions[s].age <= Evict => sessions'[s].notified
<1>1. ASSUME PrInv, PrNext PROVE Survives
  <2>1. HubTypeOK /\ outbox \in SUBSET Request
    BY <1>1 DEF PrInv, TypeOK, DaemonTypeOK
  <2>2. CASE \A s : Kept(s)
    BY <2>2 DEF Kept
  <2>3. ASSUME NEW r \in outbox, HubHandles(r) PROVE Survives
    <3>1. CASE r.kind = "register" /\ Register(Mine, r.viewing)
      BY <2>1, <3>1, Registers, MineAssumption DEF Request, Kept
    <3>2. CASE r.kind = "unregister" /\ Unregister(Mine)
      BY <2>1, <2>2, <3>2, OnlyPrunes
    <3>. QED
      BY <2>3, <3>1, <3>2 DEF HubHandles
  <2>4. CASE Tick
    BY <2>1, <2>4, GrowsOlder DEF Tick
  <2>5. ASSUME NEW r \in outbox, RequestLost(r) PROVE Survives
    BY <2>5 DEF RequestLost
  <2>6. CASE DaemonSteps \/ HookNotifies
    BY <2>6 DEF DaemonSteps, HookNotifies
  <2>7. CASE HubNotified \/ HubListed \/ HubStartsAgain
    <3>1. Notify(Mine) \/ List \/ HubRestarts
      BY <2>7 DEF HubNotified, HubListed, HubStartsAgain
    <3>. QED
      BY <2>1, <2>2, <3>1, OnlyPrunes
  <2>. QED
    BY <1>1, <2>3, <2>4, <2>5, <2>6, <2>7 DEF PrNext
<1>2. PrInv /\ [PrNext]_prVars => [Survives]_prVars
  BY <1>1
<1>. QED
  BY FirstPresence, StepPresence, <1>2, PTL DEF PrSpec, UnreadSurvivesBeats

(***************************************************************************)
(* Remote.                                                                 *)
(***************************************************************************)
(***************************************************************************)
(* The inductive invariant.                                                *)
(***************************************************************************)
\* This `on` has spawned its daemon.
Spawned(d) == cmd[d].kind = "on" /\ cmd[d].seen.session = d

\* What a command knows at each of its steps.
Orderly(c) ==
    /\ cmd[c].pc = "none" => cmd[c] = Idle
    /\ cmd[c].pc = "next" => cmd[c].kind \in Asking
    /\ cmd[c].pc = "judge" =>
        /\ cmd[c].kind \in Asking \cup {"on"} /\ cmd[c].pane \in Panes /\ ~Spawned(c)
        /\ cmd[c].kind \in Asking => cmd[c].seen \in File
    /\ cmd[c].pc = "start" => Spawned(c)
    /\ cmd[c].pc \in {"waiting", "final", "dying"} =>
        cmd[c].kind \in {"off", "offall"} /\ cmd[c].pane \in Panes /\ cmd[c].seen \in File
    /\ cmd[c].kind = "on" => cmd[c].pane \in Panes
    /\ cmd[c].pc # "over" => cmd[c].out = Nobody
    /\ Spawned(c) =>
        /\ cmd[c].pc \in {"start", "over"} /\ cmd[c].seen \in File
        /\ cmd[c].pc = "over" => cmd[c].out \in {"on", "failed", "gaveup", "killed"}

\* A daemon is the work of the `on` it goes by, and has its pid until it dies.
DaemonIsSpawned(d) ==
    /\ daemon[d] = "none" <=> ~Spawned(d)
    /\ Spawned(d) => who[cmd[d].seen.pid] = d \/ daemon[d] = "dead"
    /\ d \in said => daemon[d] \in {"serving", "stopping", "dead"}
    /\ cmd[d].pc = "over" /\ Spawned(d) /\ cmd[d].out = "on" => d \in said
    /\ cmd[d].pc = "over" /\ Spawned(d) /\ cmd[d].out = "failed" => daemon[d] = "dead"

PidIsOf(p) ==
    who[p] \in Cmds =>
        /\ Spawned(who[p]) /\ cmd[who[p]].seen.pid = p
        /\ daemon[who[p]] \in {"starting", "serving", "stopping"}

\* What a file says, now or when it was read: the pid of a daemon of its pane.
Names(f, q) ==
    /\ f \in File /\ Spawned(f.session)
    /\ cmd[f.session].seen = f /\ cmd[f.session].pane = q

FilesName ==
    /\ \A q \in Panes : pidFile[q] # NoFile => Names(pidFile[q], q)
    /\ \A c \in Cmds : cmd[c].seen # NoFile => Names(cmd[c].seen, cmd[c].pane)

\* Two daemons with one pid, one after the other, are on record.
OnePidTwice ==
    \A d, e \in Cmds :
        d # e /\ Spawned(d) /\ Spawned(e) /\ cmd[d].seen.pid = cmd[e].seen.pid
            => cmd[d].seen.pid \in reused

Hits ==
    \A h \in hit :
        /\ h[2] \in Cmds /\ Spawned(h[2])
        /\ cmd[h[2]].pane = h[1] \/ cmd[h[2]].seen.pid \in reused

DoneIsDone == \A c \in Cmds : \A d \in cmd[c].done \ misjudged : daemon[d] \in {"stopping", "dead"}

CrossedIsKept == \A c \in Cmds : Crossing(c) => c \in crossed

\* One that the commands may have lost sight of.
Loose(d) == Stray(d) \/ d \in misjudged

\* A daemon whose `on` has come to its end, alone, is the one its file names,
\* and whoever has read that file since has its name.
IsFiled(d) ==
    daemon[d] = "serving" /\ cmd[d].pc = "over" /\ ~Loose(d) =>
        /\ pidFile[cmd[d].pane] = cmd[d].seen
        /\ \A c \in Cmds \ {d} :
            /\ cmd[c].pane = cmd[d].pane
            /\ cmd[c].pc \in {"judge", "start", "waiting", "final", "dying"}
            => cmd[c].pc # "start" /\ cmd[c].seen = cmd[d].seen

\* An order that lies on the pane of a daemon is one for its own end.
OrderIsFor(d) ==
    LA_WINDOWS /\ daemon[d] = "serving" /\ ~Loose(d) /\ cmd[d].pane \in stopFile =>
        \E c \in Cmds : d \in cmd[c].aimed

Spawning ==
    /\ \A c \in Cmds : Orderly(c)
    /\ \A d \in Cmds : DaemonIsSpawned(d)
    /\ \A p \in Pids : PidIsOf(p)
    /\ FilesName

Stopping ==
    /\ \A d \in Cmds : IsFiled(d)
    /\ \A d \in Cmds : OrderIsFor(d)

RmInv == /\ RemoteTypeOK /\ Spawning /\ CrossedIsKept
         /\ OnePidTwice /\ Hits /\ DoneIsDone /\ Stopping

(***************************************************************************)
(* The steps, field by field.                                              *)
(***************************************************************************)
Others(c) == \A d \in Cmds \ {c} : cmd'[d] = cmd[d]
SameTask(c) ==
    /\ cmd'[c].kind = cmd[c].kind /\ cmd'[c].pane = cmd[c].pane /\ cmd'[c].seen = cmd[c].seen
SameReport(c) == cmd'[c].aimed = cmd[c].aimed /\ cmd'[c].done = cmd[c].done
SameOut(c) == cmd'[c].out = cmd[c].out
SameWorld == UNCHANGED <<LA_WINDOWS, who, daemon, said, pidFile, stopFile>>

\* A command begins, or turns to a pane that has a file.
Opens(c) ==
    /\ Others(c) /\ SameWorld
    /\ \/ /\ cmd[c].pc = "none" /\ cmd'[c].out = Nobody
          /\ cmd'[c].done = {} /\ cmd'[c].aimed = {}
          /\ \/ /\ cmd'[c].pc = "judge" /\ cmd'[c].kind = "on"
                /\ cmd'[c].pane \in Panes /\ cmd'[c].seen = pidFile[cmd'[c].pane]
             \/ /\ cmd'[c].pc = "next" /\ cmd'[c].kind \in Asking
                /\ cmd'[c].seen = NoFile /\ cmd'[c].pane = Nobody
       \/ /\ cmd[c].pc = "next" /\ cmd'[c].pc = "judge" /\ cmd'[c].kind = cmd[c].kind
          /\ cmd'[c].pane \in Panes /\ cmd'[c].seen = pidFile[cmd'[c].pane]
          /\ cmd'[c].seen # NoFile /\ SameReport(c) /\ SameOut(c)

\* A command goes on with the pane it has, or ends.
Turns(c) ==
    /\ Others(c) /\ SameWorld /\ SameTask(c) /\ SameReport(c)
    /\ \/ cmd[c].pc = "next" /\ cmd'[c].pc \in {"next", "over"} /\ SameOut(c)
       \/ cmd[c].pc = "judge" /\ cmd'[c].pc = "over" /\ SameOut(c)
       \/ cmd[c].pc = "start" /\ cmd'[c].pc = "over" /\ cmd'[c].out = "failed" /\ daemon[c] = "dead"
       \/ cmd[c].pc = "start" /\ cmd'[c].pc = "over" /\ cmd'[c].out = "gaveup"
       \/ cmd[c].pc = "waiting" /\ cmd'[c].pc = "final" /\ SameOut(c)
       \/ cmd[c].pc \notin {"none", "over"} /\ cmd'[c].pc = "over" /\ cmd'[c].out = "killed"

\* The next pane, if any.
GoesToNext(c) ==
    /\ Others(c) /\ cmd'[c].kind = cmd[c].kind /\ cmd'[c].pc = "next"
    /\ cmd'[c].pane = Nobody /\ cmd'[c].seen = NoFile /\ SameOut(c)

Unfiles(q) == \A r \in Panes : pidFile'[r] = IF r = q THEN NoFile ELSE pidFile[r]

\* What it has read names no daemon of ours, or a probe says so and that is kept.
NamesNone(c) == ~IsOurDaemon(cmd[c].seen.pid) \/ cmd[c].seen.session \in misjudged'

\* `on` finds no daemon and spawns one.
SpawnsAs(c, p) ==
    /\ Others(c) /\ UNCHANGED <<LA_WINDOWS, said, stopFile>>
    /\ cmd[c].kind = "on" /\ cmd[c].pc = "judge" /\ NamesNone(c)
    /\ p \in Pids /\ who[p] = Nobody /\ who' = [who EXCEPT ![p] = c]
    /\ daemon' = [daemon EXCEPT ![c] = "starting"]
    /\ (cmd[c].seen = NoFile /\ UNCHANGED pidFile) \/ Unfiles(cmd[c].pane)
    /\ cmd'[c].kind = "on" /\ cmd'[c].pane = cmd[c].pane /\ cmd'[c].pc = "start"
    /\ cmd'[c].seen = [pid |-> p, session |-> c] /\ SameReport(c) /\ SameOut(c)

\* A command is done with a pane, which it may have found without a daemon.
LetsGo(c) ==
    /\ GoesToNext(c) /\ SameReport(c)
    /\ UNCHANGED <<LA_WINDOWS, daemons, stopFile>>
    /\ cmd[c].kind \in Asking /\ cmd[c].pc = "judge"
    /\ \/ UNCHANGED pidFile
       \/ NamesNone(c) /\ Unfiles(cmd[c].pane)

Files(c) ==
    /\ Others(c) /\ SameTask(c) /\ SameReport(c)
    /\ UNCHANGED <<LA_WINDOWS, daemons, stopFile>>
    /\ cmd[c].pc = "start" /\ c \in said /\ cmd'[c].pc = "over" /\ cmd'[c].out = "on"
    /\ \A r \in Panes : pidFile'[r] = IF r = cmd[c].pane THEN cmd[c].seen ELSE pidFile[r]

Shoots(c) ==
    /\ GoesToNext(c) /\ UNCHANGED <<LA_WINDOWS, who, said, stopFile>>
    /\ cmd[c].kind \in {"off", "offall"} /\ cmd[c].pc = "judge"
    /\ IsOurDaemon(cmd[c].seen.pid)
    /\ daemon' = [daemon EXCEPT ![who[cmd[c].seen.pid]] = "stopping"]
    /\ Unfiles(cmd[c].pane)
    /\ cmd'[c].done = cmd[c].done \cup {cmd[c].seen.session}
    /\ cmd'[c].aimed = cmd[c].aimed \cup {cmd[c].seen.session}

Orders(c) ==
    /\ Others(c) /\ SameTask(c) /\ SameOut(c)
    /\ UNCHANGED <<LA_WINDOWS, daemons, pidFile>>
    /\ cmd[c].kind \in {"off", "offall"} /\ cmd[c].pc = "judge" /\ cmd'[c].pc = "waiting"
    /\ stopFile' = stopFile \cup {cmd[c].pane}
    /\ cmd'[c].done = cmd[c].done
    /\ cmd'[c].aimed = cmd[c].aimed \cup {cmd[c].seen.session}

Nets(c) ==
    /\ Others(c) /\ SameTask(c) /\ SameReport(c) /\ SameOut(c)
    /\ UNCHANGED <<LA_WINDOWS, who, said, pidFile>>
    /\ cmd[c].pc = "final" /\ cmd'[c].pc = "dying"
    /\ \/ UNCHANGED daemon
       \/ /\ who[cmd[c].seen.pid] \in Cmds
          /\ daemon' = [daemon EXCEPT ![who[cmd[c].seen.pid]] = "stopping"]
    /\ stopFile' \subseteq stopFile

Judges(c) ==
    /\ GoesToNext(c) /\ UNCHANGED <<LA_WINDOWS, daemons, stopFile>>
    /\ cmd[c].pc = "dying" /\ cmd'[c].aimed = cmd[c].aimed
    /\ \/ UNCHANGED pidFile /\ cmd'[c].done = cmd[c].done
       \/ /\ NamesNone(c)
          /\ Unfiles(cmd[c].pane)
          /\ cmd'[c].done = cmd[c].done \cup {cmd[c].seen.session}

\* A daemon's own steps.
SameCommands == UNCHANGED <<LA_WINDOWS, cmd, pidFile>>
Announces(d) ==
    /\ SameCommands /\ UNCHANGED who
    /\ daemon[d] = "starting" /\ daemon' = [daemon EXCEPT ![d] = "serving"]
    /\ said' = said \cup {d}
    /\ stopFile' \subseteq stopFile /\ (LA_WINDOWS => cmd[d].pane \notin stopFile')
Obeys(d) ==
    /\ SameCommands /\ UNCHANGED <<who, said, stopFile>>
    /\ daemon[d] = "serving" /\ daemon' = [daemon EXCEPT ![d] = "stopping"]
Ends(d) ==
    /\ SameCommands /\ UNCHANGED <<said, stopFile>>
    /\ daemon[d] \in {"starting", "serving", "stopping"}
    /\ daemon' = [daemon EXCEPT ![d] = "dead"]
    /\ \A p \in Pids : who'[p] = IF who[p] = d THEN Nobody ELSE who[p]
GoesElsewhere(p) ==
    /\ SameCommands /\ UNCHANGED <<daemon, said, stopFile>>
    /\ who[p] = Nobody /\ who' = [who EXCEPT ![p] = Stranger]

CommandStep(c) ==
    \/ Opens(c) \/ Turns(c) \/ (\E p \in Pids : SpawnsAs(c, p)) \/ LetsGo(c) \/ Files(c)
    \/ Shoots(c) \/ Orders(c) \/ Nets(c) \/ Judges(c)

DaemonStep(d) == Announces(d) \/ Obeys(d) \/ Ends(d)

Move ==
    \/ \E c \in Cmds : CommandStep(c) \/ DaemonStep(c)
    \/ \E p \in Pids : GoesElsewhere(p)

\* What is known of the files once they are typed.
LEMMA FileFacts ==
    /\ NoFile \notin File
    /\ NoFile.pid = Nobody /\ NoFile.session = Nobody
    /\ \A f \in File : f.pid \in Pids /\ f.session \in Cmds /\ f # NoFile
    /\ Nobody \notin Cmds /\ Stranger \notin Cmds /\ Nobody # Stranger
    /\ Nobody \notin Pids
  BY RemoteAssumption DEF NoFile, File

LEMMA InitHolds == Init => RmInv
  <1> SUFFICES ASSUME Init PROVE RmInv
    OBVIOUS
  <1> USE DEF Init, CliInit
  <1>1. Idle \in Cmd
    BY DEF Idle, Cmd
  <1>2. RemoteTypeOK
    BY <1>1, RemoteAssumption DEF RemoteTypeOK, CliTypeOK
  <1>3. \A c \in Cmds : cmd[c] = Idle /\ Idle.pc = "none" /\ Idle.seen = NoFile
                        /\ Idle.kind = Nobody /\ Idle.done = {} /\ Idle.out = Nobody /\ ~Spawned(c)
    BY FileFacts DEF Idle, Spawned
  <1>4. Spawning
    <2>1. \A c \in Cmds : Orderly(c)
      BY <1>3, RemoteAssumption DEF Orderly
    <2>2. \A c \in Cmds : DaemonIsSpawned(c)
      BY <1>3 DEF DaemonIsSpawned
    <2>3. (\A p \in Pids : PidIsOf(p)) /\ FilesName
      BY <1>3, FileFacts DEF PidIsOf, FilesName
    <2> QED
      BY <2>1, <2>2, <2>3 DEF Spawning
  <1>5. CrossedIsKept /\ OnePidTwice /\ Hits /\ DoneIsDone
    BY <1>3 DEF CrossedIsKept, Crossing, BusyWith, OnePidTwice, Hits, DoneIsDone
  <1>6. Stopping
    BY DEF Stopping, IsFiled, OrderIsFor
  <1> QED
    BY <1>2, <1>4, <1>5, <1>6 DEF RmInv

(***************************************************************************)
(* What a step does.                                                       *)
(***************************************************************************)
LEMMA OpensStep ==
    ASSUME CliTypeOK, NEW c \in Cmds, Orderly(c), Begins(c)
    PROVE  CliTypeOK' /\ Opens(c)
  <1> USE FileFacts, RemoteAssumption DEF CliTypeOK
  <1>1. ASSUME NEW q \in Panes, CmdOn(c, q)
        PROVE  CliTypeOK' /\ Opens(c)
    <2> DEFINE r == [Idle EXCEPT !.kind = "on", !.pane = q, !.pc = "judge", !.seen = FileOf(q)]
    <2>1. r \in Cmd /\ r.pc = "judge" /\ r.kind = "on" /\ r.pane = q /\ r.seen = pidFile[q]
          /\ r.out = Nobody /\ r.done = {} /\ r.aimed = {}
      BY DEF Cmd, Idle, FileOf, PidFilePath
    <2>2. cmd' = [cmd EXCEPT ![c] = r] /\ SameWorld /\ cmd[c].pc = "none" /\ faults' = faults
      BY <1>1 DEF CmdOn, Starts, SameWorld, daemons, files
    <2> HIDE DEF r
    <2> QED
      BY <2>1, <2>2 DEF Opens, Others, SameWorld
  <1>2. ASSUME NEW kind \in Asking, NEW panes \in SUBSET Panes, CmdAsks(c, kind, panes)
        PROVE  CliTypeOK' /\ Opens(c)
    <2> DEFINE r == [Idle EXCEPT !.kind = kind, !.todo = panes, !.pc = "next"]
    <2>1. r \in Cmd /\ r.pc = "next" /\ r.kind = kind /\ r.seen = NoFile /\ r.pane = Nobody
          /\ r.out = Nobody /\ r.done = {} /\ r.aimed = {}
      BY DEF Cmd, Idle
    <2>2. cmd' = [cmd EXCEPT ![c] = r] /\ SameWorld /\ cmd[c].pc = "none" /\ faults' = faults
      BY <1>2 DEF CmdAsks, Starts, SameWorld, daemons, files
    <2> HIDE DEF r
    <2> QED
      BY <2>1, <2>2 DEF Opens, Others, SameWorld
  <1>3. "off" \in Asking /\ "offall" \in Asking /\ "look" \in Asking
        /\ Filed \in SUBSET Panes /\ \A q \in Panes : {q} \in SUBSET Panes
    BY DEF Asking, Filed
  <1> QED
    BY <1>1, <1>2, <1>3 DEF Begins

\* Only the place in the command, and perhaps its result, change.
PlaceIs(c, pc, out) ==
    /\ cmd' \in [Cmds -> Cmd] /\ Others(c) /\ SameTask(c) /\ SameReport(c)
    /\ cmd'[c].pc = pc /\ cmd'[c].out = out

LEMMA OnlyThePlace ==
    ASSUME cmd \in [Cmds -> Cmd], NEW c \in Cmds,
           NEW pc \in {"none", "next", "judge", "start", "waiting", "final", "dying", "over"},
           NEW out \in {"on", "failed", "gaveup", "killed"}
    PROVE  /\ cmd' = [cmd EXCEPT ![c].pc = pc] => PlaceIs(c, pc, cmd[c].out)
           /\ cmd' = [cmd EXCEPT ![c].pc = pc, ![c].out = out] => PlaceIs(c, pc, out)
  <1> DEFINE r == [cmd[c] EXCEPT !.pc = pc]
  <1> DEFINE s == [cmd[c] EXCEPT !.pc = pc, !.out = out]
  <1>1. cmd[c] \in Cmd
    OBVIOUS
  <1>2. /\ r \in Cmd /\ r.pc = pc /\ r.out = cmd[c].out /\ r.kind = cmd[c].kind
        /\ r.pane = cmd[c].pane /\ r.seen = cmd[c].seen
        /\ r.aimed = cmd[c].aimed /\ r.done = cmd[c].done
    BY <1>1 DEF Cmd
  <1>3. /\ s \in Cmd /\ s.pc = pc /\ s.out = out /\ s.kind = cmd[c].kind
        /\ s.pane = cmd[c].pane /\ s.seen = cmd[c].seen
        /\ s.aimed = cmd[c].aimed /\ s.done = cmd[c].done
    BY <1>1 DEF Cmd
  <1>4. /\ [cmd EXCEPT ![c].pc = pc] = [cmd EXCEPT ![c] = r]
        /\ [cmd EXCEPT ![c].pc = pc, ![c].out = out] = [cmd EXCEPT ![c] = s]
    <2>1. [cmd EXCEPT ![c].pc = pc] = [cmd EXCEPT ![c] = r]
      OBVIOUS
    <2>2. [cmd EXCEPT ![c].pc = pc, ![c].out = out]
            = [[cmd EXCEPT ![c].pc = pc] EXCEPT ![c].out = out]
      OBVIOUS
    <2>3. [[cmd EXCEPT ![c] = r] EXCEPT ![c].out = out] = [cmd EXCEPT ![c] = [r EXCEPT !.out = out]]
      BY <1>2
    <2>4. [r EXCEPT !.out = out] = s
      BY <1>1 DEF Cmd
    <2> QED
      BY <2>1, <2>2, <2>3, <2>4
  <1> HIDE DEF r, s
  <1>5. ASSUME cmd' = [cmd EXCEPT ![c] = r]
        PROVE  PlaceIs(c, pc, cmd[c].out)
    BY <1>2, <1>5 DEF PlaceIs, Others, SameTask, SameReport
  <1>6. ASSUME cmd' = [cmd EXCEPT ![c] = s]
        PROVE  PlaceIs(c, pc, out)
    BY <1>3, <1>6 DEF PlaceIs, Others, SameTask, SameReport
  <1> QED
    BY <1>4, <1>5, <1>6

LEMMA ReadsStep ==
    ASSUME CliTypeOK, NEW c \in Cmds, Orderly(c), Reads(c)
    PROVE  CliTypeOK' /\ (Opens(c) \/ Turns(c))
  <1> USE FileFacts, RemoteAssumption DEF CliTypeOK
  <1>1. cmd[c].pc = "next" /\ SameWorld /\ faults' = faults
    BY DEF Reads, SameWorld, daemons, files
  <1>2. CASE \E q \in cmd[c].todo :
               FileOf(q) = NoFile /\ cmd' = [cmd EXCEPT ![c].todo = @ \ {q}]
    <2>1. PICK q \in cmd[c].todo : cmd' = [cmd EXCEPT ![c].todo = @ \ {q}]
      BY <1>2
    <2> DEFINE r == [cmd[c] EXCEPT !.todo = @ \ {q}]
    <2>2. /\ r \in Cmd /\ r.pc = cmd[c].pc /\ r.out = cmd[c].out /\ r.kind = cmd[c].kind
          /\ r.pane = cmd[c].pane /\ r.seen = cmd[c].seen
          /\ r.aimed = cmd[c].aimed /\ r.done = cmd[c].done
      <3>1. cmd[c] \in Cmd
        OBVIOUS
      <3> QED
        BY <3>1 DEF Cmd
    <2>3. cmd' = [cmd EXCEPT ![c] = r]
      BY <2>1
    <2> HIDE DEF r
    <2> QED
      BY <1>1, <2>2, <2>3 DEF Turns, Others, SameTask, SameReport, SameOut, SameWorld
  <1>3. CASE \E q \in cmd[c].todo :
               /\ FileOf(q) # NoFile
               /\ cmd' = [cmd EXCEPT ![c].todo = @ \ {q}, ![c].pane = q, ![c].seen = FileOf(q),
                                     ![c].pc = "judge"]
    <2>1. PICK q \in cmd[c].todo :
               /\ FileOf(q) # NoFile
               /\ cmd' = [cmd EXCEPT ![c].todo = @ \ {q}, ![c].pane = q, ![c].seen = FileOf(q),
                                     ![c].pc = "judge"]
      BY <1>3
    <2>2. q \in Panes /\ FileOf(q) = pidFile[q]
      BY DEF Cmd, FileOf, PidFilePath
    <2> QED
      BY <1>1, <2>1, <2>2 DEF Cmd, Opens, Others, SameReport, SameOut, SameWorld
  <1>4. CASE cmd' = [cmd EXCEPT ![c].pc = "over"]
    <2>1. PlaceIs(c, "over", cmd[c].out)
      BY <1>4, OnlyThePlace
    <2> QED
      BY <1>1, <2>1 DEF PlaceIs, Turns, SameOut, SameWorld
  <1> QED
    BY <1>2, <1>3, <1>4 DEF Reads

LEMMA TurnsStep ==
    ASSUME CliTypeOK, NEW c \in Cmds, Orderly(c),
           \/ AlreadyOn(c) \/ StartFails(c) \/ StartGivesUp(c) \/ WaitsForExit(c)
           \/ Interrupted(c)
    PROVE  CliTypeOK' /\ Turns(c)
  <1> USE RemoteAssumption DEF CliTypeOK, Fault, NoFault
  <1> USE DEF PlaceIs, Turns, SameOut, SameWorld, daemons, files
  <1>1. CASE AlreadyOn(c)
    <2>1. PlaceIs(c, "over", cmd[c].out)
      BY <1>1, OnlyThePlace DEF AlreadyOn
    <2> QED
      BY <1>1, <2>1 DEF AlreadyOn, Found
  <1>2. CASE StartFails(c)
    <2>1. PlaceIs(c, "over", "failed")
      BY <1>2, OnlyThePlace DEF StartFails
    <2> QED
      BY <1>2, <2>1 DEF StartFails
  <1>3. CASE StartGivesUp(c)
    <2>1. PlaceIs(c, "over", "gaveup")
      BY <1>3, OnlyThePlace DEF StartGivesUp
    <2> QED
      BY <1>3, <2>1 DEF StartGivesUp
  <1>4. CASE WaitsForExit(c)
    <2>1. PlaceIs(c, "final", cmd[c].out)
      BY <1>4, OnlyThePlace DEF WaitsForExit
    <2> QED
      BY <1>4, <2>1 DEF WaitsForExit
  <1>5. CASE Interrupted(c)
    <2>1. PlaceIs(c, "over", "killed")
      BY <1>5, OnlyThePlace DEF Interrupted
    <2> QED
      BY <1>5, <2>1 DEF Interrupted
  <1> QED
    BY <1>1, <1>2, <1>3, <1>4, <1>5

\* The three forms in which a command goes to the next pane.
LEMMA NextPaneStep ==
    ASSUME cmd \in [Cmds -> Cmd], NEW c \in Cmds
    PROVE  /\ cmd' = NextPane(c) =>
                cmd' \in [Cmds -> Cmd] /\ GoesToNext(c) /\ SameReport(c)
           /\ cmd[c].seen \in File /\ cmd' = Reported(c) =>
                /\ cmd' \in [Cmds -> Cmd] /\ GoesToNext(c) /\ cmd'[c].aimed = cmd[c].aimed
                /\ cmd'[c].done = cmd[c].done \cup {cmd[c].seen.session}
           /\ (cmd[c].seen \in File
               /\ cmd' = [Reported(c) EXCEPT ![c].aimed = @ \cup {cmd[c].seen.session}]) =>
                /\ cmd' \in [Cmds -> Cmd] /\ GoesToNext(c)
                /\ cmd'[c].aimed = cmd[c].aimed \cup {cmd[c].seen.session}
                /\ cmd'[c].done = cmd[c].done \cup {cmd[c].seen.session}
  <1> DEFINE ses == cmd[c].seen.session
  <1> DEFINE r == [cmd[c] EXCEPT !.pc = "next", !.pane = Nobody, !.seen = NoFile]
  <1> DEFINE s == [r EXCEPT !.done = @ \cup {ses}]
  <1> DEFINE t == [s EXCEPT !.aimed = @ \cup {ses}]
  <1>1. cmd[c] \in Cmd /\ (cmd[c].seen \in File => ses \in Cmds)
    BY FileFacts
  <1>2. /\ r \in Cmd /\ r.pc = "next" /\ r.out = cmd[c].out /\ r.kind = cmd[c].kind
        /\ r.pane = Nobody /\ r.seen = NoFile /\ r.aimed = cmd[c].aimed /\ r.done = cmd[c].done
    BY <1>1 DEF Cmd
  <1>3. NextPane(c) = [cmd EXCEPT ![c] = r]
    BY <1>1 DEF NextPane, Cmd
  <1> HIDE DEF r
  <1>4. ASSUME cmd[c].seen \in File
        PROVE  /\ s \in Cmd /\ s.pc = "next" /\ s.out = cmd[c].out /\ s.kind = cmd[c].kind
               /\ s.pane = Nobody /\ s.seen = NoFile /\ s.aimed = cmd[c].aimed
               /\ s.done = cmd[c].done \cup {ses}
    <2> HIDE DEF ses
    <2> QED
      BY <1>1, <1>2, <1>4 DEF Cmd
  <1>5. Reported(c) = [cmd EXCEPT ![c] = s]
    BY <1>3 DEF Reported
  <1> HIDE DEF s
  <1>6. ASSUME cmd[c].seen \in File
        PROVE  /\ t \in Cmd /\ t.pc = "next" /\ t.out = cmd[c].out /\ t.kind = cmd[c].kind
               /\ t.pane = Nobody /\ t.seen = NoFile /\ t.aimed = cmd[c].aimed \cup {ses}
               /\ t.done = cmd[c].done \cup {ses}
    <2> HIDE DEF ses
    <2> QED
      BY <1>1, <1>4, <1>6 DEF Cmd
  <1>7. [Reported(c) EXCEPT ![c].aimed = @ \cup {ses}] = [cmd EXCEPT ![c] = t]
    BY <1>5
  <1> HIDE DEF t
  <1>8. ASSUME cmd' = NextPane(c)
        PROVE  cmd' \in [Cmds -> Cmd] /\ GoesToNext(c) /\ SameReport(c)
    BY <1>2, <1>3, <1>8 DEF GoesToNext, Others, SameOut, SameReport
  <1>9. ASSUME cmd[c].seen \in File, cmd' = Reported(c)
        PROVE  /\ cmd' \in [Cmds -> Cmd] /\ GoesToNext(c) /\ cmd'[c].aimed = cmd[c].aimed
               /\ cmd'[c].done = cmd[c].done \cup {ses}
    BY <1>4, <1>5, <1>9 DEF GoesToNext, Others, SameOut
  <1>10. ASSUME cmd[c].seen \in File, cmd' = [Reported(c) EXCEPT ![c].aimed = @ \cup {ses}]
         PROVE  /\ cmd' \in [Cmds -> Cmd] /\ GoesToNext(c)
                /\ cmd'[c].aimed = cmd[c].aimed \cup {ses}
                /\ cmd'[c].done = cmd[c].done \cup {ses}
    BY <1>6, <1>7, <1>10 DEF GoesToNext, Others, SameOut
  <1> QED
    BY <1>8, <1>9, <1>10

\* The file of a pane is gone, or stays.
LEMMA UnlinksStep ==
    ASSUME CliTypeOK, NEW q \in Panes
    PROVE  /\ Unlinks(q) => Unfiles(q) /\ pidFile' \in [Panes -> File \cup {NoFile}]
           /\ \A c \in Cmds : Discards(c) /\ cmd[c].pane = q =>
                /\ (cmd[c].seen = NoFile /\ UNCHANGED pidFile) \/ Unfiles(q)
                /\ pidFile' \in [Panes -> File \cup {NoFile}]
  <1>1. Unlinks(q) => Unfiles(q) /\ pidFile' \in [Panes -> File \cup {NoFile}]
    BY DEF CliTypeOK, Unlinks, Unfiles, PidFilePath
  <1> QED
    BY <1>1 DEF CliTypeOK, Discards

\* A probe that says no of a daemon is on record.
LEMMA Misjudged ==
    ASSUME History, NEW c \in Cmds, Misjudges(c)
    PROVE  cmd[c].seen.session \in misjudged'
  BY DEF History

LEMMA SpawnsStep ==
    ASSUME CliTypeOK, NEW c \in Cmds, Orderly(c), Spawns(c), History
    PROVE  CliTypeOK' /\ \E p \in Pids : SpawnsAs(c, p)
  <1>1. PICK p \in Pids :
          /\ who[p] = Nobody /\ who' = [who EXCEPT ![p] = c]
          /\ cmd' = [cmd EXCEPT ![c].pc = "start", ![c].seen = [pid |-> p, session |-> c]]
    BY DEF Spawns
  <1> DEFINE f == [pid |-> p, session |-> c]
  <1> DEFINE r == [cmd[c] EXCEPT !.pc = "start", !.seen = f]
  <1>2. cmd[c] \in Cmd /\ f \in File
    BY DEF CliTypeOK, File
  <1> HIDE DEF f
  <1>3. /\ r \in Cmd /\ r.pc = "start" /\ r.out = cmd[c].out /\ r.kind = cmd[c].kind
        /\ r.pane = cmd[c].pane /\ r.seen = f /\ r.aimed = cmd[c].aimed /\ r.done = cmd[c].done
    BY <1>2 DEF Cmd
  <1>4. cmd' = [cmd EXCEPT ![c] = r]
    BY <1>1, <1>2 DEF CliTypeOK, Cmd, f
  <1> HIDE DEF r
  <1>5. /\ cmd' \in [Cmds -> Cmd] /\ Others(c) /\ SameReport(c) /\ SameOut(c)
        /\ cmd'[c].kind = cmd[c].kind /\ cmd'[c].pane = cmd[c].pane /\ cmd'[c].pc = "start"
        /\ cmd'[c].seen = f
    BY <1>3, <1>4 DEF CliTypeOK, Others, SameReport, SameOut
  <1>6. cmd[c].kind = "on" /\ cmd[c].pc = "judge" /\ Discards(c)
        /\ daemon' = [daemon EXCEPT ![c] = "starting"]
        /\ UNCHANGED <<LA_WINDOWS, said, stopFile>>
    BY DEF Spawns, Becomes
  <1>11. NamesNone(c) /\ faults' \in 0 .. MaxFaults
    <2>1. IsOurDaemon(cmd[c].seen.pid) => Misjudges(c)
      BY DEF Misjudges
    <2>2. faults' \in 0 .. MaxFaults
      BY RemoteAssumption DEF CliTypeOK, Spawns, FoundNone, SaysNotOurs, Fault, NoFault
    <2> QED
      BY <2>1, <2>2, Misjudged DEF NamesNone
  <1>7. cmd[c].pane \in Panes
    BY <1>6 DEF Orderly
  <1>8. /\ (cmd[c].seen = NoFile /\ UNCHANGED pidFile) \/ Unfiles(cmd[c].pane)
        /\ pidFile' \in [Panes -> File \cup {NoFile}]
    BY <1>6, <1>7, UnlinksStep
  <1>9. SpawnsAs(c, p)
    BY <1>1, <1>5, <1>6, <1>8, <1>11 DEF SpawnsAs, f
  <1>10. CliTypeOK'
    BY <1>1, <1>5, <1>6, <1>8, <1>11 DEF CliTypeOK
  <1> QED
    BY <1>9, <1>10

LEMMA NothingToAskStep ==
    ASSUME CliTypeOK, NEW c \in Cmds, Orderly(c), NothingToAsk(c), History
    PROVE  CliTypeOK' /\ LetsGo(c)
  <1>1. /\ cmd' = NextPane(c) /\ UNCHANGED <<LA_WINDOWS, who, daemon, said, stopFile>>
        /\ cmd[c].kind \in Asking /\ cmd[c].pc = "judge"
        /\ (FoundNone(c) /\ Discards(c)) \/ UNCHANGED pidFile
    BY DEF NothingToAsk, daemons
  <1>6. faults' \in 0 .. MaxFaults
    BY RemoteAssumption
       DEF CliTypeOK, NothingToAsk, Found, FoundNone, SaysNotOurs, Fault, NoFault
  <1>7. FoundNone(c) => NamesNone(c)
    <2>1. FoundNone(c) /\ IsOurDaemon(cmd[c].seen.pid) => faults' # faults
      BY DEF FoundNone, SaysNotOurs, Fault, CliTypeOK
    <2>2. FoundNone(c) /\ IsOurDaemon(cmd[c].seen.pid) => Misjudges(c)
      BY <2>1 DEF Misjudges
    <2> QED
      BY <2>2, Misjudged DEF NamesNone
  <1>2. cmd[c].pane \in Panes /\ cmd[c].seen \in File /\ NoFile \notin File
    BY <1>1, FileFacts DEF Orderly
  <1>3. Discards(c) =>
          Unfiles(cmd[c].pane) /\ pidFile' \in [Panes -> File \cup {NoFile}]
    BY <1>2, UnlinksStep
  <1>4. cmd' \in [Cmds -> Cmd] /\ GoesToNext(c) /\ SameReport(c)
    BY <1>1, NextPaneStep DEF CliTypeOK
  <1>5. LetsGo(c)
    BY <1>1, <1>3, <1>4, <1>7 DEF LetsGo, daemons
  <1> QED
    BY <1>1, <1>3, <1>4, <1>5, <1>6 DEF CliTypeOK

LEMMA WritesPidFileStep ==
    ASSUME CliTypeOK, NEW c \in Cmds, Orderly(c), WritesPidFile(c)
    PROVE  CliTypeOK' /\ Files(c)
  <1>1. PlaceIs(c, "over", "on")
    BY OnlyThePlace DEF CliTypeOK, WritesPidFile
  <1>2. cmd[c].pane \in Panes /\ cmd[c].seen \in File
    BY DEF WritesPidFile, Orderly, Spawned
  <1>3. pidFile' = [pidFile EXCEPT ![cmd[c].pane] = cmd[c].seen]
    BY DEF WritesPidFile, PidFilePath
  <1>4. Files(c)
    BY <1>1, <1>2, <1>3 DEF CliTypeOK, WritesPidFile, Files, PlaceIs, daemons
  <1> QED
    BY <1>1, <1>2, <1>3, <1>4 DEF CliTypeOK, WritesPidFile, PlaceIs, daemons

LEMMA StopsBySignalStep ==
    ASSUME CliTypeOK, NEW c \in Cmds, Orderly(c), StopsBySignal(c)
    PROVE  CliTypeOK' /\ Shoots(c)
  <1>1. /\ cmd[c].kind \in {"off", "offall"} /\ cmd[c].pc = "judge" /\ IsOurDaemon(cmd[c].seen.pid)
        /\ Terminates(cmd[c].seen.pid) /\ Unlinks(cmd[c].pane)
        /\ cmd' = [Reported(c) EXCEPT ![c].aimed = @ \cup {cmd[c].seen.session}]
        /\ UNCHANGED <<LA_WINDOWS, who, said, stopFile, faults>>
    BY DEF StopsBySignal, Found, NoFault
  <1>2. cmd[c].pane \in Panes /\ cmd[c].seen \in File
    BY <1>1 DEF Orderly, Asking
  <1>3. /\ cmd' \in [Cmds -> Cmd] /\ GoesToNext(c)
        /\ cmd'[c].aimed = cmd[c].aimed \cup {cmd[c].seen.session}
        /\ cmd'[c].done = cmd[c].done \cup {cmd[c].seen.session}
    BY <1>1, <1>2, NextPaneStep DEF CliTypeOK
  <1>4. Unfiles(cmd[c].pane) /\ pidFile' \in [Panes -> File \cup {NoFile}]
    BY <1>1, <1>2, UnlinksStep
  <1>5. /\ who[cmd[c].seen.pid] \in Cmds
        /\ daemon' = [daemon EXCEPT ![who[cmd[c].seen.pid]] = "stopping"]
    BY <1>1 DEF IsOurDaemon, Terminates, Becomes
  <1>6. Shoots(c)
    BY <1>1, <1>3, <1>4, <1>5 DEF Shoots
  <1> QED
    BY <1>1, <1>3, <1>4, <1>5, <1>6 DEF CliTypeOK

LEMMA WritesStopFileStep ==
    ASSUME CliTypeOK, NEW c \in Cmds, Orderly(c), WritesStopFile(c)
    PROVE  CliTypeOK' /\ Orders(c)
  <1> DEFINE ses == cmd[c].seen.session
  <1> DEFINE r == [cmd[c] EXCEPT !.pc = "waiting", !.aimed = @ \cup {ses}]
  <1>1. cmd[c].pane \in Panes /\ cmd[c].seen \in File /\ ses \in Cmds
    BY FileFacts DEF WritesStopFile, Orderly, Asking
  <1>2. cmd[c] \in Cmd
    BY DEF CliTypeOK
  <1>3. cmd' = [cmd EXCEPT ![c] = r]
    BY <1>2 DEF CliTypeOK, WritesStopFile, Cmd
  <1>4. /\ r \in Cmd /\ r.pc = "waiting" /\ r.out = cmd[c].out /\ r.kind = cmd[c].kind
        /\ r.pane = cmd[c].pane /\ r.seen = cmd[c].seen
        /\ r.aimed = cmd[c].aimed \cup {ses} /\ r.done = cmd[c].done
    <2> HIDE DEF ses
    <2> QED
      BY <1>1, <1>2 DEF Cmd
  <1> HIDE DEF r
  <1>5. /\ cmd' \in [Cmds -> Cmd] /\ Others(c) /\ SameTask(c) /\ SameOut(c)
        /\ cmd'[c].pc = "waiting" /\ cmd'[c].aimed = cmd[c].aimed \cup {ses}
        /\ cmd'[c].done = cmd[c].done
    BY <1>3, <1>4 DEF CliTypeOK, Others, SameTask, SameOut
  <1>6. Orders(c)
    BY <1>5 DEF WritesStopFile, Orders, daemons
  <1> QED
    BY <1>1, <1>5, <1>6 DEF CliTypeOK, WritesStopFile, Found, NoFault, daemons

LEMMA LastNetStep ==
    ASSUME CliTypeOK, NEW c \in Cmds, Orderly(c), LastNet(c)
    PROVE  CliTypeOK' /\ Nets(c)
  <1>1. PlaceIs(c, "dying", cmd[c].out)
    BY OnlyThePlace DEF CliTypeOK, LastNet
  <1>2. \/ UNCHANGED daemon
        \/ /\ who[cmd[c].seen.pid] \in Cmds
           /\ daemon' = [daemon EXCEPT ![who[cmd[c].seen.pid]] = "stopping"]
    BY DEF LastNet, ToBeShot, IsOurDaemon, Terminates, Becomes
  <1>3. faults' \in 0 .. MaxFaults
    BY RemoteAssumption DEF CliTypeOK, LastNet, Fault, NoFault
  <1>4. Nets(c)
    BY <1>1, <1>2 DEF CliTypeOK, LastNet, Nets, PlaceIs, SameOut
  <1> QED
    BY <1>1, <1>2, <1>3, <1>4 DEF CliTypeOK, LastNet, PlaceIs

LEMMA VerdictStep ==
    ASSUME CliTypeOK, NEW c \in Cmds, Orderly(c), Verdict(c), History
    PROVE  CliTypeOK' /\ Judges(c)
  <1>1. /\ cmd[c].pc = "dying" /\ UNCHANGED <<LA_WINDOWS, who, daemon, said, stopFile>>
        /\ \/ cmd' = NextPane(c) /\ UNCHANGED pidFile
           \/ Unlinks(cmd[c].pane) /\ cmd' = Reported(c)
    BY DEF Verdict, daemons
  <1>2. cmd[c].pane \in Panes /\ cmd[c].seen \in File /\ cmd[c].seen.pid \in Pids
    BY <1>1, FileFacts DEF Orderly
  <1>3. cmd' = Reported(c) => NamesNone(c)
    <2>1. IsOurDaemon(cmd[c].seen.pid) => StillThere(c)
      BY FileFacts DEF StillThere, ConSong, IsOurDaemon
    <2>2. cmd' = Reported(c) /\ IsOurDaemon(cmd[c].seen.pid) => Misjudges(c)
      BY <2>1 DEF Misjudges
    <2> QED
      BY <2>2, Misjudged DEF NamesNone
  <1>4. /\ cmd' \in [Cmds -> Cmd] /\ GoesToNext(c) /\ cmd'[c].aimed = cmd[c].aimed
        /\ cmd' = NextPane(c) => cmd'[c].done = cmd[c].done
        /\ cmd' = Reported(c) => cmd'[c].done = cmd[c].done \cup {cmd[c].seen.session}
    BY <1>1, <1>2, NextPaneStep DEF CliTypeOK, SameReport
  <1>5. Unlinks(cmd[c].pane) =>
          Unfiles(cmd[c].pane) /\ pidFile' \in [Panes -> File \cup {NoFile}]
    BY <1>2, UnlinksStep
  <1>6. faults' \in 0 .. MaxFaults
    BY RemoteAssumption DEF CliTypeOK, Verdict, FoundDead, Fault, NoFault
  <1>7. Judges(c)
    BY <1>1, <1>3, <1>4, <1>5 DEF Judges, daemons
  <1> QED
    BY <1>1, <1>4, <1>5, <1>6, <1>7 DEF CliTypeOK

LEMMA LivesStep ==
    ASSUME CliTypeOK, NEW d \in Cmds, Lives(d)
    PROVE  CliTypeOK' /\ DaemonStep(d)
  <1> USE DEF CliTypeOK, SameCommands, files, Becomes
  <1>1. CASE Listens(d)
    BY <1>1 DEF Listens, DropsOrder, DaemonStep, Announces
  <1>2. CASE SeesStopFile(d)
    BY <1>2 DEF SeesStopFile, DaemonStep, Obeys
  <1>3. CASE Exits(d)
    BY <1>3 DEF Exits, Frees, DaemonStep, Ends
  <1>4. CASE Dies(d)
    BY <1>4, RemoteAssumption DEF Dies, Frees, Fault, DaemonStep, Ends
  <1> QED
    BY <1>1, <1>2, <1>3, <1>4 DEF Lives

LEMMA RecycledStep ==
    ASSUME CliTypeOK, NEW p \in Pids, Recycled(p)
    PROVE  CliTypeOK' /\ GoesElsewhere(p)
  BY RemoteAssumption DEF CliTypeOK, Recycled, Fault, GoesElsewhere, SameCommands, files

\* The moves of this module are all there are.
LEMMA Steps ==
    ASSUME CliTypeOK, \A c \in Cmds : Orderly(c), CliNext, History
    PROVE  CliTypeOK' /\ Move
  <1>1. ASSUME NEW c \in Cmds, Begins(c)
        PROVE  CliTypeOK' /\ CommandStep(c)
    BY <1>1, OpensStep DEF CommandStep
  <1>2. ASSUME NEW c \in Cmds, Proceeds(c)
        PROVE  CliTypeOK' /\ CommandStep(c)
    BY <1>2, FileFacts, ReadsStep, TurnsStep, SpawnsStep, NothingToAskStep, WritesPidFileStep,
       StopsBySignalStep, WritesStopFileStep, LastNetStep, VerdictStep DEF Proceeds, CommandStep
  <1> QED
    BY <1>1, <1>2, LivesStep, RecycledStep DEF CliNext, Move

(***************************************************************************)
(* Who is who: an `on` and its daemon stay what they are.                  *)
(***************************************************************************)
Identified(d) ==
    /\ Spawned(d) =>
        Spawned(d)' /\ cmd'[d].seen = cmd[d].seen /\ cmd'[d].pane = cmd[d].pane
    /\ Spawned(d)' /\ ~Spawned(d) => \E p \in Pids : SpawnsAs(d, p)

LEMMA Identity ==
    ASSUME CliTypeOK, CliTypeOK', Spawning, Move
    PROVE  \A d \in Cmds : Identified(d)
  <1> USE FileFacts DEF Spawned, Identified
  <1>1. ASSUME NEW c \in Cmds, Others(c)
        PROVE  \A d \in Cmds \ {c} : Identified(d)
    BY <1>1 DEF Others
  <1>2. ASSUME NEW c \in Cmds, SameTask(c)
        PROVE  Identified(c)
    BY <1>2 DEF SameTask
  <1>3. ASSUME NEW c \in Cmds, cmd[c].kind \in Asking, cmd'[c].kind = cmd[c].kind
        PROVE  Identified(c)
    BY <1>3 DEF Asking
  <1>4. ASSUME NEW c \in Cmds, Opens(c)
        PROVE  Identified(c)
    <2>1. Orderly(c) /\ \A q \in Panes : pidFile[q] # NoFile => Names(pidFile[q], q)
      BY DEF Spawning, FilesName
    <2>2. ~Spawned(c)
      BY <1>4, <2>1 DEF Opens, Orderly
    <2>3. CASE cmd'[c].kind = "on" /\ cmd'[c].pane \in Panes /\ cmd'[c].seen = pidFile[cmd'[c].pane]
      BY <2>1, <2>2, <2>3 DEF Names
    <2>4. CASE cmd'[c].kind \in Asking
      BY <2>2, <2>4 DEF Asking
    <2>5. CASE cmd'[c].kind = cmd[c].kind /\ cmd[c].pc = "next"
      BY <2>1, <2>2, <2>5 DEF Asking, Orderly
    <2> QED
      BY <1>4, <2>3, <2>4, <2>5 DEF Opens
  <1>5. ASSUME NEW c \in Cmds, CommandStep(c)
        PROVE  \A d \in Cmds : Identified(d)
    <2>1. Others(c)
      BY <1>5 DEF CommandStep, Opens, Turns, SpawnsAs, LetsGo, Files, Shoots, Orders, Nets, Judges,
                  GoesToNext
    <2>2. Orderly(c)
      BY DEF Spawning
    <2>3. Identified(c)
      <3>1. CASE \E p \in Pids : SpawnsAs(c, p)
        BY <2>2, <3>1 DEF SpawnsAs, Orderly
      <3>2. CASE Turns(c) \/ Files(c) \/ Orders(c) \/ Nets(c)
        BY <3>2, <1>2 DEF Turns, Files, Orders, Nets
      <3>3. CASE LetsGo(c) \/ Shoots(c)
        BY <3>3, <1>3 DEF LetsGo, Shoots, GoesToNext, Asking
      <3>4. CASE Judges(c)
        BY <3>4, <2>2, <1>3 DEF Judges, GoesToNext, Orderly, Asking
      <3> QED
        BY <1>4, <1>5, <3>1, <3>2, <3>3, <3>4 DEF CommandStep
    <2> QED
      BY <1>1, <2>1, <2>3
  <1>6. ASSUME UNCHANGED cmd
        PROVE  \A d \in Cmds : Identified(d)
    BY <1>6
  <1> QED
    BY <1>5, <1>6 DEF Move, DaemonStep, Announces, Obeys, Ends, GoesElsewhere, SameCommands

\* What a file said stays true of whom it names.
StillNames(f, q) ==
    /\ f \in File /\ cmd'[f.session].kind = "on"
    /\ cmd'[f.session].seen = f /\ cmd'[f.session].pane = q

LEMMA NamesStay ==
    ASSUME CliTypeOK, \A d \in Cmds : Identified(d), NEW STATE f, NEW STATE q, Names(f, q)
    PROVE  StillNames(f, q)
  BY FileFacts DEF Names, StillNames, Identified, Spawned

LEMMA KeepsOrderly ==
    ASSUME CliTypeOK, CliTypeOK', Spawning, Move
    PROVE  \A c \in Cmds : Orderly(c)'
  <1> USE FileFacts
  <1>1. \A d \in Cmds : Identified(d) /\ Orderly(d)
    BY Identity DEF Spawning
  <1>2. ASSUME NEW c \in Cmds, cmd'[c] = cmd[c]
        PROVE  Orderly(c)'
    BY <1>1, <1>2 DEF Orderly, Spawned
  <1>3. ASSUME NEW c \in Cmds, Opens(c)
        PROVE  Orderly(c)'
    <2>1. cmd'[c].pc \in {"next", "judge"} /\ cmd'[c].out = Nobody
      BY <1>1, <1>3 DEF Opens, Orderly, SameOut
    <2>2. ~Spawned(c)'
      BY <1>1, <1>3 DEF Identified, SpawnsAs, Opens, Orderly
    <2>3. \A q \in Panes : pidFile[q] \in File \cup {NoFile}
      BY DEF CliTypeOK
    <2>4. /\ cmd'[c].pc = "next" => cmd'[c].kind \in Asking
          /\ cmd'[c].pc = "judge" =>
              /\ cmd'[c].kind \in Asking \cup {"on"} /\ cmd'[c].pane \in Panes
              /\ cmd'[c].kind \in Asking => cmd'[c].seen \in File
      BY <1>1, <1>3, <2>3 DEF Opens, Orderly, Asking
    <2>5. cmd'[c].kind = "on" => cmd'[c].pane \in Panes
      BY <2>1, <2>4 DEF Asking
    <2> QED
      BY <2>1, <2>2, <2>4, <2>5 DEF Orderly
  <1>4. ASSUME NEW c \in Cmds, Turns(c)
        PROVE  Orderly(c)'
    BY <1>1, <1>4 DEF Turns, Orderly, Spawned, SameTask, SameReport, SameOut, Asking
  <1>5. ASSUME NEW c \in Cmds, NEW p \in Pids, SpawnsAs(c, p)
        PROVE  Orderly(c)'
    BY <1>1, <1>5 DEF SpawnsAs, Orderly, Spawned, SameOut, CliTypeOK, File
  <1>6. ASSUME NEW c \in Cmds, GoesToNext(c), cmd[c].kind \in Asking, cmd[c].pc # "over"
        PROVE  Orderly(c)'
    BY <1>1, <1>6 DEF GoesToNext, Orderly, Spawned, SameOut, Asking
  <1>7. ASSUME NEW c \in Cmds, Files(c)
        PROVE  Orderly(c)'
    BY <1>1, <1>7 DEF Files, Orderly, Spawned, SameTask
  <1>8. ASSUME NEW c \in Cmds, Orders(c)
        PROVE  Orderly(c)'
    BY <1>1, <1>8 DEF Orders, Orderly, Spawned, SameTask, SameOut, Asking
  <1>9. ASSUME NEW c \in Cmds, Nets(c)
        PROVE  Orderly(c)'
    BY <1>1, <1>9 DEF Nets, Orderly, Spawned, SameTask, SameOut
  <1>10. ASSUME NEW c \in Cmds, CommandStep(c)
         PROVE  \A d \in Cmds : Orderly(d)'
    <2>1. Others(c)
      BY <1>10 DEF CommandStep, Opens, Turns, SpawnsAs, LetsGo, Files, Shoots, Orders, Nets, Judges,
                   GoesToNext
    <2>2. LetsGo(c) \/ Shoots(c) \/ Judges(c) => Orderly(c)'
      BY <1>1, <1>6 DEF LetsGo, Shoots, Judges, Orderly, Asking
    <2>3. Orderly(c)'
      BY <1>3, <1>4, <1>5, <1>7, <1>8, <1>9, <1>10, <2>2 DEF CommandStep
    <2> QED
      BY <1>2, <2>1, <2>3 DEF Others
  <1> QED
    BY <1>2, <1>10 DEF Move, DaemonStep, Announces, Obeys, Ends, GoesElsewhere, SameCommands

LEMMA KeepsFilesName ==
    ASSUME CliTypeOK, CliTypeOK', Spawning, Move
    PROVE  FilesName'
  <1> USE FileFacts
  <1>1. \A d \in Cmds : Identified(d) /\ Orderly(d)
    BY Identity DEF Spawning
  <1>2. ASSUME NEW STATE f, NEW STATE q, Names(f, q)
        PROVE  StillNames(f, q)
    BY <1>1, <1>2, NamesStay
  <1>3. /\ \A q \in Panes : pidFile[q] # NoFile => Names(pidFile[q], q)
        /\ \A c \in Cmds : cmd[c].seen # NoFile => Names(cmd[c].seen, cmd[c].pane)
    BY DEF Spawning, FilesName
  <1>4. ASSUME NEW q \in Panes, pidFile'[q] # NoFile
        PROVE  StillNames(pidFile'[q], q)
    <2>1. CASE pidFile'[q] = pidFile[q]
      BY <1>2, <1>3, <1>4, <2>1
    <2>2. CASE \E c \in Cmds : Files(c) /\ pidFile'[q] # pidFile[q]
      <3>1. PICK c \in Cmds : Files(c) /\ q = cmd[c].pane /\ pidFile'[q] = cmd[c].seen
        BY <2>2 DEF Files
      <3>2. Names(cmd[c].seen, q)
        BY <1>3, <1>4, <3>1
      <3> QED
        BY <1>2, <3>1, <3>2
    <2>3. CASE \E r : Unfiles(r)
      BY <1>4, <2>1, <2>3 DEF Unfiles
    <2>4. UNCHANGED pidFile \/ (\E c \in Cmds : Files(c)) \/ (\E r : Unfiles(r))
      BY DEF Move, CommandStep, DaemonStep, Opens, Turns, SpawnsAs, LetsGo, Shoots, Orders, Nets,
             Judges, Announces, Obeys, Ends, GoesElsewhere, SameCommands, SameWorld
    <2> QED
      BY <2>1, <2>2, <2>3, <2>4
  <1>5. ASSUME NEW c \in Cmds, cmd'[c].seen # NoFile
        PROVE  StillNames(cmd'[c].seen, cmd'[c].pane)
    <2>1. CASE cmd'[c].seen = cmd[c].seen /\ cmd'[c].pane = cmd[c].pane
      BY <1>2, <1>3, <1>5, <2>1
    <2>2. CASE Opens(c) /\ cmd'[c].pane \in Panes /\ cmd'[c].seen = pidFile[cmd'[c].pane]
      BY <1>2, <1>3, <1>5, <2>2
    <2>3. CASE \E p \in Pids : SpawnsAs(c, p)
      <3>1. Spawned(c)' /\ cmd'[c].seen.session = c /\ cmd'[c].seen \in File
        BY <2>3 DEF SpawnsAs, Spawned, File
      <3> QED
        BY <3>1 DEF StillNames, Spawned
    <2>4. \/ cmd'[c].seen = cmd[c].seen /\ cmd'[c].pane = cmd[c].pane
          \/ cmd'[c].seen = NoFile
          \/ Opens(c) /\ cmd'[c].pane \in Panes /\ cmd'[c].seen = pidFile[cmd'[c].pane]
          \/ \E p \in Pids : SpawnsAs(c, p)
      <3>1. ASSUME NEW d \in Cmds, CommandStep(d), d # c
            PROVE  cmd'[c] = cmd[c]
        BY <3>1 DEF CommandStep, Opens, Turns, SpawnsAs, LetsGo, Files, Shoots, Orders, Nets, Judges,
                    GoesToNext, Others
      <3>2. CASE CommandStep(c)
        BY <3>2 DEF CommandStep, Opens, Turns, LetsGo, Files, Shoots, Orders, Nets, Judges,
                    GoesToNext, SameTask
      <3>3. CASE UNCHANGED cmd
        BY <3>3
      <3> QED
        BY <3>1, <3>2, <3>3 DEF Move, DaemonStep, Announces, Obeys, Ends, GoesElsewhere, SameCommands
    <2> QED
      BY <1>5, <2>1, <2>2, <2>3, <2>4
  <1> QED
    BY <1>4, <1>5 DEF FilesName, StillNames, Names, Spawned

(***************************************************************************)
(* Daemons and pids.                                                       *)
(***************************************************************************)
\* Daemons come to life when they are spawned, and go one way from there.
OneWay(d) ==
    \/ daemon'[d] = daemon[d]
    \/ daemon[d] = "starting" /\ daemon'[d] = "serving" /\ d \in said' /\ Announces(d)
    \/ daemon[d] \in {"starting", "serving", "stopping"} /\ daemon'[d] \in {"stopping", "dead"}
    \/ \E p \in Pids : SpawnsAs(d, p)

LEMMA DaemonsAge ==
    ASSUME CliTypeOK, CliTypeOK', Spawning, Move
    PROVE  /\ \A d \in Cmds : OneWay(d)
           /\ said \subseteq said' /\ \A d \in said' \ said : Announces(d)
  <1> USE FileFacts DEF CliTypeOK, OneWay
  <1>1. ASSUME NEW c \in Cmds, NEW p \in Pids, SpawnsAs(c, p)
        PROVE  (\A d \in Cmds : OneWay(d)) /\ said' = said
    <2>1. said' = said /\ \A d \in Cmds \ {c} : daemon'[d] = daemon[d]
      BY <1>1 DEF SpawnsAs
    <2>2. OneWay(c)
      BY <1>1
    <2> QED
      BY <2>1, <2>2
  <1>2. ASSUME NEW d \in Cmds, daemon' = [daemon EXCEPT ![d] = "stopping"],
               daemon[d] \in {"starting", "serving", "stopping"}
        PROVE  \A e \in Cmds : OneWay(e)
    BY <1>2
  <1>3. ASSUME NEW c \in Cmds, cmd[c].seen \in File, who[cmd[c].seen.pid] \in Cmds
        PROVE  daemon[who[cmd[c].seen.pid]] \in {"starting", "serving", "stopping"}
    BY <1>3 DEF Spawning, PidIsOf
  <1>4. ASSUME NEW c \in Cmds, Shoots(c)
        PROVE  (\A d \in Cmds : OneWay(d)) /\ said' = said
    <2>1. who[cmd[c].seen.pid] \in Cmds /\ cmd[c].seen \in File
      BY <1>4 DEF Shoots, IsOurDaemon, Spawning, Orderly, Asking
    <2> QED
      BY <1>2, <1>3, <1>4, <2>1 DEF Shoots
  <1>5. ASSUME NEW c \in Cmds, Nets(c)
        PROVE  (\A d \in Cmds : OneWay(d)) /\ said' = said
    <2>1. cmd[c].seen \in File
      BY <1>5 DEF Nets, Spawning, Orderly
    <2> QED
      BY <1>2, <1>3, <1>5, <2>1 DEF Nets
  <1>6. ASSUME UNCHANGED <<daemon, said>>
        PROVE  (\A d \in Cmds : OneWay(d)) /\ said' = said
    BY <1>6
  <1>7. ASSUME NEW c \in Cmds, DaemonStep(c)
        PROVE  /\ \A d \in Cmds : OneWay(d)
               /\ said \subseteq said' /\ \A d \in said' \ said : Announces(d)
    <2>1. CASE Announces(c)
      BY <2>1 DEF Announces
    <2>2. CASE Obeys(c)
      BY <2>2 DEF Obeys
    <2>3. CASE Ends(c)
      BY <2>3 DEF Ends
    <2> QED
      BY <1>7, <2>1, <2>2, <2>3 DEF DaemonStep
  <1>8. ASSUME NEW c \in Cmds, CommandStep(c)
        PROVE  (\A d \in Cmds : OneWay(d)) /\ said' = said
    <2>1. CASE Opens(c) \/ Turns(c) \/ LetsGo(c) \/ Files(c) \/ Orders(c) \/ Judges(c)
      BY <2>1, <1>6 DEF Opens, Turns, LetsGo, Files, Orders, Judges, SameWorld, daemons
    <2> QED
      BY <1>1, <1>4, <1>5, <1>8, <2>1 DEF CommandStep
  <1> QED
    BY <1>6, <1>7, <1>8 DEF Move, GoesElsewhere

\* A process has its pid until it ends.
LEMMA KeepsPids ==
    ASSUME CliTypeOK, CliTypeOK', Spawning, Move
    PROVE  \A p \in Pids : PidIsOf(p)'
  <1> USE FileFacts
  <1>1. /\ \A d \in Cmds : Identified(d) /\ OneWay(d) /\ DaemonIsSpawned(d)
        /\ \A p \in Pids : PidIsOf(p)
    BY Identity, DaemonsAge DEF Spawning
  <1> SUFFICES ASSUME NEW p \in Pids, who'[p] \in Cmds
               PROVE  PidIsOf(p)'
    BY DEF PidIsOf
  <1>2. CASE \E c \in Cmds : SpawnsAs(c, p)
    <2>1. PICK c \in Cmds : SpawnsAs(c, p)
      BY <1>2
    <2>2. who'[p] = c /\ daemon'[c] = "starting" /\ cmd'[c].seen.pid = p /\ Spawned(c)'
      BY <2>1 DEF SpawnsAs, CliTypeOK, Spawned
    <2> QED
      BY <2>2 DEF PidIsOf
  <1>3. CASE who'[p] = who[p]
    <2>0. PICK d \in Cmds : who[p] = d
      BY <1>3
    <2>1. /\ Spawned(d) /\ cmd[d].seen.pid = p
          /\ daemon[d] \in {"starting", "serving", "stopping"}
      BY <1>1, <2>0 DEF PidIsOf
    <2>2. Spawned(d)' /\ cmd'[d].seen.pid = p
      BY <1>1, <2>1 DEF Identified
    <2>3. daemon'[d] # "dead"
      <3>1. ~Ends(d)
        BY <1>3, <2>0 DEF Ends
      <3>2. ASSUME NEW c \in Cmds, CommandStep(c)
            PROVE  daemon'[d] # "dead"
        BY <3>2, <2>1 DEF CommandStep, Opens, Turns, SpawnsAs, LetsGo, Files, Shoots, Orders, Nets,
                          Judges, SameWorld, daemons, CliTypeOK
      <3>3. ASSUME NEW c \in Cmds, DaemonStep(c)
            PROVE  daemon'[d] # "dead"
        BY <3>3, <3>1, <2>1 DEF DaemonStep, Announces, Obeys, Ends, CliTypeOK
      <3> QED
        BY <3>2, <3>3, <2>1 DEF Move, GoesElsewhere
    <2>4. daemon'[d] \in {"starting", "serving", "stopping"}
      <3>1. CASE \E r \in Pids : SpawnsAs(d, r)
        BY <3>1 DEF SpawnsAs, CliTypeOK
      <3> QED
        BY <1>1, <2>1, <2>3, <3>1 DEF OneWay
    <2> QED
      BY <1>3, <2>0, <2>2, <2>4 DEF PidIsOf
  <1>4. ASSUME NEW c \in Cmds, CommandStep(c)
        PROVE  who'[p] = who[p] \/ SpawnsAs(c, p)
    BY <1>4 DEF CommandStep, Opens, Turns, SpawnsAs, LetsGo, Files, Shoots, Orders, Nets, Judges,
                SameWorld, daemons, CliTypeOK
  <1>5. ASSUME NEW c \in Cmds, DaemonStep(c)
        PROVE  who'[p] = who[p]
    BY <1>5 DEF DaemonStep, Announces, Obeys, Ends
  <1>6. ASSUME NEW q \in Pids, GoesElsewhere(q)
        PROVE  who'[p] = who[p]
    BY <1>6 DEF GoesElsewhere, CliTypeOK
  <1> QED
    BY <1>2, <1>3, <1>4, <1>5, <1>6 DEF Move

LEMMA KeepsDaemons ==
    ASSUME CliTypeOK, CliTypeOK', Spawning, Move
    PROVE  \A d \in Cmds : DaemonIsSpawned(d)'
  <1> USE FileFacts
  <1> SUFFICES ASSUME NEW d \in Cmds
               PROVE  DaemonIsSpawned(d)'
    OBVIOUS
  <1>1. /\ Identified(d) /\ OneWay(d) /\ DaemonIsSpawned(d) /\ Orderly(d) /\ Orderly(d)'
        /\ said \subseteq said' /\ \A e \in said' \ said : Announces(e)
    BY Identity, DaemonsAge, KeepsOrderly DEF Spawning
  <1>2. CASE \E p \in Pids : SpawnsAs(d, p)
    <2>1. PICK p \in Pids : SpawnsAs(d, p)
      BY <1>2
    <2>2. /\ Spawned(d)' /\ daemon'[d] = "starting" /\ cmd'[d].seen.pid = p /\ who'[p] = d
          /\ cmd'[d].pc = "start" /\ d \notin said'
      <3>1. ~Spawned(d) /\ said' = said
        BY <1>1, <2>1 DEF SpawnsAs, Orderly
      <3> QED
        BY <1>1, <2>1, <3>1 DEF SpawnsAs, Spawned, CliTypeOK, DaemonIsSpawned
    <2> QED
      BY <2>2 DEF DaemonIsSpawned
  <1>3. CASE ~ \E p \in Pids : SpawnsAs(d, p)
    <2>1. Spawned(d)' <=> Spawned(d)
      BY <1>1, <1>3 DEF Identified
    <2>2. CASE ~Spawned(d)
      <3>1. daemon[d] = "none" /\ d \notin said /\ daemon'[d] = "none"
        BY <1>1, <1>3, <2>2 DEF DaemonIsSpawned, OneWay
      <3>2. d \notin said'
        BY <1>1, <3>1 DEF Announces
      <3> QED
        BY <2>1, <2>2, <3>1, <3>2 DEF DaemonIsSpawned
    <2>3. CASE Spawned(d)
      <3>1. daemon'[d] # "none" /\ Spawned(d)' /\ cmd'[d].seen = cmd[d].seen
        BY <1>1, <1>3, <2>3 DEF DaemonIsSpawned, OneWay, Identified
      <3>2. d \in said' => daemon'[d] \in {"serving", "stopping", "dead"}
        BY <1>1, <1>3 DEF DaemonIsSpawned, OneWay, Announces, CliTypeOK
      <3>3. who'[cmd'[d].seen.pid] = d \/ daemon'[d] = "dead"
        <4>1. CASE daemon[d] = "dead"
          BY <1>1, <1>3, <4>1 DEF OneWay
        <4>2. CASE who[cmd[d].seen.pid] = d
          <5> DEFINE p == cmd[d].seen.pid
          <5>1. p \in Pids
            BY <1>1, <2>3 DEF Orderly
          <5>2. ASSUME NEW c \in Cmds, CommandStep(c)
                PROVE  who'[p] = who[p]
            BY <5>1, <5>2, <4>2 DEF CommandStep, Opens, Turns, SpawnsAs, LetsGo, Files, Shoots, Orders,
                                    Nets, Judges, SameWorld, daemons, CliTypeOK
          <5>3. ASSUME NEW c \in Cmds, DaemonStep(c)
                PROVE  who'[p] = who[p] \/ daemon'[d] = "dead"
            BY <5>1, <5>3, <4>2 DEF DaemonStep, Announces, Obeys, Ends, CliTypeOK
          <5>4. ASSUME NEW q \in Pids, GoesElsewhere(q)
                PROVE  who'[p] = who[p]
            BY <5>1, <5>4, <4>2 DEF GoesElsewhere, CliTypeOK
          <5> QED
            BY <3>1, <4>2, <5>2, <5>3, <5>4 DEF Move
        <4> QED
          BY <1>1, <2>3, <4>1, <4>2 DEF DaemonIsSpawned
      <3>4. /\ cmd'[d].pc = "over" /\ cmd'[d].out = "on" => d \in said'
            /\ cmd'[d].pc = "over" /\ cmd'[d].out = "failed" => daemon'[d] = "dead"
        <4>1. CASE cmd'[d] = cmd[d]
          BY <1>1, <1>3, <2>3, <4>1 DEF DaemonIsSpawned, OneWay
        <4>2. ASSUME NEW c \in Cmds, CommandStep(c), c # d
              PROVE  cmd'[d] = cmd[d]
          BY <4>2 DEF CommandStep, Opens, Turns, SpawnsAs, LetsGo, Files, Shoots, Orders, Nets, Judges,
                      GoesToNext, Others
        <4>3. CASE CommandStep(d)
          <5>1. cmd[d].pc \in {"start", "over"} /\ cmd[d].kind = "on"
            BY <1>1, <2>3 DEF Orderly, Spawned
          <5>2. Turns(d) \/ Files(d)
            BY <1>3, <4>3, <5>1 DEF CommandStep, Opens, LetsGo, Shoots, Orders, Nets, Judges
          <5>3. \/ cmd'[d].out = "failed" /\ daemon'[d] = "dead"
                \/ cmd'[d].out = "gaveup" \/ cmd'[d].out = "killed"
                \/ cmd'[d].out = "on" /\ d \in said'
            BY <1>1, <5>1, <5>2 DEF Turns, Files, SameWorld
          <5> QED
            BY <5>3
        <4>4. CASE UNCHANGED cmd
          BY <4>1, <4>4
        <4> QED
          BY <4>1, <4>2, <4>3, <4>4 DEF Move, DaemonStep, Announces, Obeys, Ends, GoesElsewhere,
                                       SameCommands
      <3> QED
        BY <3>1, <3>2, <3>3, <3>4 DEF DaemonIsSpawned
    <2> QED
      BY <2>2, <2>3
  <1> QED
    BY <1>2, <1>3

LEMMA KeepsSpawning ==
    ASSUME CliTypeOK, CliTypeOK', Spawning, Move
    PROVE  Spawning'
  BY KeepsOrderly, KeepsDaemons, KeepsPids, KeepsFilesName DEF Spawning

(***************************************************************************)
(* What the history variables keep.                                        *)
(***************************************************************************)
LEMMA HistoryGrows ==
    ASSUME History, CliTypeOK
    PROVE  /\ crossed \subseteq crossed' /\ reused \subseteq reused'
           /\ misjudged \subseteq misjudged'
           /\ \A c \in Cmds : Crossing(c)' => c \in crossed'
           /\ crossed' \subseteq crossed \cup Cmds /\ reused' \subseteq reused \cup Pids
           /\ misjudged' \subseteq misjudged \cup Cmds
  <1>1. \A c \in Cmds : Misjudges(c) => cmd[c].seen.session \in Cmds
    BY FileFacts DEF Misjudges, IsOurDaemon, CliTypeOK, Cmd
  <1> QED
    BY <1>1 DEF History

LEMMA KeepsCrossed ==
    ASSUME History
    PROVE  CrossedIsKept'
  BY DEF History, CrossedIsKept

LEMMA KeepsReused ==
    ASSUME CliTypeOK, CliTypeOK', Spawning, OnePidTwice, Move, History
    PROVE  OnePidTwice'
  <1> USE FileFacts
  <1>1. (\A d \in Cmds : Identified(d)) /\ reused \subseteq reused'
    BY Identity, HistoryGrows
  <1>2. ASSUME NEW d \in Cmds, NEW e \in Cmds, NEW p \in Pids, SpawnsAs(e, p), d # e, Spawned(d),
               cmd[d].seen.pid = p
        PROVE  p \in reused'
    <2>1. who'[p] # who[p] /\ who'[p] # Nobody
      BY <1>2 DEF SpawnsAs, CliTypeOK
    <2> QED
      BY <1>2, <2>1 DEF History, Spawned
  <1>3. ASSUME NEW c \in Cmds, NEW p \in Pids, SpawnsAs(c, p), NEW d \in Cmds, d # c
        PROVE  ~ \E q \in Pids : SpawnsAs(d, q)
    BY <1>3 DEF SpawnsAs, CliTypeOK, Others, Spawning, Orderly
  <1>4. ASSUME NEW d \in Cmds, NEW e \in Cmds, d # e, Spawned(d)', Spawned(e)', Spawned(d),
               cmd'[d].seen.pid = cmd'[e].seen.pid
        PROVE  cmd'[d].seen.pid \in reused'
    <2>1. CASE Spawned(e)
      BY <1>1, <1>4, <2>1 DEF OnePidTwice, Identified
    <2>2. CASE ~Spawned(e)
      <3>1. PICK p \in Pids : SpawnsAs(e, p)
        BY <1>1, <1>4, <2>2 DEF Identified
      <3>2. cmd'[e].seen.pid = p /\ cmd'[d].seen = cmd[d].seen
        <4>1. cmd'[d].seen = cmd[d].seen
          BY <1>1, <1>4 DEF Identified
        <4>2. cmd'[e].seen = [pid |-> p, session |-> e]
          BY <3>1 DEF SpawnsAs
        <4> QED
          BY <4>1, <4>2
      <3> QED
        BY <1>2, <1>4, <3>1, <3>2
    <2> QED
      BY <2>1, <2>2
  <1>5. ASSUME NEW d \in Cmds, NEW e \in Cmds, d # e, Spawned(d)', Spawned(e)'
        PROVE  Spawned(d) \/ Spawned(e)
    BY <1>1, <1>3, <1>5 DEF Identified
  <1> QED
    BY <1>4, <1>5 DEF OnePidTwice

\* Whom a signal reaches is a daemon of the pane the command deals with, or one
\* that has a used pid.
LEMMA KeepsHits ==
    ASSUME CliTypeOK, CliTypeOK', Spawning, OnePidTwice, Hits, Move, History
    PROVE  Hits'
  <1> USE FileFacts
  <1>1. (\A d \in Cmds : Identified(d)) /\ reused \subseteq reused'
    BY Identity, HistoryGrows
  <1>2. ASSUME NEW h \in hit
        PROVE  \E d \in Cmds :
                /\ h[2] = d /\ Spawned(d)'
                /\ cmd'[d].pane = h[1] \/ cmd'[d].seen.pid \in reused'
    BY <1>1 DEF Hits, Identified
  <1>3. ASSUME NEW c \in Cmds, Signals(c)
        PROVE  \E d \in Cmds :
                /\ d = who[cmd[c].seen.pid] /\ Spawned(d)'
                /\ cmd'[d].pane = cmd[c].pane \/ cmd'[d].seen.pid \in reused'
    <2> DEFINE f == cmd[c].seen
    <2>1. f \in File /\ who[f.pid] \in Cmds
      BY <1>3 DEF Signals, StopsBySignal, LastNet, ToBeShot, Found, IsOurDaemon, Spawning, Orderly,
                  Asking
    <2>2. PICK d \in Cmds : who[f.pid] = d
      BY <2>1
    <2>3. Spawned(d) /\ cmd[d].seen.pid = f.pid
      BY <2>1, <2>2 DEF Spawning, PidIsOf
    <2>4. PICK e \in Cmds : Spawned(e) /\ cmd[e].seen = f /\ cmd[e].pane = cmd[c].pane
      BY <2>1 DEF Spawning, FilesName, Names
    <2>5. Spawned(d)' /\ cmd'[d].seen = cmd[d].seen /\ cmd'[d].pane = cmd[d].pane
      BY <1>1, <2>3 DEF Identified
    <2>6. CASE d = e
      BY <2>2, <2>4, <2>5, <2>6
    <2>7. CASE d # e
      BY <1>1, <2>2, <2>3, <2>4, <2>5, <2>7 DEF OnePidTwice
    <2> QED
      BY <2>6, <2>7
  <1>4. ASSUME NEW h \in hit'
        PROVE  h \in hit \/ \E c \in Cmds : Signals(c) /\ h = <<cmd[c].pane, who[cmd[c].seen.pid]>>
    BY <1>4 DEF History
  <1>5. ASSUME NEW h \in hit'
        PROVE  \E d \in Cmds :
                /\ h[2] = d /\ Spawned(d)'
                /\ cmd'[d].pane = h[1] \/ cmd'[d].seen.pid \in reused'
    <2>1. CASE h \in hit
      BY <1>2, <2>1
    <2>2. CASE \E c \in Cmds : Signals(c) /\ h = <<cmd[c].pane, who[cmd[c].seen.pid]>>
      <3>1. PICK c \in Cmds : Signals(c) /\ h = <<cmd[c].pane, who[cmd[c].seen.pid]>>
        BY <2>2
      <3>2. h[1] = cmd[c].pane /\ h[2] = who[cmd[c].seen.pid]
        BY <3>1
      <3> QED
        BY <1>3, <3>1, <3>2
    <2> QED
      BY <1>4, <1>5, <2>1, <2>2
  <1> QED
    BY <1>5 DEF Hits, Spawned

\* Who was reported as stopped is stopping, or was dead by then.
LEMMA KeepsDone ==
    ASSUME CliTypeOK, CliTypeOK', Spawning, DoneIsDone, Move, History
    PROVE  DoneIsDone'
  <1> USE FileFacts
  <1>1. \A d \in Cmds : OneWay(d) /\ DaemonIsSpawned(d) /\ Orderly(d)
    BY DaemonsAge DEF Spawning
  <1>2. ASSUME NEW d \in Cmds, daemon[d] \in {"stopping", "dead"}
        PROVE  daemon'[d] \in {"stopping", "dead"}
    <2>1. ~ \E p \in Pids : SpawnsAs(d, p)
      BY <1>1, <1>2 DEF SpawnsAs, DaemonIsSpawned, Orderly
    <2> QED
      BY <1>1, <1>2, <2>1 DEF OneWay
  <1>3. ASSUME NEW c \in Cmds, cmd[c].seen \in File
        PROVE  LET e == cmd[c].seen.session IN
               /\ e \in Cmds /\ Spawned(e) /\ cmd[e].seen = cmd[c].seen
               /\ who[cmd[c].seen.pid] = e \/ daemon[e] = "dead"
    BY <1>1, <1>3 DEF Spawning, FilesName, Names, DaemonIsSpawned
  <1>4. ASSUME NEW c \in Cmds, Shoots(c)
        PROVE  daemon'[cmd[c].seen.session] \in {"stopping", "dead"}
    <2>1. cmd[c].seen \in File /\ who[cmd[c].seen.pid] \in Cmds
      BY <1>1, <1>4 DEF Shoots, IsOurDaemon, Orderly, Asking
    <2>2. PICK e \in Cmds : e = cmd[c].seen.session
      BY <2>1
    <2>3. who[cmd[c].seen.pid] = e \/ daemon[e] = "dead"
      BY <1>3, <2>1, <2>2
    <2>4. who[cmd[c].seen.pid] = e => daemon'[e] = "stopping"
      BY <1>4 DEF Shoots, CliTypeOK
    <2> QED
      BY <1>2, <2>2, <2>3, <2>4
  <1>5. ASSUME NEW c \in Cmds, Judges(c), cmd'[c].done # cmd[c].done,
               cmd[c].seen.session \notin misjudged'
        PROVE  daemon'[cmd[c].seen.session] \in {"stopping", "dead"}
    <2>1. cmd[c].seen \in File /\ who[cmd[c].seen.pid] \notin Cmds /\ daemon' = daemon
      BY <1>1, <1>5, FileFacts DEF Judges, NamesNone, IsOurDaemon, Orderly, daemons
    <2> QED
      BY <1>3, <2>1
  <1>6. ASSUME NEW c \in Cmds, NEW d \in cmd'[c].done, d \notin cmd[c].done
        PROVE  d = cmd[c].seen.session /\ (Shoots(c) \/ (Judges(c) /\ cmd'[c].done # cmd[c].done))
    <2>1. ASSUME NEW b \in Cmds, CommandStep(b), b # c
          PROVE  cmd'[c] = cmd[c]
      BY <2>1 DEF CommandStep, Opens, Turns, SpawnsAs, LetsGo, Files, Shoots, Orders, Nets, Judges,
                  GoesToNext, Others
    <2>2. CASE CommandStep(c)
      <3>1. CASE Opens(c) \/ Turns(c) \/ (\E p \in Pids : SpawnsAs(c, p)) \/ LetsGo(c) \/ Files(c)
                 \/ Orders(c) \/ Nets(c)
        BY <1>6, <3>1 DEF Opens, Turns, SpawnsAs, LetsGo, Files, Orders, Nets, SameReport
      <3>2. CASE Shoots(c)
        BY <1>6, <3>2 DEF Shoots
      <3>3. CASE Judges(c)
        BY <1>6, <3>3 DEF Judges
      <3> QED
        BY <2>2, <3>1, <3>2, <3>3 DEF CommandStep
    <2>3. CASE UNCHANGED cmd
      BY <1>6, <2>3
    <2> QED
      BY <1>6, <2>1, <2>2, <2>3
         DEF Move, DaemonStep, Announces, Obeys, Ends, GoesElsewhere, SameCommands
  <1>7. ASSUME NEW c \in Cmds, NEW d \in cmd'[c].done \ misjudged'
        PROVE  daemon'[d] \in {"stopping", "dead"}
    <2>1. cmd[c].done \subseteq Cmds /\ d \notin misjudged
      BY HistoryGrows DEF CliTypeOK, Cmd
    <2>2. CASE d \in cmd[c].done
      BY <1>2, <2>1, <2>2 DEF DoneIsDone
    <2>3. CASE d \notin cmd[c].done
      BY <1>4, <1>5, <1>6, <2>3
    <2> QED
      BY <2>2, <2>3
  <1> QED
    BY <1>7 DEF DoneIsDone

(***************************************************************************)
(* A daemon that serves is the one its file names.                         *)
(***************************************************************************)
LEMMA CommandsMove ==
    ASSUME CliTypeOK, Move
    PROVE  \/ \E c \in Cmds : CommandStep(c) /\ Others(c)
           \/ UNCHANGED <<LA_WINDOWS, cmd, pidFile>> /\ stopFile' \subseteq stopFile
  <1>1. ASSUME NEW c \in Cmds, CommandStep(c)
        PROVE  Others(c)
    BY <1>1 DEF CommandStep, Opens, Turns, SpawnsAs, LetsGo, Files, Shoots, Orders, Nets, Judges,
                GoesToNext
  <1> QED
    BY <1>1 DEF Move, DaemonStep, Announces, Obeys, Ends, GoesElsewhere, SameCommands

\* A command that is over stays as it is.
LEMMA OverIsOver ==
    ASSUME CliTypeOK, Spawning, Move, NEW d \in Cmds, cmd[d].pc = "over"
    PROVE  cmd'[d] = cmd[d]
  <1>1. ~CommandStep(d)
    BY DEF CommandStep, Opens, Turns, SpawnsAs, LetsGo, Files, Shoots, Orders, Nets, Judges
  <1> QED
    BY <1>1, CommandsMove DEF Others

LEMMA LooseStays ==
    ASSUME CliTypeOK, Spawning, Move, History, NEW d \in Cmds, Loose(d)
    PROVE  Loose(d)'
  <1>1. CASE d \in crossed \cup misjudged
    BY <1>1, HistoryGrows DEF Stray, Loose
  <1>2. CASE cmd[d].out \in {"gaveup", "killed"}
    <2>1. cmd[d].pc = "over"
      BY <1>2, RemoteAssumption DEF Spawning, Orderly
    <2> QED
      BY <1>2, <2>1, OverIsOver DEF Stray, Loose
  <1> QED
    BY <1>1, <1>2 DEF Stray, Loose

\* A daemon that serves has its pid, and so is seen by all who look it up.
LEMMA ServingIsThere ==
    ASSUME CliTypeOK, Spawning, NEW d \in Cmds, daemon[d] = "serving"
    PROVE  Spawned(d) /\ who[cmd[d].seen.pid] = d /\ cmd[d].seen \in File
           /\ cmd[d].pc \in {"start", "over"} /\ cmd[d].kind = "on" /\ cmd[d].seen.session = d
           /\ cmd[d].pane \in Panes
  BY DEF Spawning, DaemonIsSpawned, Orderly, Spawned

LEMMA KeepsFiled ==
    ASSUME CliTypeOK, CliTypeOK', Spawning, CrossedIsKept, Stopping, Move, History,
           NEW d \in Cmds
    PROVE  IsFiled(d)'
  <1> USE FileFacts
  <1> SUFFICES ASSUME daemon'[d] = "serving", cmd'[d].pc = "over", ~Loose(d)'
               PROVE  /\ pidFile'[cmd'[d].pane] = cmd'[d].seen
                      /\ \A c \in Cmds \ {d} :
                          /\ cmd'[c].pane = cmd'[d].pane
                          /\ cmd'[c].pc \in {"judge", "start", "waiting", "final", "dying"}
                          => cmd'[c].pc # "start" /\ cmd'[c].seen = cmd'[d].seen
    BY DEF IsFiled
  <1>1. Identified(d) /\ OneWay(d) /\ DaemonIsSpawned(d) /\ Orderly(d) /\ Orderly(d)'
        /\ ~Loose(d) /\ IsFiled(d) /\ DaemonIsSpawned(d)'
    BY Identity, DaemonsAge, KeepsOrderly, KeepsDaemons, LooseStays DEF Spawning, Stopping
  <1>2. Spawned(d) /\ cmd'[d].seen = cmd[d].seen /\ cmd'[d].pane = cmd[d].pane
    <2>1. Spawned(d)'
      BY <1>1 DEF DaemonIsSpawned
    <2>2. ~ \E p \in Pids : SpawnsAs(d, p)
      BY DEF SpawnsAs
    <2> QED
      BY <1>1, <2>1, <2>2 DEF Identified
  <1>3. CASE cmd[d].pc = "over"
    <2>1. cmd'[d] = cmd[d] /\ cmd[d].out = "on"
      BY <1>1, <1>2, <1>3, OverIsOver DEF Orderly, Stray, Loose, DaemonIsSpawned
    <2>2. daemon[d] = "serving"
      <3>1. d \in said /\ daemon[d] # "starting"
        BY <1>1, <1>2, <1>3, <2>1 DEF DaemonIsSpawned
      <3> QED
        BY <1>1, <3>1 DEF OneWay, SpawnsAs
    <2> DEFINE q == cmd[d].pane
    <2> DEFINE f == cmd[d].seen
    <2>3. /\ pidFile[q] = f /\ who[f.pid] = d /\ f \in File /\ q \in Panes /\ d \in Cmds
          /\ f.session = d /\ d \notin misjudged'
          /\ \A c \in Cmds \ {d} :
              /\ cmd[c].pane = q
              /\ cmd[c].pc \in {"judge", "start", "waiting", "final", "dying"}
              => cmd[c].pc # "start" /\ cmd[c].seen = f
      BY <1>1, <1>3, <2>2, ServingIsThere DEF IsFiled, Loose
    <2>4. CASE UNCHANGED <<cmd, pidFile>>
      BY <2>1, <2>3, <2>4
    <2>5. ASSUME NEW c \in Cmds, CommandStep(c), Others(c)
          PROVE  /\ pidFile'[q] = f
                 /\ \A e \in Cmds \ {d} :
                     /\ cmd'[e].pane = q
                     /\ cmd'[e].pc \in {"judge", "start", "waiting", "final", "dying"}
                     => cmd'[e].pc # "start" /\ cmd'[e].seen = f
      <3>1. c # d
        BY <1>3, <2>5 DEF CommandStep, Opens, Turns, SpawnsAs, LetsGo, Files, Shoots, Orders, Nets,
                          Judges
      <3> DEFINE Here == cmd'[c].pane = q
                         /\ cmd'[c].pc \in {"judge", "start", "waiting", "final", "dying"}
      <3>2. SUFFICES pidFile'[q] = f /\ (Here => cmd'[c].pc # "start" /\ cmd'[c].seen = f)
        BY <2>3, <2>5 DEF Others
      <3>3. CASE Opens(c)
        BY <2>3, <3>3 DEF Opens, SameWorld
      <3>4. CASE Turns(c)
        BY <2>3, <3>1, <3>4 DEF Turns, SameWorld, SameTask
      <3>5. ASSUME NEW p \in Pids, SpawnsAs(c, p)
            PROVE  pidFile'[q] = f /\ ~Here
        <4>1. cmd[c].pane # q
          BY <2>3, <3>1, <3>5 DEF SpawnsAs, NamesNone, IsOurDaemon
        <4> QED
          BY <2>3, <3>5, <4>1 DEF SpawnsAs, Unfiles
      <3>6. CASE LetsGo(c)
        <4>1. NamesNone(c) => cmd[c].pane # q
          BY <2>3, <3>1, <3>6 DEF LetsGo, NamesNone, IsOurDaemon
        <4> QED
          BY <2>3, <3>6, <4>1 DEF LetsGo, GoesToNext, Unfiles
      <3>7. CASE Files(c)
        BY <2>3, <3>1, <3>7 DEF Files
      <3>8. CASE Shoots(c)
        <4>1. cmd[c].pane # q
          BY <2>3, <3>1, <3>8 DEF Shoots, CliTypeOK
        <4> QED
          BY <2>3, <3>8, <4>1 DEF Shoots, GoesToNext, Unfiles
      <3>9. CASE Orders(c)
        BY <2>3, <3>1, <3>9 DEF Orders, SameTask
      <3>10. CASE Nets(c)
        BY <2>3, <3>1, <3>10 DEF Nets, SameTask
      <3>11. CASE Judges(c)
        <4>1. NamesNone(c) => cmd[c].pane # q
          BY <2>3, <3>1, <3>11 DEF Judges, NamesNone, IsOurDaemon
        <4> QED
          BY <2>3, <3>11, <4>1 DEF Judges, GoesToNext, Unfiles
      <3> QED
        BY <2>5, <3>3, <3>4, <3>5, <3>6, <3>7, <3>8, <3>9, <3>10, <3>11 DEF CommandStep
    <2> HIDE DEF q, f
    <2>6. cmd'[d].pane = q /\ cmd'[d].seen = f
      BY <2>1 DEF q, f
    <2> QED
      BY <2>4, <2>5, <2>6, CommandsMove
  <1>4. CASE cmd[d].pc # "over"
    <2>1. cmd[d].pc = "start" /\ cmd[d].kind = "on"
      BY <1>1, <1>2, <1>4 DEF Orderly, Spawned
    <2>2. CommandStep(d) /\ Others(d)
      BY <1>4, CommandsMove DEF Others
    <2>3. Files(d)
      <3>1. Turns(d) \/ Files(d)
        BY <2>1, <2>2 DEF CommandStep, Opens, SpawnsAs, LetsGo, Shoots, Orders, Nets, Judges
      <3>2. Turns(d) => daemon'[d] = "dead" \/ Loose(d)'
        BY <2>1 DEF Turns, SameWorld, Stray, Loose
      <3> QED
        BY <3>1, <3>2
    <2>4. pidFile'[cmd'[d].pane] = cmd'[d].seen
      BY <1>1, <1>2, <2>1, <2>3 DEF Files, Orderly
    <2>5. ASSUME NEW c \in Cmds \ {d}
          PROVE  cmd'[c].pc \in {"none", "over"} \/ cmd'[c].pane # cmd'[d].pane
      <3>1. cmd'[c] = cmd[c]
        BY <2>2 DEF Others
      <3>2. d \notin crossed
        BY <1>1 DEF Stray, Loose
      <3>3. ~Crossing(d)
        BY <3>2 DEF CrossedIsKept
      <3> QED
        BY <1>2, <2>1, <3>1, <3>3 DEF Crossing, BusyWith
    <2> QED
      BY <2>4, <2>5
  <1> QED
    BY <1>3, <1>4

LEMMA KeepsOrders ==
    ASSUME CliTypeOK, CliTypeOK', Spawning, CrossedIsKept, Stopping, Move, History,
           NEW d \in Cmds
    PROVE  OrderIsFor(d)'
  <1> USE FileFacts
  <1> SUFFICES ASSUME LA_WINDOWS', daemon'[d] = "serving", ~Loose(d)', cmd'[d].pane \in stopFile'
               PROVE  \E c \in Cmds : d \in cmd'[c].aimed
    BY DEF OrderIsFor
  <1>1. Identified(d) /\ OneWay(d) /\ ~Loose(d) /\ IsFiled(d) /\ OrderIsFor(d) /\ LA_WINDOWS
    <2>1. LA_WINDOWS
      BY DEF Move, CommandStep, DaemonStep, Opens, Turns, SpawnsAs, LetsGo, Files, Shoots, Orders,
             Nets, Judges, Announces, Obeys, Ends, GoesElsewhere, SameCommands, SameWorld
    <2> QED
      BY <2>1, Identity, DaemonsAge, LooseStays DEF Stopping
  <1>2. daemon[d] = "serving"
    <2>1. ~Announces(d)
      BY DEF Announces, SameCommands
    <2> QED
      BY <1>1, <2>1 DEF OneWay, SpawnsAs, CliTypeOK
  <1>3. /\ Spawned(d) /\ cmd'[d].pane = cmd[d].pane
        /\ cmd[d].pc \in {"start", "over"} /\ cmd[d].kind = "on" /\ cmd[d].seen.session = d
    BY <1>1, <1>2, ServingIsThere DEF Identified
  <1>4. ASSUME NEW c \in Cmds
        PROVE  cmd[c].aimed \subseteq cmd'[c].aimed
    <2>1. cmd[c].pc = "none" => cmd[c].aimed = {}
      BY DEF Spawning, Orderly, Idle
    <2>2. CASE CommandStep(c)
      BY <2>1, <2>2 DEF CommandStep, Opens, Turns, SpawnsAs, LetsGo, Files, Shoots, Orders, Nets,
                        Judges, SameReport
    <2>3. CASE ~CommandStep(c)
      BY <2>3, CommandsMove DEF Others
    <2> QED
      BY <2>2, <2>3
  <1>5. CASE cmd[d].pane \in stopFile
    BY <1>1, <1>2, <1>4, <1>5 DEF OrderIsFor
  <1>6. CASE cmd[d].pane \notin stopFile
    <2>1. PICK c \in Cmds : Orders(c) /\ cmd[c].pane = cmd[d].pane
      <3>1. ASSUME NEW c \in Cmds, CommandStep(c)
            PROVE  Orders(c) \/ stopFile' \subseteq stopFile
        BY <3>1 DEF CommandStep, Opens, Turns, SpawnsAs, LetsGo, Files, Shoots, Nets, Judges, SameWorld
      <3>2. PICK c \in Cmds : Orders(c)
        BY <1>3, <1>6, <3>1 DEF Move, DaemonStep, Announces, Obeys, Ends, GoesElsewhere
      <3> QED
        BY <1>3, <1>6, <3>2 DEF Orders
    <2>2. c # d /\ cmd[c].pc = "judge"
      BY <1>3, <2>1 DEF Orders
    <2>3. cmd[d].pc # "start"
      BY <1>1, <1>3, <2>1, <2>2 DEF CrossedIsKept, Crossing, BusyWith, Stray, Loose
    <2>4. cmd[c].seen = cmd[d].seen
      BY <1>1, <1>2, <1>3, <2>1, <2>2, <2>3 DEF IsFiled
    <2> QED
      BY <1>3, <2>1, <2>4 DEF Orders
  <1> QED
    BY <1>5, <1>6

LEMMA Inductive == RmInv /\ [Next]_vars => RmInv'
  <1> SUFFICES ASSUME RmInv, [Next]_vars
               PROVE  RmInv'
    OBVIOUS
  <1>1. CASE Next
    <2>1. CliTypeOK /\ Spawning /\ CrossedIsKept /\ OnePidTwice /\ Hits /\ DoneIsDone /\ Stopping
          /\ History /\ crossed \cup misjudged \subseteq Cmds /\ reused \subseteq Pids
      BY <1>1 DEF RmInv, RemoteTypeOK, Next
    <2>2. CliTypeOK' /\ Move
      BY <1>1, <2>1, Steps DEF Next, Spawning
    <2>3. Stopping'
      BY <2>1, <2>2, KeepsFiled, KeepsOrders DEF Stopping
    <2>4. RemoteTypeOK'
      BY <2>1, <2>2, HistoryGrows DEF RemoteTypeOK
    <2> QED
      BY <2>1, <2>2, <2>3, <2>4, KeepsSpawning, KeepsCrossed, KeepsReused, KeepsHits, KeepsDone
         DEF RmInv
  <1>2. CASE UNCHANGED vars
    <2>1. UNCHANGED <<LA_WINDOWS, who, daemon, said, pidFile, stopFile, cmd, faults, crossed,
                      misjudged, reused, hit>>
      BY <1>2 DEF vars, cliVars, daemons, files
    <2>2. RemoteTypeOK'
      BY <2>1 DEF RmInv, RemoteTypeOK, CliTypeOK
    <2>3. Spawning'
      BY <2>1 DEF RmInv, Spawning, Orderly, DaemonIsSpawned, PidIsOf, FilesName, Names, Spawned
    <2>4. CrossedIsKept' /\ OnePidTwice' /\ Hits' /\ DoneIsDone'
      BY <2>1 DEF RmInv, CrossedIsKept, Crossing, BusyWith, OnePidTwice, Hits, DoneIsDone, Spawned
    <2>5. Stopping'
      BY <2>1 DEF RmInv, Stopping, IsFiled, OrderIsFor, Stray, Loose
    <2> QED
      BY <2>2, <2>3, <2>4, <2>5 DEF RmInv
  <1> QED
    BY <1>1, <1>2

LEMMA Invariance == Spec => []RmInv
  BY InitHolds, Inductive, PTL DEF Spec

(***************************************************************************)
(* The theorems.                                                           *)
(***************************************************************************)
\* Whatever dies, hangs or is interrupted, and however the commands that stop
\* and look overlap, `off` finds a daemon that serves and what it reports as
\* stopped is, as long as no probe misjudged that daemon (daemonInfo, dungDaemon).
THEOREM ServingIsFound == Spec => []OffFindsAndStops
  <1>1. ASSUME RmInv
        PROVE  OffFindsAndStops
    <2> USE <1>1 DEF RmInv, RemoteTypeOK
    <2>1. ASSUME NEW d \in Cmds \ misjudged, daemon[d] = "serving"
          PROVE  \/ FileOf(cmd[d].pane) = cmd[d].seen
                 \/ cmd[d].pc = "start" \/ Stray(d)
      BY <2>1, ServingIsThere DEF Stopping, IsFiled, Loose, FileOf, PidFilePath
    <2> QED
      BY <2>1 DEF OffFindsAndStops, DoneIsDone
  <1> QED
    BY <1>1, Invariance, PTL

\* Only daemons are signalled, and no other pane's unless its pid had a second
\* process (isOurDaemon, which knows the script and not the pane).
THEOREM OnlyOursAreHit == Spec => []NobodyElseIsHit
  <1>1. RmInv => NobodyElseIsHit
    BY DEF RmInv, Hits, NobodyElseIsHit
  <1> QED
    BY <1>1, Invariance, PTL

\* The stop file a daemon obeys on Windows was written for its own end, unless an
\* `on` misjudged it and put a second daemon on the pane (dungDaemon,
\* win-stop-file.js).
THEOREM OrdersAreOwn == Spec => OrderIsItsOwn
  <1>1. RmInv /\ [Next]_vars =>
          [\A d \in Cmds : SeesStopFile(d) => \/ \E c \in Cmds : d \in cmd[c].aimed
                                              \/ Stray(d) \/ d \in misjudged]_vars
    BY DEF RmInv, Stopping, OrderIsFor, Loose, SeesStopFile
  <1> QED
    BY <1>1, Invariance, PTL DEF Spec, OrderIsItsOwn
=============================================================================
