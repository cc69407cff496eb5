----------------------------- MODULE DaemonLife -----------------------------
(***************************************************************************)
(* term/bin/ccrc-term.js: the life of one daemon as others see it - who    *)
(* has its page on screen, the heartbeat to the hub, the entry in the      *)
(* local session registry (shared/session-registry.js), and shutdown().    *)
(*                                                                         *)
(* Every action takes the requests it hands to fetch() from Post.          *)
(***************************************************************************)
EXTENDS Naturals, FiniteSets

CONSTANTS Socket,    \* WebSockets of browsers
          Period     \* HEARTBEAT_MS in ticks

VARIABLES
  life,          \* "running", "stopping" (shutdown() ran), "exited" or "killed"
  awake,         \* the machine is not asleep
  viewers,       \* viewers[k]: "none" (not in the map), "hidden" or "visible"
  lastWatching,  \* what was last told to the hub, or should have been
  sinceBeat,     \* ticks since the 20-second timer fired
  registered,    \* the session's file is in the registry
  outbox         \* requests under way: kind, what they say, how old they are

dlVars == <<life, awake, viewers, lastWatching, sinceBeat, registered, outbox>>

CONSTANTS MaxOut,    \* bound: requests under way at a time
          MaxDelay   \* bound: ticks a request is under way

ASSUME TicksAssumption == Period \in Nat /\ MaxDelay \in Nat

Request == [kind : {"register", "unregister"}, viewing : BOOLEAN, age : 0..MaxDelay]

SomeoneIsWatching(v) == \E k \in Socket : v[k] = "visible"

Room == Cardinality(outbox) < MaxOut

Alive == life \in {"running", "stopping"} /\ awake

Put(kind, viewing) == outbox' = outbox \cup {[kind |-> kind, viewing |-> viewing, age |-> 0]}

(* beat(): nothing at all once shutdown() has begun, because a beat writes *)
(* the registry file and registers the session again.                      *)
BeatRegardless(v) ==
  Put("register", SomeoneIsWatching(v)) /\ registered' = TRUE

BeatOnlyOnce(v) ==
  IF life = "stopping" \/ registered THEN UNCHANGED <<registered, outbox>>
  ELSE Put("register", SomeoneIsWatching(v)) /\ registered' = TRUE

Beat(v) ==
  IF life = "stopping" THEN UNCHANGED <<registered, outbox>>
  ELSE Put("register", SomeoneIsWatching(v)) /\ registered' = TRUE

(* watchingChanged(): a beat of its own for every change, none otherwise.  *)
WatchingChanged(v) ==
  IF SomeoneIsWatching(v) = lastWatching
  THEN UNCHANGED <<lastWatching, registered, outbox>>
  ELSE lastWatching' = SomeoneIsWatching(v) /\ Beat(v)
---------------------------------------------------------------------------
(* The listen callback: the first beat.                                    *)
DLInit ==
  /\ life = "running"
  /\ awake = TRUE
  /\ viewers = [k \in Socket |-> "none"]
  /\ lastWatching = FALSE
  /\ sinceBeat = 0
  /\ registered = TRUE
  /\ outbox = {[kind |-> "register", viewing |-> FALSE, age |-> 0]}

(* A connection opens, which counts as looking; or its page reports that   *)
(* it went to the background or came back.                                 *)
Connect(k) ==
  /\ Alive /\ Room /\ viewers[k] = "none"
  /\ viewers' = [viewers EXCEPT ![k] = "visible"]
  /\ WatchingChanged(viewers')
  /\ UNCHANGED <<life, awake, sinceBeat>>

ReportVisibility(k, visible) ==
  /\ Alive /\ Room /\ viewers[k] # "none"
  /\ viewers' = [viewers EXCEPT ![k] = IF visible THEN "visible" ELSE "hidden"]
  /\ WatchingChanged(viewers')
  /\ UNCHANGED <<life, awake, sinceBeat>>

(* The close event of a socket, whoever closed it.                         *)
WithoutSocket(k) == [viewers EXCEPT ![k] = "none"]

SocketCloses(k) ==
  /\ Alive /\ Room /\ viewers[k] # "none"
  /\ viewers' = WithoutSocket(k)
  /\ WatchingChanged(viewers')
  /\ UNCHANGED <<life, awake, sinceBeat>>

TimerBeats ==
  /\ Alive /\ Room /\ sinceBeat = Period
  /\ Beat(viewers)
  /\ sinceBeat' = 0
  /\ UNCHANGED <<life, awake, viewers, lastWatching>>

(* shutdown(): the registry file goes and unregister is sent in one turn.  *)
(* The sockets are only asked to close; their events come later.           *)
Shutdown ==
  /\ life = "running" /\ awake /\ Room
  /\ life' = "stopping"
  /\ registered' = FALSE
  /\ Put("unregister", FALSE)
  /\ UNCHANGED <<awake, viewers, lastWatching, sinceBeat>>

(* unregister was answered, or its five seconds are over.                  *)
Exit ==
  /\ life = "stopping" /\ awake
  /\ life' = "exited"
  /\ UNCHANGED <<awake, viewers, lastWatching, sinceBeat, registered, outbox>>

Killed ==
  /\ life \in {"running", "stopping"}
  /\ life' = "killed"
  /\ UNCHANGED <<awake, viewers, lastWatching, sinceBeat, registered, outbox>>

MachineSleepsOrWakes ==
  /\ life = "running"
  /\ awake' = ~awake
  /\ UNCHANGED <<life, viewers, lastWatching, sinceBeat, registered, outbox>>

(* listSessions(), read by the hook on every notification: the session is  *)
(* found only while its process lives, and a stale file is swept.          *)
HookFinds == registered /\ life \in {"running", "stopping"}

HookReads ==
  /\ registered' = HookFinds
  /\ UNCHANGED <<life, awake, viewers, lastWatching, sinceBeat, outbox>>
---------------------------------------------------------------------------
(* Time passes.  The timer of a machine that is awake is not late, and no  *)
(* request is under way for more than MaxDelay.                            *)
DaemonTick ==
  /\ Alive => sinceBeat < Period
  /\ \A r \in outbox : r.age < MaxDelay
  /\ sinceBeat' = IF sinceBeat < Period THEN sinceBeat + 1 ELSE sinceBeat
  /\ outbox' = {[r EXCEPT !.age = @ + 1] : r \in outbox}
  /\ UNCHANGED <<life, awake, viewers, lastWatching, registered>>

DaemonTypeOK ==
  /\ life \in {"running", "stopping", "exited", "killed"}
  /\ awake \in BOOLEAN
  /\ viewers \in [Socket -> {"none", "hidden", "visible"}]
  /\ lastWatching \in BOOLEAN
  /\ sinceBeat \in 0..Period
  /\ registered \in BOOLEAN
  /\ outbox \in SUBSET Request
===========================================================================
