------------------------------ MODULE Presence ------------------------------
(***************************************************************************)
(* One daemon, the hub and the hook of one machine: who is told what, and  *)
(* when.  The daemon's requests travel on connections of their own, so the *)
(* hub may handle them in another order than they were sent, or never.     *)
(***************************************************************************)
EXTENDS HubSessions, DaemonLife

CONSTANT Mine   \* the daemon's session

ASSUME MineAssumption == Mine \in Session

VARIABLES
  notices,       \* notifications the hook has posted for Mine, under way
  sinceWatched   \* history: ticks since somebody had the terminal on screen

prVars == <<sessions, life, awake, viewers, lastWatching, sinceBeat, registered, outbox,
            notices, sinceWatched>>

Watched == life = "running" /\ SomeoneIsWatching(viewers)

(* Past this, sinceWatched makes no difference any more.                   *)
LongAgo == Dead + MaxDelay + 1

SinceWatched == sinceWatched' = IF Watched' THEN 0 ELSE sinceWatched

PrInit == HSInit /\ DLInit /\ notices = 0 /\ sinceWatched = LongAgo

DaemonSteps ==
  /\ \/ \E k \in Socket : Connect(k)
     \/ \E k \in Socket, visible \in BOOLEAN : ReportVisibility(k, visible)
     \/ \E k \in Socket : SocketCloses(k)
     \/ TimerBeats
     \/ Shutdown
     \/ Exit
     \/ Killed
     \/ MachineSleepsOrWakes
  /\ SinceWatched
  /\ UNCHANGED <<sessions, notices>>

(* The hub handles one of the requests under way.                          *)
HubHandles(r) ==
  /\ outbox' = outbox \ {r}
  /\ \/ r.kind = "register" /\ Register(Mine, r.viewing)
     \/ r.kind = "unregister" /\ Unregister(Mine)
  /\ UNCHANGED <<life, awake, viewers, lastWatching, sinceBeat, registered, notices, sinceWatched>>

(* tellHub() swallows every failure.                                       *)
RequestLost(r) ==
  /\ outbox' = outbox \ {r}
  /\ UNCHANGED <<sessions, life, awake, viewers, lastWatching, sinceBeat, registered, notices,
                 sinceWatched>>

(* The hook of a Claude Code session posts a notification, with the        *)
(* session's id if it finds one.                                           *)
HookNotifies ==
  /\ notices = 0
  /\ HookReads
  /\ notices' = IF HookFinds THEN 1 ELSE 0
  /\ UNCHANGED <<sessions, sinceWatched>>

HubNotified ==
  /\ notices = 1
  /\ notices' = 0
  /\ Notify(Mine)
  /\ UNCHANGED <<dlVars, sinceWatched>>

HubListed ==
  /\ List
  /\ UNCHANGED <<dlVars, notices, sinceWatched>>

HubStartsAgain ==
  /\ HubRestarts
  /\ UNCHANGED <<dlVars, notices, sinceWatched>>

Tick ==
  /\ DaemonTick
  /\ Ages
  /\ sinceWatched' = IF Watched THEN 0 ELSE IF sinceWatched < LongAgo THEN sinceWatched + 1
                     ELSE sinceWatched
  /\ UNCHANGED notices

PrNext ==
  \/ DaemonSteps
  \/ \E r \in outbox : HubHandles(r)
  \/ \E r \in outbox : RequestLost(r)
  \/ HookNotifies
  \/ HubNotified
  \/ HubListed
  \/ HubStartsAgain
  \/ Tick

PrSpec == PrInit /\ [][PrNext]_prVars

(* Time passes, the timer fires, somebody looks at the list now and then,  *)
(* and of the registrations sent again and again one gets through.         *)
HubHandlesRegister == \E r \in outbox : r.kind = "register" /\ HubHandles(r)

PrFair ==
  /\ WF_prVars(Tick) /\ WF_prVars(HubListed)
  /\ WF_prVars(TimerBeats /\ SinceWatched /\ UNCHANGED <<sessions, notices>>)
  /\ WF_prVars(\E r \in outbox : HubHandles(r) \/ RequestLost(r))
  /\ SF_prVars(HubHandlesRegister)
FairPrSpec == PrSpec /\ PrFair
---------------------------------------------------------------------------
TypeOK ==
  /\ HubTypeOK /\ DaemonTypeOK
  /\ notices \in 0..1
  /\ sinceWatched \in 0..LongAgo

Listed == Mine \in DOMAIN sessions

(* A heartbeat after shutdown() would put back what shutdown() has just    *)
(* cleared (ccrc-term.js:863-872), and close events of the sockets do come *)
(* after it: the registry file of a session that was shut down is gone.    *)
RegistryStaysClean == life \in {"stopping", "exited"} => ~registered

(* A push is held back only for a terminal somebody really had on screen   *)
(* within HEARTBEAT_DEAD_MS and the time a heartbeat travels, however the  *)
(* heartbeats were lost or reordered and however the daemon ended.         *)
SilenceIsBounded == HoldsBack(Mine) => sinceWatched <= Dead + MaxDelay

(* The unread mark outlives every heartbeat (terminal-sessions.js:116):    *)
(* only eviction, unregister or a restart of the hub clears it.            *)
UnreadSurvivesBeats ==
  [][\A s \in DOMAIN sessions \cap DOMAIN sessions' :
       sessions[s].notified /\ sessions[s].age <= Evict => sessions'[s].notified]_prVars

(* "Eviction is SELF-HEALING for any daemon that is actually alive"        *)
(* (terminal-sessions.js:25): it comes back, even after the hub restarted; *)
(* and a session whose daemon is gone leaves the list, whatever was under  *)
(* way.                                                                    *)
ListFollowsLife ==
  /\ (life = "running" /\ awake) ~> (Listed \/ ~(life = "running" /\ awake))
  /\ life \in {"exited", "killed"} ~> ~Listed
===========================================================================
