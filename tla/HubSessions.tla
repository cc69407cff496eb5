---------------------------- MODULE HubSessions ----------------------------
(***************************************************************************)
(* server/src/terminal-sessions.js and the routes of server/src/index.js   *)
(* that call it: which sessions the hub lists, when each was last heard of *)
(* and whether somebody has it on screen.  Everything is in memory.        *)
(*                                                                         *)
(* Time is kept as ages.  An age that passed Evict makes no difference any *)
(* more, so it stops there.                                                *)
(***************************************************************************)
EXTENDS Naturals

CONSTANTS Session,  \* ids, one per /remote on
          Dead,     \* HEARTBEAT_DEAD_MS in ticks
          Evict     \* SESSION_EVICT_MS in ticks

ASSUME AgesAssumption == Dead \in Nat /\ Evict \in Nat /\ Dead < Evict

VARIABLE sessions   \* id -> what the hub knows, for the sessions in its map

Entry == [age : 0..(Evict + 1), viewing : BOOLEAN, notified : BOOLEAN]

HSInit == sessions = [s \in {} |-> s]

(* prune(): run by register(), isViewing() and list(), never by a timer.   *)
KeepAll == sessions

Pruned == [s \in {t \in DOMAIN sessions : sessions[t].age <= Evict} |-> sessions[s]]

(* The mark of the last notification is carried over a heartbeat.          *)
MarkForgotten(s) == FALSE

MarkOf(s) == s \in DOMAIN Pruned /\ Pruned[s].notified

Register(s, viewing) ==
  sessions' = [t \in DOMAIN Pruned \cup {s} |->
                 IF t = s THEN [age |-> 0, viewing |-> viewing, notified |-> MarkOf(s)]
                 ELSE Pruned[t]]

Unregister(s) == sessions' = [t \in DOMAIN sessions \ {s} |-> sessions[t]]

(* noteArrived() marks a session the hub knows, and makes none up.         *)
Marked(s) ==
  IF s \in DOMAIN sessions THEN [sessions EXCEPT ![s].notified = TRUE] ELSE sessions

IsViewingToTheEnd(s, known) == s \in DOMAIN known /\ known[s].viewing

IsViewing(s, known) == s \in DOMAIN known /\ known[s].age <= Dead /\ known[s].viewing

(* POST /notify for a session: mark it, then ask isViewing(), which prunes; *)
(* the push goes out unless somebody is looking.                           *)
HoldsBack(s) == IsViewing(s, sessions)

Notify(s) ==
  LET marked == Marked(s)
  IN sessions' = [t \in {u \in DOMAIN marked : marked[u].age <= Evict} |-> marked[t]]

(* GET /api/terminal.                                                      *)
List == sessions' = Pruned

Ages == sessions' = [s \in DOMAIN sessions |->
                       [sessions[s] EXCEPT !.age = IF @ > Evict THEN @ ELSE @ + 1]]

HubRestarts == sessions' = [s \in {} |-> s]

HubTypeOK == DOMAIN sessions \subseteq Session /\ \A s \in DOMAIN sessions : sessions[s] \in Entry
===========================================================================
