------------------------------ MODULE PushSubs ------------------------------
(***************************************************************************)
(* server/src/index.js: one user's Web Push subscriptions, and the         *)
(* notifications sent to them.                                             *)
(*                                                                         *)
(* pushSubs[user] is an array.  subscribe() pushes into it, everything     *)
(* else replaces it by a new one, and notifyUser() holds on to the array   *)
(* it found before it awaited the push service.  A notification therefore  *)
(* either still shares the current array or keeps an old one, frozen when  *)
(* it was replaced.  Users do not share anything, so one is modelled; a    *)
(* device is its endpoint.                                                 *)
(***************************************************************************)
EXTENDS FiniteSets

CONSTANTS Device, Notification

VARIABLES
  subs,    \* the current array
  gone,    \* endpoints the push service will answer 404 or 410 for
  state,   \* state[n]: notifyUser() call n
  shares,  \* shares[n]: its array is still the current one
  array,   \* array[n]: the array it holds, once replaced
  asked,   \* asked[n]: sends not yet answered
  dead,    \* dead[n]: endpoints answered 404 or 410
  removed  \* history: endpoints removed on request and not registered since

pushVars == <<subs, gone, state, shares, array, asked, dead, removed>>

Init ==
  /\ subs = {}
  /\ gone = {}
  /\ state = [n \in Notification |-> "idle"]
  /\ shares = [n \in Notification |-> FALSE]
  /\ array = [n \in Notification |-> {}]
  /\ asked = [n \in Notification |-> {}]
  /\ dead = [n \in Notification |-> {}]
  /\ removed = {}

Held(n) == IF shares[n] THEN subs ELSE array[n]

(* pushSubs[user] = list: who held the old array keeps it as it was.       *)
Replace(list) ==
  /\ subs' = list
  /\ shares' = [n \in Notification |-> FALSE]
  /\ array' = [n \in Notification |-> Held(n)]
---------------------------------------------------------------------------
(* POST /api/push/subscribe: in place, seen by every call that shares it.  *)
Subscribe(d) ==
  /\ d \notin gone
  /\ subs' = subs \cup {d}
  /\ removed' = removed \ {d}
  /\ UNCHANGED <<gone, state, shares, array, asked, dead>>

(* POST /api/push/unsubscribe and /api/push/devices/delete.                *)
Remove(d) ==
  /\ Replace(subs \ {d})
  /\ removed' = removed \cup {d}
  /\ UNCHANGED <<gone, state, asked, dead>>

(* POST /api/push/devices/keep-only: 409 unless the endpoint is listed.    *)
KeepOnly(d) ==
  /\ d \in subs
  /\ Replace({d})
  /\ removed' = removed \cup (subs \ {d})
  /\ UNCHANGED <<gone, state, asked, dead>>

(* The browser drops a subscription; the push service answers 410 from     *)
(* then on.                                                                *)
Expire(d) ==
  /\ gone' = gone \cup {d}
  /\ UNCHANGED <<subs, state, shares, array, asked, dead, removed>>
---------------------------------------------------------------------------
(* notifyUser() up to its await: one send per member of the array.         *)
Notify(n) ==
  /\ state[n] = "idle"
  /\ subs # {}
  /\ state' = [state EXCEPT ![n] = "sending"]
  /\ shares' = [shares EXCEPT ![n] = TRUE]
  /\ asked' = [asked EXCEPT ![n] = subs]
  /\ UNCHANGED <<subs, gone, array, dead, removed>>

(* The push service answers one send.  Any other failure is only logged.   *)
Answer(n, d) ==
  /\ d \in asked[n]
  /\ asked' = [asked EXCEPT ![n] = @ \ {d}]
  /\ dead' = [dead EXCEPT ![n] = IF d \in gone THEN @ \cup {d} ELSE @]
  /\ UNCHANGED <<subs, gone, state, shares, array, removed>>

(* After the last answer: the array it held, less the dead, becomes the    *)
(* list.                                                                   *)
Finish(n) ==
  /\ state[n] = "sending"
  /\ asked[n] = {}
  /\ IF dead[n] = {} THEN UNCHANGED subs ELSE subs' = Held(n) \ dead[n]
  /\ shares' = [m \in Notification |-> m # n /\ shares[m] /\ dead[n] = {}]
  /\ array' = [m \in Notification |-> IF m = n THEN {} ELSE IF dead[n] = {} THEN array[m] ELSE Held(m)]
  /\ dead' = [dead EXCEPT ![n] = {}]
  /\ state' = [state EXCEPT ![n] = "idle"]
  /\ UNCHANGED <<gone, asked, removed>>

Next ==
  \/ \E d \in Device : Subscribe(d) \/ Remove(d) \/ KeepOnly(d) \/ Expire(d)
  \/ \E n \in Notification : Notify(n) \/ Finish(n) \/ \E d \in Device : Answer(n, d)

Spec == Init /\ [][Next]_pushVars
---------------------------------------------------------------------------
(* "Remove every device except this one." (line 863), and the test of      *)
(* devices/delete that asserts a removed device is no longer listed        *)
(* (notify-api.test.js:410): an endpoint removed on request stays out of   *)
(* the list until it is registered again.                                  *)
RemovedStaysRemoved == removed \cap subs = {}
=============================================================================
