------------------------------ MODULE PageLink ------------------------------
(***************************************************************************)
(* term/public/term.js: how the page gets its connection and keeps it -    *)
(* connect(), the socket's onopen, onmessage (the ccrc_session frame) and  *)
(* onclose, scheduleReconnect(), visibilitychange and hashchange.          *)
(*                                                                         *)
(* A socket without handlers is as good as closed: closeSocket() takes     *)
(* them off before it closes.                                              *)
(***************************************************************************)
EXTENDS Naturals

CONSTANTS Socket,       \* WebSockets the page may have at a time
          NoTicket, NoKey, NoSocket

ASSUME PageAssumption == NoSocket \notin Socket

VARIABLES
  ticket,   \* in memory, from the fragment of the address
  key,      \* in sessionStorage
  timer,    \* reconnectTimer is set
  ws,       \* the socket in use, or the last one
  phone,    \* phone[s]: "none", "connecting" or "open", with handlers on
  shows,    \* shows[s]: what its request shows (usingTicket, usingKey)
  told      \* history: why the last socket closed

NoRequest == [by |-> "none"]

pageVars == <<ticket, key, timer, ws, phone, shows, told>>

Live(s) == phone[s] # "none"

CloseSocket(ph) == IF ws = NoSocket THEN ph ELSE [ph EXCEPT ![ws] = "none"]

LeaveSocket(ph) == ph

(* What the handlers of a socket know goes with the socket.                *)
Closures(ph) == [s \in Socket |-> IF ph[s] = "none" THEN NoRequest ELSE shows[s]]

(* connect(): a ticket wins over a key; with neither the page stops.  s is *)
(* the new socket, tk, ky and ph what the caller has made of the state.    *)
Connect(s, tk, ky, ph) ==
  /\ timer' = FALSE
  /\ told' = "none"
  /\ ticket' = tk /\ key' = ky
  /\ \/ /\ tk = NoTicket /\ ky = NoKey
        /\ phone' = ph /\ shows' = Closures(ph)
        /\ UNCHANGED ws
     \/ /\ tk # NoTicket \/ ky # NoKey
        /\ ws' = s /\ phone' = [ph EXCEPT ![s] = "connecting"]
        /\ shows' = [Closures(ph) EXCEPT ![s] =
             IF tk # NoTicket THEN [by |-> "ticket", it |-> tk] ELSE [by |-> "key", it |-> ky]]

(* The page is loaded, without a ticket (the fragment was taken out of the *)
(* address the first time): a reload, or a tab the phone brings back.      *)
Reload(s) == Connect(s, NoTicket, key, CloseSocket(phone))

TapLeavesSocket(s, t) == Connect(s, t, NoKey, LeaveSocket(phone))

(* hashchange, or the page's first load: the user opened the card and      *)
(* comes with a ticket.                                                    *)
Tap(s, t) == Connect(s, t, NoKey, CloseSocket(phone))

ShowAgainAnyway(s, closing) == Connect(s, ticket, key, phone)

(* visibilitychange, to visible.  A socket that is closing is given up,    *)
(* and what its onclose would have said with it.                           *)
ShowAgain(s, closing) ==
  /\ ws # NoSocket => ~Live(ws) \/ closing
  /\ Connect(s, ticket, key, CloseSocket(phone))

(* reconnectTimer fires.                                                   *)
TimerFires(s) == timer /\ Connect(s, ticket, key, phone)
---------------------------------------------------------------------------
OnOpen(s) ==
  /\ phone' = [phone EXCEPT ![s] = "open"]
  /\ ticket' = IF shows[s].by = "ticket" THEN NoTicket ELSE ticket
  /\ UNCHANGED <<key, timer, ws, shows, told>>

OnSession(k) ==
  /\ key' = k
  /\ UNCHANGED <<ticket, timer, ws, phone, shows, told>>

EndsWhenLost(why) == why \in {"ended", "unpaired", "lost"}

EndsWhenGone(why) == why \in {"ended", "unpaired", "gone"}

EndsHere(why) == why \in {"ended", "unpaired"}

(* A key whose socket never opened is thrown away.                         *)
KeyRefused(s) == shows[s].by = "key" /\ phone[s] # "open"

(* onclose, with the close code that the daemon gave, or without           *)
(* ("refused": no upgrade; "lost": the network).                           *)
OnClose(s, why) ==
  /\ phone' = [phone EXCEPT ![s] = "none"]
  /\ told' = why
  /\ key' = IF why = "ended" \/ (~EndsHere(why) /\ KeyRefused(s)) THEN NoKey ELSE key
  /\ timer' = IF EndsHere(why) THEN timer ELSE TRUE
  /\ shows' = [shows EXCEPT ![s] = NoRequest]
  /\ UNCHANGED <<ticket, ws>>

PageInit ==
  /\ ticket = NoTicket /\ key = NoKey /\ timer = FALSE /\ ws = NoSocket
  /\ phone = [s \in Socket |-> "none"]
  /\ shows = [s \in Socket |-> NoRequest]
  /\ told = "none"
=============================================================================
