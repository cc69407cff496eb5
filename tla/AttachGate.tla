----------------------------- MODULE AttachGate -----------------------------
(***************************************************************************)
(* term/bin/ccrc-term.js, the 'upgrade' handler: who may attach.           *)
(*                                                                         *)
(* A browser shows a ticket, signed by the phone, good for a minute, for   *)
(* one session and for one opening; or a key, handed out by the connection *)
(* that a ticket opened, good as long as the daemon lives.                 *)
(*                                                                         *)
(* term/src/ticket.js, nonce-store.js and session-keys.js are its parts.   *)
(* Each action handles one request and says in reply what the browser      *)
(* hears.                                                                  *)
(***************************************************************************)
EXTENDS Naturals, Sequences

CONSTANTS Ticket,
          Lifetime      \* ticks from iat to exp

CONSTANTS MaxSessions,  \* bound: times the daemon is started
          MaxKeys       \* bound: keys told apart per ticket

ASSUME GateAssumption == Lifetime \in Nat /\ MaxSessions \in Nat \ {0} /\ MaxKeys \in Nat

VARIABLES
  life,       \* "up", "stopping" (shutdown() ran, the process has not exited) or "down"
  session,    \* SESSION_ID, a new one at every start
  paneAlive,
  paired,     \* the phone is in devices.json
  signed,     \* tickets the phone has signed
  signedFor,  \* signedFor[t]: the ticket's sid
  age,        \* age[t]: ticks since the ticket was signed, up to Lifetime + 1
  nonces,     \* tickets whose nonce is remembered
  keys,       \* keys that are good
  issued,     \* issued[t]: history, keys that go back to ticket t
  opened,     \* opened[t]: history, openings ticket t paid for
  straddled   \* history: used tickets shown at exp and looked up just after it

usedVars == <<nonces, keys, issued, opened, straddled>>

gateVars == <<life, session, paneAlive, paired, signed, signedFor, age, usedVars>>

Key == [of : Ticket, n : 1..MaxKeys]

Request == [by : {"ticket"}, it : Ticket] \cup [by : {"key"}, it : Key]

(* What reaches the page: the upgrade succeeded, a key, or the end of the  *)
(* socket.  "refused" is a 401, a 503 or a refused connection; "ended" is  *)
(* close code 4001, "unpaired" 4003, "gone" 1011, "lost" no code at all.    *)
Word == [is : {"open", "refused", "ended", "unpaired", "gone", "lost"}] \cup [is : {"key"}, key : Key]

Say(what) == <<[is |-> what]>>

(* All the handler may say.                                                *)
Reply == {Say("refused"), Say("open"), Say("open") \o Say("unpaired")}
         \cup {Say("open") \o <<[is |-> "key", key |-> k]>> : k \in Key}

TicketOf(r) == IF r.by = "ticket" THEN r.it ELSE r.it.of
---------------------------------------------------------------------------
(* verifyAttachToken(), the device having been found: the signature, the   *)
(* session, and now > exp.                                                 *)
Expired(t) == age[t] > Lifetime

Verified(t) == t \in signed /\ signedFor[t] = session /\ ~Expired(t)

Older == [t \in Ticket |-> IF t \in signed /\ ~Expired(t) THEN age[t] + 1 ELSE age[t]]

RememberedBefore(now) == {t \in nonces : now[t] < Lifetime}

(* nonces.use(): forget first, then look, at ages now.                     *)
Remembered(now) == {t \in nonces : now[t] <= Lifetime}

Good(t, now) == Verified(t) /\ t \notin Remembered(now)

(* mintKey: only a ticket's connection is given a key.                     *)
MintsKey(r) == r.by = "ticket"

NewKey(t) == [of |-> t, n |-> issued[t] + 1]

(* wss.handleUpgrade and the head of 'connection'.                         *)
Admit(r, reply) ==
  /\ opened' = IF r.by = "ticket" THEN [opened EXCEPT ![r.it] = @ + 1] ELSE opened
  /\ \/ /\ MintsKey(r) /\ issued[TicketOf(r)] < MaxKeys
        /\ keys' = keys \cup {NewKey(TicketOf(r))}
        /\ issued' = [issued EXCEPT ![TicketOf(r)] = @ + 1]
        /\ reply = Say("open") \o <<[is |-> "key", key |-> NewKey(TicketOf(r))]>>
     \/ ~MintsKey(r) /\ UNCHANGED <<keys, issued>> /\ reply = Say("open")

Turned(reply) == UNCHANGED <<keys, issued, opened>> /\ reply = Say("refused")

AdmitOrTurn(r, reply) ==
  \/ paneAlive /\ Admit(r, reply)
  \/ ~paneAlive /\ Turned(reply)

UpgradeNobodyHome(r, reply) ==
  /\ life = "down" /\ reply = Say("refused")
  /\ UNCHANGED <<age, usedVars>>

(* An unknown device is let in for as long as it takes to tell it so.      *)
UpgradeUnpaired(r, reply) ==
  /\ life # "down" /\ r.by = "ticket" /\ ~paired
  /\ reply = Say("open") \o Say("unpaired")
  /\ UNCHANGED <<age, usedVars>>

(* The clock is read for now > exp, and again for the nonces: time may pass *)
(* between the two.                                                        *)
UpgradeTicket(r, reply) ==
  /\ life # "down" /\ r.by = "ticket" /\ paired
  /\ \E now \in {age, Older} :
       /\ age' = now /\ (Verified(r.it) \/ now = age)
       /\ nonces' = IF Good(r.it, now) THEN Remembered(now) \cup {r.it}
                    ELSE IF Verified(r.it) THEN Remembered(now) ELSE nonces
       /\ straddled' = IF Good(r.it, now) THEN straddled \cup (nonces \cap {r.it}) ELSE straddled
       /\ \/ Good(r.it, now) /\ AdmitOrTurn(r, reply)
          \/ ~Good(r.it, now) /\ Turned(reply)

UpgradeKey(r, reply) ==
  /\ life # "down" /\ r.by = "key"
  /\ \/ r.it \in keys /\ AdmitOrTurn(r, reply)
     \/ r.it \notin keys /\ Turned(reply)
  /\ UNCHANGED <<age, nonces, straddled>>

Upgrade(r, reply) ==
  /\ \/ UpgradeNobodyHome(r, reply)
     \/ UpgradeUnpaired(r, reply)
     \/ UpgradeTicket(r, reply)
     \/ UpgradeKey(r, reply)
  /\ UNCHANGED <<life, session, paneAlive, paired, signed, signedFor>>
---------------------------------------------------------------------------
GateInit ==
  /\ life = "up" /\ session = 1 /\ paneAlive = TRUE /\ paired = TRUE
  /\ signed = {} /\ nonces = {} /\ keys = {} /\ straddled = {}
  /\ signedFor = [t \in Ticket |-> 1]
  /\ age = [t \in Ticket |-> 0]
  /\ issued = [t \in Ticket |-> 0]
  /\ opened = [t \in Ticket |-> 0]

(* signAttachToken() of the hub's page, for a session of its list, which   *)
(* may be one that is over.                                                *)
SignTicket(t, n) ==
  /\ t \notin signed /\ n \in 1..session
  /\ signed' = signed \cup {t}
  /\ signedFor' = [signedFor EXCEPT ![t] = n]
  /\ UNCHANGED <<life, session, paneAlive, paired, age, usedVars>>

Tick ==
  /\ \E t \in signed : ~Expired(t)
  /\ age' = Older
  /\ UNCHANGED <<life, session, paneAlive, paired, signed, signedFor, usedVars>>

(* devices.json, read at every connection.                                 *)
PairOrUnpair ==
  /\ paired' = ~paired
  /\ UNCHANGED <<life, session, paneAlive, signed, signedFor, age, usedVars>>

PaneDies ==
  /\ paneAlive /\ life = "up" /\ paneAlive' = FALSE
  /\ UNCHANGED <<life, session, paired, signed, signedFor, age, usedVars>>

(* shutdown(): by SIGTERM, or because the poll found the pane dead.  The   *)
(* server goes on answering until the process exits.                       *)
Shutdown ==
  /\ life = "up" /\ life' = "stopping"
  /\ UNCHANGED <<session, paneAlive, paired, signed, signedFor, age, usedVars>>

(* The process is gone, by itself or killed, and its memory with it.       *)
Exit ==
  /\ life # "down" /\ life' = "down" /\ nonces' = {} /\ keys' = {}
  /\ UNCHANGED <<session, paneAlive, paired, signed, signedFor, age, issued, opened, straddled>>

(* /remote on again, at the same address.                                  *)
Start ==
  /\ life = "down" /\ session < MaxSessions
  /\ life' = "up" /\ session' = session + 1 /\ paneAlive' = TRUE
  /\ UNCHANGED <<paired, signed, signedFor, age, usedVars>>

(* The gate for itself: any request, from anybody, at any time.            *)
GateNext ==
  \/ \E r \in Request, reply \in Reply : Upgrade(r, reply)
  \/ \E t \in Ticket, n \in 1..MaxSessions : SignTicket(t, n)
  \/ Tick
  \/ PairOrUnpair
  \/ PaneDies
  \/ Shutdown
  \/ Exit
  \/ Start

GateSpec == GateInit /\ [][GateNext]_gateVars
---------------------------------------------------------------------------
GateTypeOK ==
  /\ life \in {"up", "stopping", "down"} /\ session \in 1..MaxSessions
  /\ paneAlive \in BOOLEAN /\ paired \in BOOLEAN
  /\ signed \subseteq Ticket /\ nonces \subseteq signed /\ straddled \subseteq signed
  /\ keys \subseteq Key
  /\ signedFor \in [Ticket -> 1..MaxSessions]
  /\ age \in [Ticket -> 0..(Lifetime + 1)]
  /\ issued \in [Ticket -> 0..MaxKeys] /\ opened \in [Ticket -> Nat]

(* A ticket opens one connection in all, however often and from wherever   *)
(* it is shown, and whatever restarts - or two, if it is used, shown again *)
(* at exp and looked up just after; and no more keys go back to it than    *)
(* openings (ccrc-term.js:388-400: "One-time use", and a ?key= connection  *)
(* "must never mint another key - otherwise a single leaked token could be *)
(* turned into an unbounded chain of keys").                               *)
TicketOpensOnce ==
  \A t \in Ticket : /\ opened[t] <= (IF t \in straddled THEN 2 ELSE 1)
                    /\ issued[t] <= opened[t]
=============================================================================
