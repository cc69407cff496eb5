----------------------------- MODULE TmuxPaste -----------------------------
(***************************************************************************)
(* term/src/pane-source.js: what the phones send into one tmux pane.  Each *)
(* connection has its own `tmux -C` child, with the commands written to    *)
(* its stdin and the replies it prints in the same order, and its own      *)
(* typeQueue, which runs one typed message or one paste at a time.  Taps,  *)
(* wheel notches and resizes pass the queue by.                            *)
(*                                                                         *)
(* The source pairs a reply with a command by position alone, so a reply   *)
(* here carries, for the properties only, the command it answers.  The     *)
(* first block of every child answers no command: it is tmux's reply to    *)
(* attach-session itself, as measured in docs/superpowers/specs/           *)
(* 2026-07-27-buoc-0-ket-qua.md (lines 24-25, before that of the command). *)
(***************************************************************************)
EXTENDS Naturals, Sequences, FiniteSets

CONSTANTS Conn,     \* browser connections
          Typed,    \* messages for type(): content and the Enter that ends it
          Paste,    \* messages for paste()
          Tap,      \* messages for mouse() and resize()
          From,     \* From[m]: the connection that sends message m
  Together  \* bound: all messages sent are in one of these sets

ASSUME MessageAssumption ==
  /\ From \in [Typed \cup Paste \cup Tap -> Conn]
  /\ Typed \cap Paste = {} /\ Typed \cap Tap = {} /\ Paste \cap Tap = {}

Message == Typed \cup Paste \cup Tap

VARIABLES
  sent,      \* messages the phones have sent
  queue,     \* queue[c]: messages of c's typeQueue, the running one first
  step,      \* step[m]: how far message m has come
  pasteSeq,  \* counter of buffer names, one for the whole source
  name,      \* name[p]: buffer name of paste p, 0 before it has one
  buffer,    \* buffer[n]: the message tmux holds under name n
  alive,     \* the pane is alive
  up,        \* connections whose control client runs
  cmds,      \* cmds[c]: commands tmux has not read yet
  replies,   \* replies[c]: replies the daemon has not handled yet
  waiting,   \* waiting[c]: choLoiDap, one entry per command
  told,      \* told[p]: what the phone was told of paste p, in order
  input,     \* everything the pane received
  early      \* history: connections that wrote before the first block came

queueVars == <<sent, queue, pasteSeq, name>>
pipeVars == <<up, cmds, replies, waiting>>
tpVars == <<sent, queue, step, pasteSeq, name, buffer, alive, up, cmds, replies, waiting, told,
            input, early>>

Names == 1..Cardinality(Paste)
Greeting(c) == [op |-> "attach", of |-> c]
Command == [op : {"keys", "enter", "paste", "tap", "resize"}, of : Message]
Steps == {"new", "queued", "typing", "loading", "pasting", "pausing", "entering", "over"}

(* finish() has not run: the timer is armed and the queue waits.           *)
Unfinished(p) == p \in Paste /\ step[p] # "queued" /\ queue[From[p]] # <<>>
                   /\ Head(queue[From[p]]) = p
Running(m) == queue[From[m]] # <<>> /\ Head(queue[From[m]]) = m

TPInit ==
  /\ sent = {}
  /\ queue = [c \in Conn |-> <<>>]
  /\ step = [m \in Message |-> "new"]
  /\ pasteSeq = 0
  /\ name = [p \in Paste |-> 0]
  /\ buffer = [n \in {} |-> n]
  /\ alive = TRUE
  /\ up = Conn
  /\ cmds = [c \in Conn |-> <<>>]
  /\ replies = [c \in Conn |-> <<[ok |-> TRUE, to |-> Greeting(c)]>>]
  /\ waiting = [c \in Conn |-> <<>>]
  /\ told = [p \in Paste |-> <<>>]
  /\ input = <<>>
  /\ early = {}

(* ctlCmd(): one entry in choLoiDap for every command, and a write that    *)
(* goes nowhere when the child is dead.                                    *)
Ungreeted(c) == replies[c] # <<>> /\ Head(replies[c]).to = Greeting(c)

Written(c, cmd) ==
  /\ cmds' = IF c \in up THEN [cmds EXCEPT ![c] = Append(@, cmd)] ELSE cmds
  /\ early' = IF Ungreeted(c) THEN early \cup {c} ELSE early

CtlCmd(c, cmd) ==
  /\ waiting' = [waiting EXCEPT ![c] = Append(@, cmd)]
  /\ Written(c, cmd)
---------------------------------------------------------------------------
MaySend(m) == \E s \in Together : sent \cup {m} \subseteq s

(* The phone sends a message.                                              *)
Type(m) ==
  /\ m \in Typed \ sent /\ From[m] \in up /\ MaySend(m)
  /\ sent' = sent \cup {m}
  /\ queue' = [queue EXCEPT ![From[m]] = Append(@, m)]
  /\ step' = [step EXCEPT ![m] = "queued"]
  /\ UNCHANGED <<pasteSeq, name, buffer, alive, pipeVars, told, input, early>>

(* Mutant: every connection counts for itself.                             *)
CountsForItself(p) == 1 + Cardinality({q \in Paste \cap sent : From[q] = From[p]})

(* paste() takes a buffer name at once and queues the rest.                *)

NextName(p) == pasteSeq + 1

PasteText(p) ==
  /\ p \in Paste \ sent /\ From[p] \in up /\ MaySend(p)
  /\ sent' = sent \cup {p}
  /\ pasteSeq' = pasteSeq + 1
  /\ name' = [name EXCEPT ![p] = NextName(p)]
  /\ queue' = [queue EXCEPT ![From[p]] = Append(@, p)]
  /\ step' = [step EXCEPT ![p] = "queued"]
  /\ UNCHANGED <<buffer, alive, pipeVars, told, input, early>>

(* mouse() and resize(): straight to ctlCmd().                             *)
Bypass(m) ==
  /\ m \in Tap \ sent /\ From[m] \in up /\ MaySend(m)
  /\ sent' = sent \cup {m}
  /\ step' = [step EXCEPT ![m] = "over"]
  /\ \E op \in {"tap", "resize"} : CtlCmd(From[m], [op |-> op, of |-> m])
  /\ UNCHANGED <<queue, pasteSeq, name, buffer, alive, up, replies, told, input>>
---------------------------------------------------------------------------
NextInQueue(c) == queue' = [queue EXCEPT ![c] = Tail(@)]

(* type(): the content now, the Enter after COMMIT_DELAY_MS; or, for a     *)
(* message without an Enter of its own, the content alone.                 *)
TypeContent(m) ==
  /\ m \in Typed /\ Running(m) /\ step[m] = "queued"
  /\ CtlCmd(From[m], [op |-> "keys", of |-> m])
  /\ \/ step' = [step EXCEPT ![m] = "typing"] /\ UNCHANGED queue
     \/ step' = [step EXCEPT ![m] = "over"] /\ NextInQueue(From[m])
  /\ UNCHANGED <<sent, pasteSeq, name, buffer, alive, up, replies, told, input>>

TypeEnter(m) ==
  /\ step[m] = "typing"
  /\ CtlCmd(From[m], [op |-> "enter", of |-> m])
  /\ step' = [step EXCEPT ![m] = "over"]
  /\ NextInQueue(From[m])
  /\ UNCHANGED <<sent, pasteSeq, name, buffer, alive, up, replies, told, input>>

(* paste(): load-buffer is spawned and the timer armed.                    *)
StartPaste(p) ==
  /\ p \in Paste /\ Running(p) /\ step[p] = "queued"
  /\ step' = [step EXCEPT ![p] = "loading"]
  /\ UNCHANGED <<queueVars, buffer, alive, pipeVars, told, input, early>>

(* fail(): finish() first, and nothing at all when it already ran.         *)
Fail(p) ==
  IF Unfinished(p)
  THEN /\ NextInQueue(From[p])
       /\ told' = [told EXCEPT ![p] = Append(@, "error")]
  ELSE UNCHANGED <<queue, told>>

Stored(p) == buffer' = [n \in DOMAIN buffer \cup {name[p]} |-> IF n = name[p] THEN p ELSE buffer[n]]

(* load-buffer ends: well, and paste-buffer is written; or badly.          *)
BufferLoaded(p) ==
  /\ step[p] = "loading"
  /\ Stored(p)
  /\ CtlCmd(From[p], [op |-> "paste", of |-> p])
  /\ step' = [step EXCEPT ![p] = "pasting"]
  /\ UNCHANGED <<queueVars, alive, up, replies, told, input>>

LoaderFails(p) ==
  /\ step[p] = "loading"
  /\ step' = [step EXCEPT ![p] = "over"]
  /\ Fail(p)
  /\ UNCHANGED <<sent, pasteSeq, name, buffer, alive, pipeVars, input, early>>

(* PASTE_LOAD_TIMEOUT_MS after the start.  A loader still at work is       *)
(* killed, too late perhaps to keep the buffer from tmux; a paste already  *)
(* written to the control client goes its way.                             *)
TimeOutWhenLoading(p) == Unfinished(p) /\ step[p] = "loading"

TimeOut(p) == Unfinished(p)

PasteTimesOut(p) ==
  /\ TimeOut(p)
  /\ Fail(p)
  /\ \/ step[p] = "loading" /\ step' = [step EXCEPT ![p] = "over"]
                            /\ (Stored(p) \/ UNCHANGED buffer)
     \/ step[p] # "loading" /\ UNCHANGED <<step, buffer>>
  /\ UNCHANGED <<sent, pasteSeq, name, alive, pipeVars, input, early>>

(* COMMIT_DELAY_MS after paste-buffer was confirmed: the Enter.            *)
PressEnter(p) ==
  /\ step[p] = "pausing"
  /\ CtlCmd(From[p], [op |-> "enter", of |-> p])
  /\ step' = [step EXCEPT ![p] = "entering"]
  /\ UNCHANGED <<queueVars, buffer, alive, up, replies, told, input>>

(* onAck(), and finish() for whoever still waits.                          *)
Confirm(p) ==
  /\ told' = [told EXCEPT ![p] = Append(@, "ack")]
  /\ IF Unfinished(p) THEN NextInQueue(From[p]) ELSE UNCHANGED queue

ReleaseAtPaste(p) ==
  /\ IF Unfinished(p) THEN NextInQueue(From[p]) ELSE UNCHANGED queue
  /\ UNCHANGED told

HoldQueue(p) == UNCHANGED <<queue, told>>

AckAtPaste(cmd) ==
  IF cmd.of \in Paste /\ cmd.op = "paste"
  THEN step' = [step EXCEPT ![cmd.of] = "pausing"] /\ Confirm(cmd.of)
  ELSE UNCHANGED <<step, queue, told>>

(* A confirmed paste-buffer starts the pause, a confirmed Enter is the ack. *)
Confirmed(cmd) ==
  CASE cmd.of \notin Paste -> UNCHANGED <<step, queue, told>>
    [] cmd.of \in Paste /\ cmd.op = "paste" ->
         step' = [step EXCEPT ![cmd.of] = "pausing"] /\ HoldQueue(cmd.of)
    [] OTHER -> step' = [step EXCEPT ![cmd.of] = "over"] /\ Confirm(cmd.of)

Refused(cmd) ==
  IF cmd.of \in Paste
  THEN step' = [step EXCEPT ![cmd.of] = "over"] /\ Fail(cmd.of)
  ELSE UNCHANGED <<step, queue, told>>

(* A reply block arrives: the entry that waits longest gets it, and acts   *)
(* on it only if it has a callback, which the commands of paste() have.    *)
HandleReply(c) ==
  /\ replies[c] # <<>>
  /\ replies' = [replies EXCEPT ![c] = Tail(@)]
  /\ IF waiting[c] = <<>> THEN UNCHANGED <<waiting, step, queue, told>>
     ELSE /\ waiting' = [waiting EXCEPT ![c] = Tail(@)]
          /\ IF Head(replies[c]).ok THEN Confirmed(Head(waiting[c])) ELSE Refused(Head(waiting[c]))
  /\ UNCHANGED <<sent, pasteSeq, name, buffer, alive, up, cmds, input, early>>
---------------------------------------------------------------------------
(* tmux (external) reads one command, does it or refuses it, and answers.  *)
Performs(c, cmd) ==
  /\ alive
  /\ CASE cmd.op = "paste" ->
            /\ name[cmd.of] \in DOMAIN buffer
            /\ input' = Append(input, [op |-> "paste", of |-> cmd.of, text |-> buffer[name[cmd.of]]])
            /\ buffer' = [n \in DOMAIN buffer \ {name[cmd.of]} |-> buffer[n]]
       [] cmd.op = "resize" -> UNCHANGED <<input, buffer>>
       [] OTHER -> /\ input' = Append(input, [op |-> cmd.op, of |-> cmd.of, text |-> cmd.of])
                   /\ UNCHANGED buffer
  /\ replies' = [replies EXCEPT ![c] = Append(@, [ok |-> TRUE, to |-> cmd])]

Refuses(c, cmd) ==
  /\ ~alive \/ (cmd.op = "paste" /\ name[cmd.of] \notin DOMAIN buffer)
  /\ replies' = [replies EXCEPT ![c] = Append(@, [ok |-> FALSE, to |-> cmd])]
  /\ UNCHANGED <<input, buffer>>

TmuxReads(c) ==
  /\ cmds[c] # <<>>
  /\ cmds' = [cmds EXCEPT ![c] = Tail(@)]
  /\ Performs(c, Head(cmds[c])) \/ Refuses(c, Head(cmds[c]))
  /\ UNCHANGED <<queueVars, step, alive, up, waiting, told, early>>

PaneDies ==
  /\ alive
  /\ alive' = FALSE
  /\ UNCHANGED <<queueVars, step, buffer, pipeVars, told, input, early>>

(* The last of the control client's output has been read, after it ended   *)
(* by itself or close() killed it: what it had not answered, or what of    *)
(* its answers was lost with it, is never heard.  Since it ended, tmux     *)
(* read nothing of what was written.                                       *)
ConnectionEnds(c) ==
  /\ c \in up
  /\ up' = up \ {c}
  /\ cmds' = [cmds EXCEPT ![c] = <<>>]
  /\ replies' = [replies EXCEPT ![c] = <<>>]
  /\ UNCHANGED <<queueVars, step, buffer, alive, waiting, told, input, early>>
---------------------------------------------------------------------------
TPNext ==
  \/ \E m \in Message : Type(m)
  \/ \E m \in Message : PasteText(m)
  \/ \E m \in Message : Bypass(m)
  \/ \E m \in Message : TypeContent(m)
  \/ \E m \in Message : TypeEnter(m)
  \/ \E p \in Paste : StartPaste(p)
  \/ \E p \in Paste : BufferLoaded(p)
  \/ \E p \in Paste : LoaderFails(p)
  \/ \E p \in Paste : PasteTimesOut(p)
  \/ \E p \in Paste : PressEnter(p)
  \/ \E c \in Conn : HandleReply(c)
  \/ \E c \in Conn : TmuxReads(c)
  \/ \E c \in Conn : ConnectionEnds(c)
  \/ PaneDies

TPSpec == TPInit /\ [][TPNext]_tpVars

(* The daemon's own event loop runs its queue and its timers.  Nothing is  *)
(* assumed of tmux or of load-buffer: both may hang.                       *)
TPFair ==
  /\ \A m \in Typed : WF_tpVars(TypeContent(m)) /\ WF_tpVars(TypeEnter(m))
  /\ \A p \in Paste : WF_tpVars(StartPaste(p)) /\ WF_tpVars(PasteTimesOut(p))
FairTPSpec == TPSpec /\ TPFair
---------------------------------------------------------------------------
TypeOK ==
  /\ sent \subseteq Message
  /\ queue \in [Conn -> Seq(Typed \cup Paste)]
  /\ step \in [Message -> Steps]
  /\ pasteSeq \in 0..Cardinality(Paste)
  /\ name \in [Paste -> 0..Cardinality(Paste)]
  /\ DOMAIN buffer \subseteq Names /\ \A n \in DOMAIN buffer : buffer[n] \in Paste
  /\ alive \in BOOLEAN
  /\ up \subseteq Conn
  /\ cmds \in [Conn -> Seq(Command)]
  /\ replies \in [Conn -> Seq([ok : BOOLEAN, to : Command \cup {Greeting(c) : c \in Conn}])]
  /\ waiting \in [Conn -> Seq(Command)]
  /\ told \in [Paste -> Seq({"ack", "error"})]
  /\ input \in Seq([op : {"keys", "enter", "paste", "tap"}, of : Message, text : Message])
  /\ early \subseteq Conn

Place(op, m) == {i \in 1..Len(input) : input[i].op = op /\ input[i].of = m}

Heard(p, what) == \E i \in 1..Len(told[p]) : told[p][i] = what

Committed(p) == \E i \in Place("paste", p), j \in Place("enter", p) : i < j

(* A paste is acknowledged only when its content has reached the pane and, *)
(* on every connection whose first block was read before its first command *)
(* was written, its Enter after it (lines 214-215 promise that of all).    *)
AckedMeansDone ==
  \A p \in Paste :
    Heard(p, "ack") => Place("paste", p) # {} /\ (From[p] \in early \/ Committed(p))

(* What tmux pastes for a message is that message, although the other      *)
(* phone's load-buffer, or after a timeout the next one's of the same      *)
(* phone, may come between its own and its paste-buffer (lines 40-46).     *)
EachPastesItsOwn == \A i \in 1..Len(input) : input[i].text = input[i].of

(* type and paste share one queue so that no key of the same phone comes   *)
(* between a paste and its Enter and sends half a message (lines 141-142). *)
(* Only a paste that timed out, whose commands were already with tmux, can *)
(* be divided or divide another.                                           *)
Orderly(m) == m \in Typed \/ (m \in Paste /\ ~Heard(m, "error"))

PasteIsUndivided ==
  \A p \in Paste : \A i \in Place("paste", p), j \in Place("enter", p) :
    Orderly(p) =>
      \A k \in (i + 1)..(j - 1) : From[input[k].of] = From[p] => ~Orderly(input[k].of)

(* A paste never leaves the phone without an answer, and never blocks the  *)
(* keys behind it for ever, even if tmux or load-buffer hangs (lines       *)
(* 28-31).                                                                 *)
EveryPasteIsAnswered == \A p \in Paste : p \in sent ~> told[p] # <<>>

===========================================================================
