------------------------------ MODULE TmuxProofs -----------------------------
(***************************************************************************)
(* Theorems about tmux panes.  TmuxPaste, for any number of phones and     *)
(* messages: each paste pastes its own text, an ack means what it says,    *)
(* and nothing of the same phone comes between a paste and its Enter.      *)
(* PaneGroup, for any number of daemons: the group session a phone needs   *)
(* is there, no other is killed, and the pane survives.                    *)
(***************************************************************************)
EXTENDS TmuxPaste, PaneGroup, FiniteSetTheorems, SequenceTheorems, TLAPS

(***************************************************************************)
(* TmuxPaste.                                                              *)
(***************************************************************************)
Reply == [ok : BOOLEAN, to : Command \cup {Greeting(c) : c \in Conn}]
Entry == [op : {"keys", "enter", "paste", "tap"}, of : Message, text : Message]

Types ==
  /\ sent \subseteq Message
  /\ queue \in [Conn -> Seq(Typed \cup Paste)]
  /\ step \in [Message -> Steps]
  /\ pasteSeq \in Nat /\ name \in [Paste -> Nat]
  /\ alive \in BOOLEAN /\ up \subseteq Conn /\ early \subseteq Conn
  /\ cmds \in [Conn -> Seq(Command)]
  /\ replies \in [Conn -> Seq(Reply)]
  /\ waiting \in [Conn -> Seq(Command)]
  /\ told \in [Paste -> Seq({"ack", "error"})]
  /\ input \in Seq(Entry)

\* What may be written for a message, and on which connection.
Fits(c, cmd) ==
  /\ From[cmd.of] = c
  /\ cmd.op = "paste" => cmd.of \in Paste
  /\ cmd.of \in Paste => cmd.op \in {"paste", "enter"}

Fitting ==
  \A c \in Conn :
    /\ \A i \in 1..Len(cmds[c]) : Fits(c, cmds[c][i])
    /\ \A i \in 1..Len(waiting[c]) : Fits(c, waiting[c][i])

\* A name has one paste, and what is stored under it is that paste's text.
Named ==
  /\ \A p \in Paste : name[p] \leq pasteSeq /\ (p \in sent <=> name[p] # 0)
                        /\ (step[p] # "new" => p \in sent)
  /\ \A p, q \in Paste : name[p] = name[q] /\ name[p] # 0 => p = q
  /\ \A n \in DOMAIN buffer : n # 0 /\ buffer[n] \in Paste /\ name[buffer[n]] = n

\* What was written and not yet handled, oldest first: the replies r, then q,
\* what tmux has still to read.
Nth(r, q, i) == IF i \leq Len(r) THEN r[i].to ELSE q[i - Len(r)]
Outstanding(c) == Len(replies[c]) + Len(cmds[c])

\* The entries w are paired with the commands they wait for, but the replies
\* come late by d: by one, because of the first block.
Shifted(w, r, q, d) ==
  /\ Len(w) + d = Len(r) + Len(q)
  /\ \A i \in 1..Len(w) : w[i] = Nth(r, q, i + d)
Late(c, d) == Shifted(waiting[c], replies[c], cmds[c], d)

Paired ==
  \A c \in Conn :
    IF c \in up
    THEN \/ Late(c, 0)
         \/ Late(c, 1) /\ (c \in early \/ (Ungreeted(c) /\ Outstanding(c) = 1))
    ELSE cmds[c] = <<>> /\ replies[c] = <<>>

\* A paste waits for the reply its step is about, once.
Awaited(op, st) == (op = "paste" /\ st = "pasting") \/ (op = "enter" /\ st = "entering")

WaitsAt(c) ==
  \A i \in 1..Len(waiting[c]) :
    waiting[c][i].of \in Paste =>
      /\ Awaited(waiting[c][i].op, step[waiting[c][i].of])
      /\ \A j \in 1..Len(waiting[c]) : waiting[c][j].of = waiting[c][i].of => i = j
Waits == \A c \in Conn : WaitsAt(c)

Unwritten == {"new", "queued", "loading"}
Open == {"pasting", "pausing"}

\* Nothing of a paste is under way or done before its text is with tmux, and as
\* long as tmux has not read the command to paste it, the text is there.
BegunAt(c) ==
  \A i \in 1..Len(cmds[c]) :
    /\ cmds[c][i].of \in Paste => step[cmds[c][i].of] \notin Unwritten
    /\ cmds[c][i].op = "paste" =>
         /\ name[cmds[c][i].of] \in DOMAIN buffer
         /\ \A j \in 1..Len(cmds[c]) : cmds[c][j] = cmds[c][i] => i = j

Begun ==
  /\ \A c \in Conn : BegunAt(c)
  /\ \A k \in 1..Len(input) : input[k].of \in Paste => step[input[k].of] \notin Unwritten

Seen(op, m) == Place(op, m) # {}

\* The pane died before tmux came to p's paste: whatever was done was asked for
\* before.
PasteOf(p) == [op |-> "paste", of |-> p]
EnterOf(p) == [op |-> "enter", of |-> p]

Missed(p) ==
  /\ ~alive
  /\ \A j \in 1..Len(replies[From[p]]) :
       replies[From[p]][j].ok => \E k \in (j + 1)..Len(replies[From[p]]) : replies[From[p]][k].to = PasteOf(p)

Pending(p) == \E i \in 1..Len(cmds[From[p]]) : cmds[From[p]][i] = PasteOf(p)

\* What a good reply, and the step of a paste, tell of the pane.
GoodReplies ==
  \A c \in Conn : \A k \in 1..Len(replies[c]) :
    replies[c][k].ok /\ replies[c][k].to.op \in {"paste", "enter"} =>
      Seen(replies[c][k].to.op, replies[c][k].to.of)

AfterPaste(p) ==
  /\ From[p] \in up /\ step[p] \in Open \cup {"entering"} => Pending(p) \/ Seen("paste", p) \/ Missed(p)
  /\ From[p] \notin early =>
       /\ step[p] \in {"pausing", "entering"} => Seen("paste", p)
       /\ \A i \in 1..Len(cmds[From[p]]) : cmds[From[p]][i] = EnterOf(p) => Seen("paste", p)
       /\ Seen("enter", p) => Committed(p)

Evidence == GoodReplies /\ \A p \in Paste : AfterPaste(p)

\* A paste under way is the first of its queue, unless the phone was told that
\* it failed.
InTurn ==
  /\ \A m \in Message : step[m] = "typing" => m \in Typed /\ Running(m)
  /\ \A p \in Paste : /\ step[p] = "loading" => Running(p)
                      /\ step[p] \in Open \cup {"entering"} => Running(p) \/ Heard(p, "error")

Basics == Types /\ Fitting /\ Named /\ Waits /\ InTurn

\* Once a message that is in order follows p's paste, p's Enter is past: it has
\* been written, and does not come after that message.
Past(p) == step[p] \notin Open

\* ... among the commands tmux has not read,
Behind(p) ==
  LET c == From[p] IN
  \A i, k \in 1..Len(cmds[c]) :
    i < k /\ cmds[c][i] = PasteOf(p) /\ Orderly(cmds[c][k].of) =>
      Past(p) /\ \A j \in (k + 1)..Len(cmds[c]) : cmds[c][j] # EnterOf(p)

\* ... when tmux has read the paste,
Between(p) ==
  LET c == From[p] IN
  Seen("paste", p) => \A k \in 1..Len(cmds[c]) :
    Orderly(cmds[c][k].of) => Past(p) /\ \A j \in (k + 1)..Len(cmds[c]) : cmds[c][j] # EnterOf(p)

\* ... and when it has read both.
Before(p) ==
  LET c == From[p] IN
  \A i \in Place("paste", p), k \in 1..Len(input) :
    i < k /\ From[input[k].of] = c /\ Orderly(input[k].of) =>
      /\ Past(p)
      /\ \A j \in 1..Len(cmds[c]) : cmds[c][j] # EnterOf(p)
      /\ \A j \in Place("enter", p) : j \leq k

Undivided == \A p \in Paste : Orderly(p) => Behind(p) /\ Between(p) /\ Before(p)
-----------------------------------------------------------------------------
\* Sequences.

LEMMA Sequences ==
    ASSUME NEW S, NEW s \in Seq(S), NEW x \in S
    PROVE  /\ Append(s, x) \in Seq(S)
           /\ s # <<>> => Tail(s) \in Seq(S) /\ Head(s) \in S
  OBVIOUS

LEMMA Elements ==
    ASSUME NEW S, NEW s \in Seq(S), NEW x
    PROVE  /\ Len(s) \in Nat /\ (s # <<>> <=> Len(s) > 0)
           /\ Len(Append(s, x)) = Len(s) + 1
           /\ \A i \in 1..Len(s) : Append(s, x)[i] = s[i]
           /\ Append(s, x)[Len(s) + 1] = x
           /\ s # <<>> => /\ Head(s) = s[1] /\ Len(Tail(s)) = Len(s) - 1
                          /\ \A i \in 1..(Len(s) - 1) : Tail(s)[i] = s[i + 1]
  OBVIOUS

\* What an element of a sequence was before the step.
LEMMA WasThere ==
    ASSUME NEW S, NEW s \in Seq(S), NEW x
    PROVE  /\ \A i \in 1..Len(Append(s, x)) :
                Append(s, x)[i] = x \/ \E j \in 1..Len(s) : Append(s, x)[i] = s[j]
           /\ s # <<>> => \A i \in 1..Len(Tail(s)) : \E j \in 1..Len(s) : Tail(s)[i] = s[j]
<1>1. ASSUME NEW i \in 1..Len(Append(s, x))
      PROVE  Append(s, x)[i] = x \/ \E j \in 1..Len(s) : Append(s, x)[i] = s[j]
  <2>1. i = Len(s) + 1 \/ i \in 1..Len(s)
    BY Elements
  <2> QED
    BY <2>1, Elements
<1>2. ASSUME s # <<>>, NEW i \in 1..Len(Tail(s)) PROVE \E j \in 1..Len(s) : Tail(s)[i] = s[j]
  <2>1. i + 1 \in 1..Len(s) /\ i \in 1..(Len(s) - 1)
    BY <1>2, Elements
  <2> QED
    BY <1>2, <2>1, Elements
<1> QED
  BY <1>1, <1>2

LEMMA OfMessages ==
    ASSUME NEW s \in Seq(Command), NEW i \in 1..Len(s)
    PROVE  /\ s[i] \in Command /\ s[i].of \in Message
           /\ s[i].op \in {"keys", "enter", "paste", "tap", "resize"}
<1>1. s[i] \in Command
  OBVIOUS
<1> QED
  BY <1>1 DEF Command

LEMMA SameCommand == \A x, y \in Command : x.op = y.op /\ x.of = y.of => x = y
  BY DEF Command

LEMMA Updates ==
    ASSUME NEW I, NEW S, NEW f \in [I -> Seq(S)], NEW c \in I, NEW x \in S
    PROVE  /\ [f EXCEPT ![c] = Append(@, x)] \in [I -> Seq(S)]
           /\ f[c] # <<>> => [f EXCEPT ![c] = Tail(@)] \in [I -> Seq(S)]
<1>1. f[c] \in Seq(S)
  OBVIOUS
<1>2. Append(f[c], x) \in Seq(S) /\ (f[c] # <<>> => Tail(f[c]) \in Seq(S))
  BY <1>1, Sequences
<1> QED
  BY <1>2

\* What a step that writes, reads, handles or ends leaves of the pipes.
LEMMA WrittenTypes ==
    ASSUME NEW c \in Conn, NEW cmd \in Command, CtlCmd(c, cmd), Types
    PROVE  /\ cmds' \in [Conn -> Seq(Command)] /\ waiting' \in [Conn -> Seq(Command)]
           /\ early' \subseteq Conn
<1> HIDE DEF Command
<1>1. waiting' \in [Conn -> Seq(Command)]
  BY Updates DEF CtlCmd, Types
<1>2. cmds' \in [Conn -> Seq(Command)]
  BY Updates DEF CtlCmd, Written, Types
<1> QED
  BY <1>1, <1>2 DEF CtlCmd, Written, Types

LEMMA NextTypes ==
    ASSUME Types, NEW c \in Conn, queue[c] # <<>>, NextInQueue(c)
    PROVE  queue' \in [Conn -> Seq(Typed \cup Paste)]
<1> DEFINE S == Typed \cup Paste
<1>1. queue \in [Conn -> Seq(S)] /\ Head(queue[c]) \in S
  BY Sequences DEF Types
<1> HIDE DEF S
<1>2. queue' \in [Conn -> Seq(S)]
  BY <1>1, Updates DEF NextInQueue
<1> QED
  BY <1>2 DEF S

\* A failed paste leaves the queue, if it was still in it.
LEMMA FailTypes ==
    ASSUME Types, NEW p \in Paste, Fail(p) \/ Confirm(p) \/ HoldQueue(p)
    PROVE  queue' \in [Conn -> Seq(Typed \cup Paste)] /\ told' \in [Paste -> Seq({"ack", "error"})]
<1> USE MessageAssumption
<1>1. queue' = queue \/ (queue[From[p]] # <<>> /\ NextInQueue(From[p]))
  BY DEF Fail, Confirm, HoldQueue, Unfinished
<1>2. queue' \in [Conn -> Seq(Typed \cup Paste)]
  BY <1>1, NextTypes DEF Types, Message
<1>3. \/ told' = told
      \/ told' = [told EXCEPT ![p] = Append(@, "error")]
      \/ told' = [told EXCEPT ![p] = Append(@, "ack")]
  BY DEF Fail, Confirm, HoldQueue
<1>4. told' \in [Paste -> Seq({"ack", "error"})]
  <2> DEFINE S == {"ack", "error"}
  <2>1. told \in [Paste -> Seq(S)] /\ "ack" \in S /\ "error" \in S
    BY DEF Types
  <2> HIDE DEF S
  <2>2. \A x \in S : [told EXCEPT ![p] = Append(@, x)] \in [Paste -> Seq(S)]
    BY <2>1, Updates
  <2>3. told' \in [Paste -> Seq(S)]
    BY <1>3, <2>1, <2>2
  <2> QED
    BY <2>3 DEF S
<1> QED
  BY <1>2, <1>4

LEMMA ConfirmedTypes ==
    ASSUME Types, NEW cmd \in Command, Confirmed(cmd) \/ Refused(cmd)
    PROVE  /\ step' \in [Message -> Steps]
           /\ queue' \in [Conn -> Seq(Typed \cup Paste)]
           /\ told' \in [Paste -> Seq({"ack", "error"})]
<1>1. CASE cmd.of \notin Paste
  BY <1>1 DEF Confirmed, Refused, Types
<1>2. CASE cmd.of \in Paste
  BY <1>2, FailTypes DEF Confirmed, Refused, Types, Message, Steps
<1> QED
  BY <1>1, <1>2

LEMMA TypesStep == ASSUME Basics, [TPNext]_tpVars PROVE Types'
<1> USE MessageAssumption DEF Message, Steps, Basics
<1>1. ASSUME NEW m \in Message, Type(m) PROVE Types'
  BY <1>1, Sequences DEF Type, Types, pipeVars
<1>2. ASSUME NEW m \in Message, PasteText(m) PROVE Types'
  BY <1>2, Sequences DEF PasteText, Types, pipeVars, NextName
<1>3. ASSUME NEW m \in Message, Bypass(m) PROVE Types'
  BY <1>3, WrittenTypes DEF Bypass, Types, Command
<1>4. ASSUME NEW m \in Message, TypeContent(m) PROVE Types'
  <2>1. [op |-> "keys", of |-> m] \in Command /\ From[m] \in Conn /\ queue[From[m]] # <<>>
    BY <1>4 DEF Command, TypeContent, Running
  <2>2. queue' \in [Conn -> Seq(Typed \cup Paste)]
    BY <1>4, <2>1, NextTypes DEF TypeContent, Types
  <2> QED
    BY <1>4, <2>1, <2>2, WrittenTypes DEF TypeContent, Types
<1>5. ASSUME NEW m \in Message, TypeEnter(m) PROVE Types'
  <2>1. [op |-> "enter", of |-> m] \in Command /\ From[m] \in Conn /\ queue[From[m]] # <<>>
    BY <1>5 DEF Command, TypeEnter, Running, InTurn
  <2>2. queue' \in [Conn -> Seq(Typed \cup Paste)]
    BY <1>5, <2>1, NextTypes DEF TypeEnter
  <2> QED
    BY <1>5, <2>1, <2>2, WrittenTypes DEF TypeEnter, Types
<1>6. ASSUME NEW p \in Paste, StartPaste(p) PROVE Types'
  BY <1>6 DEF StartPaste, Types, queueVars, pipeVars
<1>7. ASSUME NEW p \in Paste, BufferLoaded(p) PROVE Types'
  BY <1>7, WrittenTypes DEF BufferLoaded, Types, queueVars, Command
<1>8. ASSUME NEW p \in Paste, LoaderFails(p) PROVE Types'
  BY <1>8, FailTypes DEF LoaderFails, Types, pipeVars
<1>9. ASSUME NEW p \in Paste, PasteTimesOut(p) PROVE Types'
  BY <1>9, FailTypes DEF PasteTimesOut, Types, pipeVars
<1>10. ASSUME NEW p \in Paste, PressEnter(p) PROVE Types'
  BY <1>10, WrittenTypes DEF PressEnter, Types, queueVars, Command
<1>11. ASSUME NEW c \in Conn, HandleReply(c) PROVE Types'
  <2> HIDE DEF Message, Steps
  <2>1. replies' \in [Conn -> Seq(Reply)]
    <3>1. Head(replies[c]) \in Reply
      BY <1>11, Sequences DEF HandleReply, Types
    <3> QED
      BY <1>11, <3>1, Updates DEF HandleReply, Types
  <2>2. CASE waiting[c] = <<>>
    BY <1>11, <2>1, <2>2 DEF HandleReply, Types
  <2>3. CASE waiting[c] # <<>>
    <3>1. Head(waiting[c]) \in Command
      BY <2>3, Sequences DEF Types
    <3>2. waiting' \in [Conn -> Seq(Command)]
      <4>1. waiting \in [Conn -> Seq(Command)] /\ waiting' = [waiting EXCEPT ![c] = Tail(@)]
        BY <1>11, <2>3 DEF HandleReply, Types
      <4> QED
        BY <2>3, <3>1, <4>1, Updates
    <3>3. Confirmed(Head(waiting[c])) \/ Refused(Head(waiting[c]))
      BY <1>11, <2>3 DEF HandleReply
    <3> QED
      BY <1>11, <2>1, <3>1, <3>2, <3>3, ConfirmedTypes DEF HandleReply, Types
  <2> QED
    BY <2>2, <2>3
<1>12. ASSUME NEW c \in Conn, TmuxReads(c) PROVE Types'
  <2> DEFINE cmd == Head(cmds[c])
  <2> HIDE DEF Message, Steps
  <2>1. cmd \in Command /\ Fits(c, cmd)
    BY <1>12, Sequences DEF TmuxReads, Types, Fitting
  <2>2. cmds' \in [Conn -> Seq(Command)]
    BY <1>12, <2>1, Updates DEF TmuxReads, Types
  <2>3. \A ok \in BOOLEAN : [ok |-> ok, to |-> cmd] \in Reply
    BY <2>1 DEF Reply
  <2> HIDE DEF cmd
  <2>4. Performs(c, cmd) \/ Refuses(c, cmd)
    BY <1>12 DEF TmuxReads, cmd
  <2>5. replies' \in [Conn -> Seq(Reply)]
    <3>1. PICK ok \in BOOLEAN : replies' = [replies EXCEPT ![c] = Append(@, [ok |-> ok, to |-> cmd])]
      BY <2>4 DEF Performs, Refuses
    <3> QED
      BY <2>3, <3>1, Updates DEF Types
  <2>6. input' \in Seq(Entry)
    <3>1. CASE Refuses(c, cmd)
      BY <3>1 DEF Refuses, Types
    <3>2. CASE Performs(c, cmd) /\ cmd.op = "paste"
      <4>1. [op |-> "paste", of |-> cmd.of, text |-> buffer[name[cmd.of]]] \in Entry
        BY <2>1, <3>2 DEF Performs, Fits, Named, Entry, Command, Message
      <4>2. input' = Append(input, [op |-> "paste", of |-> cmd.of, text |-> buffer[name[cmd.of]]])
        BY <3>2 DEF Performs
      <4> QED
        BY <4>1, <4>2, Sequences DEF Types
    <3>3. CASE Performs(c, cmd) /\ cmd.op # "paste" /\ cmd.op # "resize"
      <4>1. [op |-> cmd.op, of |-> cmd.of, text |-> cmd.of] \in Entry
        BY <2>1, <3>3 DEF Entry, Command
      <4>2. input' = Append(input, [op |-> cmd.op, of |-> cmd.of, text |-> cmd.of])
        BY <3>3 DEF Performs
      <4> QED
        BY <4>1, <4>2, Sequences DEF Types
    <3>4. CASE Performs(c, cmd) /\ cmd.op = "resize"
      BY <3>4 DEF Performs, Types
    <3> QED
      BY <2>4, <3>1, <3>2, <3>3, <3>4
  <2> QED
    BY <1>12, <2>2, <2>5, <2>6 DEF TmuxReads, Types, queueVars
<1>13. ASSUME NEW c \in Conn, ConnectionEnds(c) PROVE Types'
  BY <1>13 DEF ConnectionEnds, Types, queueVars
<1>14. CASE PaneDies
  BY <1>14 DEF PaneDies, Types, queueVars, pipeVars
<1>15. CASE UNCHANGED tpVars
  BY <1>15 DEF tpVars, Types
<1> QED
  BY <1>1, <1>2, <1>3, <1>4, <1>5, <1>6, <1>7, <1>8, <1>9, <1>10, <1>11, <1>12, <1>13, <1>14,
     <1>15 DEF TPNext
-----------------------------------------------------------------------------
\* What a step does to the pipes of one connection.

Leaves(c) ==
  /\ cmds'[c] = cmds[c] /\ replies'[c] = replies[c] /\ waiting'[c] = waiting[c]
  /\ c \in up' <=> c \in up

Writes(c, cmd) ==
  /\ waiting'[c] = Append(waiting[c], cmd)
  /\ IF c \in up THEN cmds'[c] = Append(cmds[c], cmd) ELSE cmds'[c] = cmds[c]
  /\ replies'[c] = replies[c] /\ (c \in up' <=> c \in up)
  /\ Ungreeted(c) => c \in early'

Handles(c) ==
  /\ replies[c] # <<>> /\ replies'[c] = Tail(replies[c])
  /\ waiting'[c] = IF waiting[c] = <<>> THEN <<>> ELSE Tail(waiting[c])
  /\ cmds'[c] = cmds[c] /\ (c \in up' <=> c \in up)

Reads(c) ==
  /\ cmds[c] # <<>> /\ cmds'[c] = Tail(cmds[c])
  /\ \E ok \in BOOLEAN : replies'[c] = Append(replies[c], [ok |-> ok, to |-> Head(cmds[c])])
  /\ waiting'[c] = waiting[c] /\ (c \in up' <=> c \in up)

Ends(c) ==
  /\ c \notin up' /\ cmds'[c] = <<>> /\ replies'[c] = <<>>
  /\ waiting'[c] = waiting[c]

LEMMA CtlCmdWrites ==
    ASSUME Types, NEW d \in Conn, NEW cmd \in Command, CtlCmd(d, cmd), UNCHANGED <<up, replies>>
    PROVE  Writes(d, cmd) /\ \A c \in Conn \ {d} : Leaves(c)
<1>1. Writes(d, cmd)
  BY DEF Types, CtlCmd, Written, Writes
<1>2. \A c \in Conn \ {d} : Leaves(c)
  BY DEF Types, CtlCmd, Written, Leaves
<1> QED
  BY <1>1, <1>2

LEMMA PipeStep ==
    ASSUME Basics, [TPNext]_tpVars, NEW c \in Conn
    PROVE  /\ early \subseteq early'
           /\ \/ Leaves(c)
              \/ \E cmd \in Command : Fits(c, cmd) /\ Writes(c, cmd)
              \/ Handles(c)
              \/ Reads(c)
              \/ Ends(c)
<1> DEFINE Done == /\ early \subseteq early'
                   /\ \/ Leaves(c)
                      \/ \E cmd \in Command : Fits(c, cmd) /\ Writes(c, cmd)
                      \/ Handles(c)
                      \/ Reads(c)
                      \/ Ends(c)
<1> USE MessageAssumption
<1>0. ASSUME NEW d \in Conn, NEW cmd \in Command, CtlCmd(d, cmd), UNCHANGED <<up, replies>>,
             Fits(d, cmd)
      PROVE  Done
  <2>1. early \subseteq early'
    BY <1>0 DEF CtlCmd, Written
  <2> QED
    BY <1>0, <2>1, CtlCmdWrites DEF Basics
<1>1. ASSUME UNCHANGED <<pipeVars, early>> PROVE Done
  BY <1>1 DEF pipeVars, Leaves
<1> HIDE DEF Done
<1> USE DEF Message, Command, Fits
<1>2. ASSUME NEW m \in Message, Bypass(m) PROVE Done
  BY <1>2, <1>0 DEF Bypass
<1>3. ASSUME NEW m \in Message, TypeContent(m) PROVE Done
  BY <1>3, <1>0 DEF TypeContent
<1>4. ASSUME NEW m \in Message, TypeEnter(m) PROVE Done
  BY <1>4, <1>0 DEF TypeEnter
<1>5. ASSUME NEW p \in Paste, BufferLoaded(p) PROVE Done
  BY <1>5, <1>0 DEF BufferLoaded
<1>6. ASSUME NEW p \in Paste, PressEnter(p) PROVE Done
  BY <1>6, <1>0 DEF PressEnter
<1>7. ASSUME NEW d \in Conn, HandleReply(d) PROVE Done
  BY <1>7 DEF HandleReply, Handles, Leaves, Done, Basics, Types
<1>8. ASSUME NEW d \in Conn, TmuxReads(d) PROVE Done
  BY <1>8 DEF TmuxReads, Performs, Refuses, Reads, Leaves, Done, Basics, Types
<1>9. ASSUME NEW d \in Conn, ConnectionEnds(d) PROVE Done
  BY <1>9 DEF ConnectionEnds, Ends, Leaves, Done, Basics, Types
<1>10. ASSUME UNCHANGED tpVars PROVE Done
  BY <1>1, <1>10 DEF tpVars, pipeVars
<1>11. ASSUME NEW m \in Message, Type(m) \/ PasteText(m) PROVE Done
  BY <1>1, <1>11 DEF Type, PasteText
<1>12. ASSUME NEW p \in Paste, StartPaste(p) \/ LoaderFails(p) \/ PasteTimesOut(p) PROVE Done
  BY <1>1, <1>12 DEF StartPaste, LoaderFails, PasteTimesOut
<1>13. ASSUME PaneDies PROVE Done
  BY <1>1, <1>13 DEF PaneDies
<1> QED
  BY <1>2, <1>3, <1>4, <1>5, <1>6, <1>7, <1>8, <1>9, <1>10, <1>11, <1>12, <1>13 DEF TPNext, Done
-----------------------------------------------------------------------------
LEMMA FittingStep == ASSUME Basics, [TPNext]_tpVars PROVE Fitting'
<1> SUFFICES ASSUME NEW c \in Conn
             PROVE  /\ \A i \in 1..Len(cmds'[c]) : Fits(c, cmds'[c][i])
                    /\ \A i \in 1..Len(waiting'[c]) : Fits(c, waiting'[c][i])
  BY DEF Fitting
<1>0. /\ cmds[c] \in Seq(Command) /\ waiting[c] \in Seq(Command)
      /\ \A i \in 1..Len(cmds[c]) : Fits(c, cmds[c][i])
      /\ \A i \in 1..Len(waiting[c]) : Fits(c, waiting[c][i])
  BY DEF Basics, Types, Fitting
<1> HIDE DEF Fits, Command
<1>1. CASE Leaves(c)
  BY <1>0, <1>1 DEF Leaves
<1>2. ASSUME NEW cmd \in Command, Fits(c, cmd), Writes(c, cmd)
      PROVE  /\ \A i \in 1..Len(cmds'[c]) : Fits(c, cmds'[c][i])
             /\ \A i \in 1..Len(waiting'[c]) : Fits(c, waiting'[c][i])
  <2>1. \/ cmds'[c] = cmds[c]
        \/ cmds'[c] = Append(cmds[c], cmd)
    BY <1>2 DEF Writes
  <2>2. \A i \in 1..Len(cmds'[c]) : Fits(c, cmds'[c][i])
    BY <1>0, <1>2, <2>1, WasThere
  <2>3. waiting'[c] = Append(waiting[c], cmd)
    BY <1>2 DEF Writes
  <2>4. \A i \in 1..Len(waiting'[c]) : Fits(c, waiting'[c][i])
    BY <1>0, <1>2, <2>3, WasThere
  <2> QED
    BY <2>2, <2>4
<1>3. CASE Handles(c)
  BY <1>0, <1>3, WasThere DEF Handles
<1>4. CASE Reads(c)
  <2>1. cmds[c] # <<>> /\ cmds'[c] = Tail(cmds[c]) /\ waiting'[c] = waiting[c]
    BY <1>4 DEF Reads
  <2> QED
    BY <1>0, <2>1, WasThere
<1>5. CASE Ends(c)
  BY <1>0, <1>5 DEF Ends
<1> QED
  BY <1>1, <1>2, <1>3, <1>4, <1>5, PipeStep

\* The replies stay paired with their commands, or late by one, when a command
\* is written, answered, and its answer handled.
LEMMA MovesOver == \A m, n \in Nat : (m + 1) + (n - 1) = m + n
  OBVIOUS

LEMMA ShiftedWhenWritten ==
    ASSUME NEW d \in {0, 1}, NEW w \in Seq(Command), NEW q \in Seq(Command), NEW r \in Seq(Reply),
           Shifted(w, r, q, d), NEW x
    PROVE  Shifted(Append(w, x), r, Append(q, x), d)
<1> HIDE DEF Command, Reply
<1> USE DEF Shifted, Nth
<1>1. Len(Append(w, x)) = Len(w) + 1 /\ Len(Append(q, x)) = Len(q) + 1
  BY Elements
<1>2. ASSUME NEW i \in 1..(Len(w) + 1) PROVE Append(w, x)[i] = Nth(r, Append(q, x), i + d)
  <2>1. CASE i = Len(w) + 1
    <3>1. Append(w, x)[i] = x /\ Append(q, x)[Len(q) + 1] = x
      BY <2>1, Elements
    <3> QED
      BY <2>1, <3>1, <1>1
  <2>2. CASE i \leq Len(w) /\ i + d \leq Len(r)
    BY <2>2, Elements
  <2>3. CASE i \leq Len(w) /\ i + d > Len(r)
    <3>1. i + d - Len(r) \in 1..Len(q) /\ i \in 1..Len(w)
      BY <2>3
    <3>2. Append(q, x)[i + d - Len(r)] = q[i + d - Len(r)] /\ Append(w, x)[i] = w[i]
      BY <3>1, Elements
    <3> QED
      BY <2>3, <3>1, <3>2
  <2> QED
    BY <2>1, <2>2, <2>3
<1>3. Len(Append(w, x)) + d = Len(r) + Len(Append(q, x))
  <2>1. Len(w) + d = Len(r) + Len(q) /\ Len(w) \in Nat /\ Len(r) \in Nat /\ Len(q) \in Nat
    OBVIOUS
  <2>2. \A k, l, m \in Nat : k + d = l + m => (k + 1) + d = l + (m + 1)
    OBVIOUS
  <2>3. (Len(w) + 1) + d = Len(r) + (Len(q) + 1)
    BY <2>1, <2>2
  <2> QED
    BY <1>1, <2>3, Zenon
<1>4. \A i \in 1..Len(Append(w, x)) : Append(w, x)[i] = Nth(r, Append(q, x), i + d)
  <2> HIDE DEF Nth
  <2> QED
    BY <1>1, <1>2
<1> QED
  BY <1>3, <1>4, Zenon

LEMMA ShiftedWhenRead ==
    ASSUME NEW d \in {0, 1}, NEW w \in Seq(Command), NEW q \in Seq(Command), NEW r \in Seq(Reply),
           Shifted(w, r, q, d), q # <<>>, NEW ok \in BOOLEAN
    PROVE  Shifted(w, Append(r, [ok |-> ok, to |-> Head(q)]), Tail(q), d)
<1> HIDE DEF Command, Reply
<1> USE DEF Shifted, Nth
<1> DEFINE e == [ok |-> ok, to |-> Head(q)]
<1>1. /\ Len(Append(r, e)) = Len(r) + 1 /\ Len(Tail(q)) = Len(q) - 1 /\ e.to = q[1] /\ Len(q) > 0
      /\ Len(r) \in Nat /\ Len(q) \in Nat /\ Len(w) \in Nat
  BY Elements
<1>2. /\ Append(r, e)[Len(r) + 1] = e
      /\ \A i \in 1..Len(r) : Append(r, e)[i] = r[i]
      /\ \A i \in 1..(Len(q) - 1) : Tail(q)[i] = q[i + 1]
  BY Elements
<1> HIDE DEF e
<1>3. ASSUME NEW i \in 1..Len(w) PROVE w[i] = Nth(Append(r, e), Tail(q), i + d)
  <2>1. CASE i + d \leq Len(r)
    BY <1>1, <1>2, <2>1
  <2>2. CASE i + d = Len(r) + 1
    BY <1>1, <1>2, <2>2
  <2>3. CASE i + d > Len(r) + 1
    <3>1. i + d - (Len(r) + 1) \in 1..(Len(q) - 1)
      BY <2>3
    <3>2. Tail(q)[i + d - (Len(r) + 1)] = q[i + d - Len(r)]
      BY <3>1, <1>2
    <3> QED
      BY <1>1, <2>3, <3>2
  <2> QED
    BY <2>1, <2>2, <2>3
<1>4. Len(w) + d = Len(r) + Len(q)
  OBVIOUS
<1> HIDE DEF Shifted, Nth
<1>5. Len(w) + d = Len(Append(r, e)) + Len(Tail(q))
  BY <1>1, <1>4, MovesOver
<1>6. Shifted(w, Append(r, e), Tail(q), d)
  BY <1>3, <1>5 DEF Shifted
<1> QED
  BY <1>6 DEF e

LEMMA ShiftedWhenHandled ==
    ASSUME NEW d \in {0, 1}, NEW w \in Seq(Command), NEW q \in Seq(Command), NEW r \in Seq(Reply),
           Shifted(w, r, q, d), r # <<>>
    PROVE  /\ w # <<>> => Shifted(Tail(w), Tail(r), q, d)
           /\ w = <<>> => d = 1 /\ Len(r) = 1 /\ q = <<>> /\ Shifted(w, Tail(r), q, 0)
<1> HIDE DEF Command, Reply
<1> USE DEF Shifted, Nth
<1>1. Len(Tail(r)) = Len(r) - 1 /\ Len(r) > 0 /\ (w # <<>> <=> Len(w) > 0) /\ (q # <<>> <=> Len(q) > 0)
  BY Elements
<1>2. ASSUME w # <<>> PROVE Shifted(Tail(w), Tail(r), q, d)
  <2>1. Len(Tail(w)) = Len(w) - 1 /\ \A i \in 1..(Len(w) - 1) : Tail(w)[i] = w[i + 1]
    BY <1>2, Elements
  <2>2. \A i \in 1..(Len(r) - 1) : Tail(r)[i] = r[i + 1]
    BY Elements
  <2>3. ASSUME NEW i \in 1..Len(Tail(w)) PROVE Tail(w)[i] = Nth(Tail(r), q, i + d)
    BY <1>1, <2>1, <2>2
  <2> QED
    BY <1>1, <2>1, <2>3
<1>3. ASSUME w = <<>> PROVE d = 1 /\ Len(r) = 1 /\ q = <<>> /\ Shifted(w, Tail(r), q, 0)
  BY <1>1, <1>3, Elements
<1> QED
  BY <1>2, <1>3

LEMMA PairedStep == ASSUME Basics, Paired, [TPNext]_tpVars PROVE Paired'
<1> SUFFICES ASSUME NEW c \in Conn
             PROVE  IF c \in up'
                    THEN \/ Late(c, 0)'
                         \/ Late(c, 1)' /\ (c \in early' \/ (Ungreeted(c)' /\ Outstanding(c)' = 1))
                    ELSE cmds'[c] = <<>> /\ replies'[c] = <<>>
  BY DEF Paired
<1> DEFINE P == IF c \in up
                THEN \/ Late(c, 0)
                     \/ Late(c, 1) /\ (c \in early \/ (Ungreeted(c) /\ Outstanding(c) = 1))
                ELSE cmds[c] = <<>> /\ replies[c] = <<>>
<1>0. /\ cmds[c] \in Seq(Command) /\ waiting[c] \in Seq(Command) /\ replies[c] \in Seq(Reply)
      /\ P
  BY DEF Basics, Types, Paired
<1>e. early \subseteq early'
  BY PipeStep
<1> HIDE DEF Command, Reply
<1>1. CASE Leaves(c)
  BY <1>0, <1>1, <1>e DEF Leaves, Late, Outstanding, Ungreeted
<1>2. ASSUME NEW cmd \in Command, Writes(c, cmd) PROVE P'
  <2>1. CASE c \notin up
    BY <1>0, <1>2, <2>1 DEF Writes
  <2>2. ASSUME c \in up, NEW d \in {0, 1}, Late(c, d) PROVE Late(c, d)'
    BY <1>0, <1>2, <2>2, ShiftedWhenWritten DEF Writes, Late
  <2> QED
    BY <1>0, <1>2, <1>e, <2>1, <2>2 DEF Writes
<1>3. CASE Handles(c)
  <2>1. c \in up
    BY <1>0, <1>3 DEF Handles
  <2>2. CASE Late(c, 0)
    BY <1>0, <1>3, <2>1, <2>2, ShiftedWhenHandled DEF Handles, Late
  <2>3. CASE Late(c, 1) /\ waiting[c] = <<>>
    <3>1. Shifted(waiting[c], Tail(replies[c]), cmds[c], 0)
      BY <1>0, <1>3, <2>3, ShiftedWhenHandled DEF Handles, Late
    <3>2. Late(c, 0)'
      BY <1>3, <2>3, <3>1 DEF Handles, Late
    <3> QED
      BY <1>3, <2>1, <3>2 DEF Handles
  <2>4. CASE Late(c, 1) /\ waiting[c] # <<>>
    <3>1. c \in early \/ Len(waiting[c]) = 0
      <4>1. ~Late(c, 0)
        <5>1. Len(waiting[c]) \in Nat /\ Len(replies[c]) \in Nat /\ Len(cmds[c]) \in Nat
          BY <1>0, Elements
        <5> QED
          BY <2>4, <5>1, Len(waiting[c]) + 0 # Len(waiting[c]) + 1 DEF Late, Shifted
      <4>2. CASE Outstanding(c) = 1
        <5>1. Len(waiting[c]) \in Nat /\ Len(waiting[c]) + 1 = 1
          BY <1>0, <2>4, <4>2, Elements DEF Late, Shifted, Outstanding
        <5> QED
          BY <5>1
      <4> QED
        BY <1>0, <2>1, <4>1, <4>2
    <3>2. c \in early
      <4>1. Len(waiting[c]) # 0
        BY <1>0, <2>4, Elements
      <4> QED
        BY <3>1, <4>1
    <3>3. Late(c, 1)'
      BY <1>0, <1>3, <2>1, <2>4, ShiftedWhenHandled DEF Handles, Late
    <3> QED
      BY <1>3, <1>e, <2>1, <3>2, <3>3 DEF Handles
  <2> QED
    BY <1>0, <2>1, <2>2, <2>3, <2>4
<1>4. CASE Reads(c)
  <2>1. c \in up
    BY <1>0, <1>4 DEF Reads
  <2>2. Outstanding(c)' = Outstanding(c) /\ (Ungreeted(c) => Ungreeted(c)')
    <3>1. PICK ok \in BOOLEAN : replies'[c] = Append(replies[c], [ok |-> ok, to |-> Head(cmds[c])])
      BY <1>4 DEF Reads
    <3>2. Len(replies'[c]) = Len(replies[c]) + 1 /\ Len(cmds'[c]) = Len(cmds[c]) - 1
      BY <1>0, <1>4, <3>1, Elements DEF Reads
    <3>3. replies[c] # <<>> => replies'[c] # <<>> /\ Head(replies'[c]) = Head(replies[c])
      BY <1>0, <3>1, Elements
    <3> QED
      <4>1. Len(replies[c]) \in Nat /\ Len(cmds[c]) \in Nat
        BY <1>0, Elements
      <4>2. Outstanding(c)' = Outstanding(c)
        BY <3>2, <4>1, MovesOver DEF Outstanding
      <4> QED
        BY <3>3, <4>2 DEF Ungreeted
  <2>3. ASSUME NEW d \in {0, 1}, Late(c, d) PROVE Late(c, d)'
    BY <1>0, <1>4, <2>3, ShiftedWhenRead DEF Reads, Late
  <2> QED
    BY <1>0, <1>4, <1>e, <2>1, <2>2, <2>3 DEF Reads
<1>5. CASE Ends(c)
  BY <1>5 DEF Ends
<1> QED
  BY <1>1, <1>2, <1>3, <1>4, <1>5, PipeStep
-----------------------------------------------------------------------------
\* What a reply does to the paste whose command waits longest.
LEMMA ReplyMoves ==
    ASSUME Basics, NEW c \in Conn, HandleReply(c)
    PROVE  \/ /\ UNCHANGED <<step, queue, told>>
              /\ waiting[c] # <<>> => Head(waiting[c]).of \notin Paste
           \/ \E p \in Paste :
                /\ waiting[c] # <<>> /\ Head(waiting[c]).of = p /\ From[p] = c
                /\ \/ /\ Head(waiting[c]).op = "paste" /\ step[p] = "pasting" /\ Head(replies[c]).ok
                      /\ step' = [step EXCEPT ![p] = "pausing"] /\ UNCHANGED <<queue, told>>
                   \/ /\ Head(waiting[c]).op = "enter" /\ step[p] = "entering" /\ Head(replies[c]).ok
                      /\ step' = [step EXCEPT ![p] = "over"] /\ Confirm(p)
                   \/ /\ step[p] \in {"pasting", "entering"} /\ ~Head(replies[c]).ok
                      /\ step' = [step EXCEPT ![p] = "over"] /\ Fail(p)
<1>1. CASE waiting[c] = <<>>
  BY <1>1 DEF HandleReply
<1>2. CASE waiting[c] # <<>>
  <2> DEFINE cmd == Head(waiting[c])
  <2>1. waiting[c] \in Seq(Command) /\ replies[c] \in Seq(Reply) /\ WaitsAt(c)
    BY DEF Basics, Types, Waits
  <2>2. cmd \in Command /\ cmd = waiting[c][1] /\ 1 \in 1..Len(waiting[c]) /\ Fits(c, cmd)
    BY <1>2, <2>1, Sequences, Elements DEF Basics, Fitting
  <2>3. IF Head(replies[c]).ok THEN Confirmed(cmd) ELSE Refused(cmd)
    BY <1>2 DEF HandleReply
  <2> HIDE DEF cmd
  <2>4. CASE cmd.of \notin Paste
    BY <2>3, <2>4 DEF Confirmed, Refused, cmd
  <2>5. CASE cmd.of \in Paste
    <3>1. \/ cmd.op = "paste" /\ step[cmd.of] = "pasting"
          \/ cmd.op = "enter" /\ step[cmd.of] = "entering"
      BY <2>1, <2>2, <2>5 DEF WaitsAt, Awaited
    <3>2. From[cmd.of] = c
      BY <2>2 DEF Fits
    <3>3. CASE ~Head(replies[c]).ok
      BY <1>2, <2>3, <2>5, <3>1, <3>2, <3>3 DEF Refused, cmd
    <3>4. CASE Head(replies[c]).ok /\ cmd.op = "paste"
      BY <1>2, <2>3, <2>5, <3>1, <3>2, <3>4 DEF Confirmed, HoldQueue, cmd
    <3>5. CASE Head(replies[c]).ok /\ cmd.op = "enter"
      BY <1>2, <2>3, <2>5, <3>1, <3>2, <3>5 DEF Confirmed, cmd
    <3> QED
      BY <3>1, <3>3, <3>4, <3>5
  <2> QED
    BY <2>4, <2>5
<1> QED
  BY <1>1, <1>2

LEMMA NamedStep == ASSUME Basics, [TPNext]_tpVars PROVE Named'
<1> USE MessageAssumption DEF Message, Basics, Types, Named
<1>1. ASSUME NEW m \in Message, Type(m) PROVE Named'
  BY <1>1 DEF Type
<1>2. ASSUME NEW m \in Message, PasteText(m) PROVE Named'
  <2>1. /\ m \in Paste \ sent /\ sent' = sent \cup {m} /\ pasteSeq' = pasteSeq + 1
        /\ \A p \in Paste : /\ name'[p] = IF p = m THEN pasteSeq + 1 ELSE name[p]
                            /\ p # m => step'[p] = step[p]
        /\ buffer' = buffer
    BY <1>2 DEF PasteText, NextName
  <2>2. ASSUME NEW p \in Paste
        PROVE  /\ name'[p] \leq pasteSeq' /\ (p \in sent' <=> name'[p] # 0)
               /\ (step'[p] # "new" => p \in sent')
    BY <2>1
  <2>3. ASSUME NEW p \in Paste, NEW q \in Paste, name'[p] = name'[q], name'[p] # 0 PROVE p = q
    <3>1. \A r \in Paste : name[r] \in Nat /\ name[r] < pasteSeq + 1
      OBVIOUS
    <3>2. CASE p # m /\ q # m
      BY <2>1, <2>3, <3>2
    <3>3. CASE p = m \/ q = m
      BY <2>1, <2>3, <3>1, <3>3
    <3> QED
      BY <3>2, <3>3
  <2>4. ASSUME NEW n \in DOMAIN buffer' PROVE n # 0 /\ buffer'[n] \in Paste /\ name'[buffer'[n]] = n
    BY <2>1, <2>4
  <2> QED
    BY <2>2, <2>3, <2>4
<1>3. ASSUME NEW m \in Message, Bypass(m) PROVE Named'
  BY <1>3 DEF Bypass
<1>4. ASSUME NEW m \in Message, TypeContent(m) PROVE Named'
  BY <1>4 DEF TypeContent
<1>5. ASSUME NEW m \in Message, TypeEnter(m) PROVE Named'
  BY <1>5 DEF TypeEnter, InTurn
<1>6. ASSUME NEW p \in Paste, StartPaste(p) PROVE Named'
  BY <1>6 DEF StartPaste, queueVars
<1>7. ASSUME NEW p \in Paste, BufferLoaded(p) PROVE Named'
  BY <1>7 DEF BufferLoaded, Stored, queueVars
<1>8. ASSUME NEW p \in Paste, LoaderFails(p) PROVE Named'
  BY <1>8 DEF LoaderFails
<1>9. ASSUME NEW p \in Paste, PasteTimesOut(p) PROVE Named'
  BY <1>9 DEF PasteTimesOut, Stored
<1>10. ASSUME NEW p \in Paste, PressEnter(p) PROVE Named'
  BY <1>10 DEF PressEnter, queueVars
<1>11. ASSUME NEW c \in Conn, HandleReply(c) PROVE Named'
  <2>1. UNCHANGED <<sent, pasteSeq, name, buffer>>
    BY <1>11 DEF HandleReply
  <2>2. \A p \in Paste : step'[p] # "new" => step[p] # "new"
    <3>1. \/ step' = step
          \/ \E q \in Paste : step[q] # "new" /\ \E s \in Steps : step' = [step EXCEPT ![q] = s]
      BY <1>11, ReplyMoves DEF Steps
    <3> QED
      BY <3>1
  <2> QED
    BY <2>1, <2>2
<1>12. ASSUME NEW c \in Conn, TmuxReads(c) PROVE Named'
  BY <1>12 DEF TmuxReads, Performs, Refuses, queueVars
<1>13. ASSUME NEW c \in Conn, ConnectionEnds(c) PROVE Named'
  BY <1>13 DEF ConnectionEnds, queueVars
<1>14. CASE PaneDies
  BY <1>14 DEF PaneDies, queueVars
<1>15. CASE UNCHANGED tpVars
  BY <1>15 DEF tpVars
<1> QED
  BY <1>1, <1>2, <1>3, <1>4, <1>5, <1>6, <1>7, <1>8, <1>9, <1>10, <1>11, <1>12, <1>13, <1>14,
     <1>15 DEF TPNext
\* A step of message m, and the command it writes, leave the other entries.
LEMMA StillWaits ==
    ASSUME Basics, NEW c \in Conn, NEW m \in Message,
           \A n \in Message \ {m} : step'[n] = step[n],
           m \in Paste => step[m] \notin {"pasting", "entering"},
           \/ waiting'[c] = waiting[c]
           \/ \E cmd \in Command :
                /\ waiting'[c] = Append(waiting[c], cmd) /\ cmd.of = m
                /\ m \in Paste => Awaited(cmd.op, step'[m])
    PROVE  WaitsAt(c)'
<1>1. waiting[c] \in Seq(Command) /\ WaitsAt(c)
  BY DEF Basics, Types, Waits
<1>2. \A i \in 1..Len(waiting[c]) : waiting[c][i].of \in Message
                                   /\ (waiting[c][i].of = m => m \notin Paste)
  <2>1. \A i \in 1..Len(waiting[c]) : waiting[c][i] \in Command
    BY <1>1
  <2> QED
    BY <1>1, <2>1 DEF WaitsAt, Command, Awaited
<1>3. CASE waiting'[c] = waiting[c]
  BY <1>1, <1>2, <1>3 DEF WaitsAt
<1>4. ASSUME NEW cmd \in Command, waiting'[c] = Append(waiting[c], cmd), cmd.of = m,
             m \in Paste => Awaited(cmd.op, step'[m])
      PROVE  WaitsAt(c)'
  <2>1. /\ Len(waiting'[c]) = Len(waiting[c]) + 1 /\ waiting'[c][Len(waiting[c]) + 1] = cmd
        /\ \A i \in 1..Len(waiting[c]) : waiting'[c][i] = waiting[c][i]
        /\ Len(waiting[c]) \in Nat
    BY <1>1, <1>4, Elements
  <2>2. \A i \in 1..Len(waiting'[c]) : i \in 1..Len(waiting[c]) \/ i = Len(waiting[c]) + 1
    BY <2>1
  <2> QED
    BY <1>1, <1>2, <1>4, <2>1, <2>2 DEF WaitsAt
<1> QED
  BY <1>3, <1>4

\* So does losing the first entry, when the others' messages do not move.
LEMMA WaitsKept ==
    ASSUME NEW c \in Conn, WaitsAt(c), waiting[c] \in Seq(Command), NEW k \in {0, 1},
           Len(waiting'[c]) + k = Len(waiting[c]),
           \A i \in 1..Len(waiting'[c]) :
             /\ i + k \in 1..Len(waiting[c]) /\ waiting'[c][i] = waiting[c][i + k]
             /\ step'[waiting[c][i + k].of] = step[waiting[c][i + k].of]
    PROVE  WaitsAt(c)'
<1> SUFFICES ASSUME NEW i \in 1..Len(waiting'[c]), waiting'[c][i].of \in Paste
             PROVE  /\ Awaited(waiting'[c][i].op, step'[waiting'[c][i].of])
                    /\ \A j \in 1..Len(waiting'[c]) : waiting'[c][j].of = waiting'[c][i].of => i = j
  BY DEF WaitsAt
<1>1. i + k \in 1..Len(waiting[c]) /\ waiting'[c][i] = waiting[c][i + k]
  OBVIOUS
<1>2. ASSUME NEW j \in 1..Len(waiting'[c]), waiting'[c][j].of = waiting'[c][i].of PROVE i = j
  <2>1. j + k \in 1..Len(waiting[c]) /\ waiting'[c][j] = waiting[c][j + k]
    OBVIOUS
  <2>2. i + k = j + k
    BY <1>1, <1>2, <2>1 DEF WaitsAt
  <2> QED
    BY <2>2
<1> QED
  BY <1>1, <1>2 DEF WaitsAt

LEMMA WaitsStep == ASSUME Basics, [TPNext]_tpVars PROVE Waits'
<1> SUFFICES ASSUME NEW c \in Conn PROVE WaitsAt(c)'
  BY DEF Waits
<1>0. WaitsAt(c) /\ waiting \in [Conn -> Seq(Command)] /\ step \in [Message -> Steps]
  BY DEF Basics, Types, Waits
<1> USE MessageAssumption
<1>1. ASSUME UNCHANGED <<step, waiting>> PROVE WaitsAt(c)'
  BY <1>0, <1>1 DEF WaitsAt
<1>2. ASSUME NEW m \in Message, Type(m) \/ PasteText(m) PROVE WaitsAt(c)'
  <2>1. m \in Paste => step[m] = "new"
    BY <1>2 DEF PasteText, Type, Basics, Named
  <2>2. waiting' = waiting /\ \A n \in Message \ {m} : step'[n] = step[n]
    BY <1>0, <1>2 DEF PasteText, Type, pipeVars
  <2> QED
    BY <2>1, <2>2, StillWaits
<1>3. ASSUME NEW m \in Message, Bypass(m) \/ TypeContent(m) \/ TypeEnter(m) PROVE WaitsAt(c)'
  <2>1. m \notin Paste
    BY <1>3 DEF Bypass, TypeContent, TypeEnter, Basics, InTurn
  <2>2. \A n \in Message \ {m} : step'[n] = step[n]
    BY <1>0, <1>3 DEF Bypass, TypeContent, TypeEnter
  <2>3. PICK op \in {"keys", "enter", "tap", "resize"} : CtlCmd(From[m], [op |-> op, of |-> m])
    BY <1>3 DEF Bypass, TypeContent, TypeEnter
  <2>4. [op |-> op, of |-> m] \in Command /\ [op |-> op, of |-> m].of = m
    BY DEF Command
  <2>5. waiting'[c] = waiting[c] \/ waiting'[c] = Append(waiting[c], [op |-> op, of |-> m])
    BY <1>0, <2>3 DEF CtlCmd
  <2> QED
    BY <2>1, <2>2, <2>4, <2>5, StillWaits
<1>4. ASSUME NEW p \in Paste, StartPaste(p) \/ LoaderFails(p) \/ PasteTimesOut(p) PROVE WaitsAt(c)'
  <2>1. CASE UNCHANGED <<step, waiting>>
    BY <1>1, <2>1
  <2>2. CASE ~UNCHANGED <<step, waiting>>
    <3>1. step[p] \in {"queued", "loading"} /\ waiting' = waiting
      BY <1>4, <2>2 DEF StartPaste, LoaderFails, PasteTimesOut, pipeVars
    <3>2. \A n \in Message \ {p} : step'[n] = step[n]
      BY <1>0, <1>4 DEF StartPaste, LoaderFails, PasteTimesOut
    <3> QED
      BY <3>1, <3>2, StillWaits DEF Message
  <2> QED
    BY <2>1, <2>2
<1>5. ASSUME NEW p \in Paste, BufferLoaded(p) \/ PressEnter(p) PROVE WaitsAt(c)'
  <2>1. PICK op \in {"paste", "enter"} :
           /\ CtlCmd(From[p], [op |-> op, of |-> p])
           /\ op = "paste" => step' = [step EXCEPT ![p] = "pasting"]
           /\ op = "enter" => step' = [step EXCEPT ![p] = "entering"]
           /\ step[p] \in {"loading", "pausing"}
    BY <1>5 DEF BufferLoaded, PressEnter
  <2>2. p \in Message /\ [op |-> op, of |-> p] \in Command /\ [op |-> op, of |-> p].of = p
        /\ [op |-> op, of |-> p].op = op
    BY DEF Command, Message
  <2>3. waiting'[c] = waiting[c] \/ waiting'[c] = Append(waiting[c], [op |-> op, of |-> p])
    BY <1>0, <2>1 DEF CtlCmd
  <2>4. /\ \A n \in Message \ {p} : step'[n] = step[n]
        /\ op = "paste" => step'[p] = "pasting"
        /\ op = "enter" => step'[p] = "entering"
    BY <1>0, <2>1, <2>2
  <2> DEFINE cmd == [op |-> op, of |-> p]
  <2>5. cmd \in Command /\ cmd.of = p /\ cmd.op = op
    BY <2>2
  <2>6. waiting'[c] = waiting[c] \/ waiting'[c] = Append(waiting[c], cmd)
    BY <2>3
  <2> HIDE DEF cmd
  <2>7. Awaited(cmd.op, step'[p])
    BY <2>4, <2>5 DEF Awaited
  <2>8. step[p] \notin {"pasting", "entering"}
    BY <2>1
  <2>9. \/ waiting'[c] = waiting[c]
        \/ \E x \in Command :
             /\ waiting'[c] = Append(waiting[c], x) /\ x.of = p
             /\ p \in Paste => Awaited(x.op, step'[p])
    BY <2>5, <2>6, <2>7
  <2>10. p \in Message
    BY <2>2
  <2> QED
    BY <2>4, <2>8, <2>9, <2>10, StillWaits
<1>6. ASSUME NEW d \in Conn, HandleReply(d) PROVE WaitsAt(c)'
  <2>0. waiting[d] \in Seq(Command) /\ waiting[c] \in Seq(Command)
    BY <1>0
  <2>1. CASE UNCHANGED step /\ (waiting[d] # <<>> => Head(waiting[d]).of \notin Paste)
    <3>1. CASE waiting'[c] = waiting[c]
      BY <1>0, <2>1, <3>1 DEF WaitsAt
    <3>2. CASE waiting[c] # <<>> /\ waiting'[c] = Tail(waiting[c])
      <4>1. /\ Len(waiting'[c]) + 1 = Len(waiting[c])
            /\ \A i \in 1..Len(waiting'[c]) : i + 1 \in 1..Len(waiting[c])
                                           /\ waiting'[c][i] = waiting[c][i + 1]
        BY <2>0, <3>2, Elements
      <4> QED
        BY <1>0, <2>0, <2>1, <4>1, WaitsKept
    <3> QED
      BY <1>0, <1>6, <3>1, <3>2 DEF HandleReply
  <2>2. ASSUME NEW p \in Paste, waiting[d] # <<>>, Head(waiting[d]).of = p, From[p] = d,
               \A n \in Message \ {p} : step'[n] = step[n]
        PROVE  WaitsAt(c)'
    <3>1. CASE c # d
      <4>1. waiting'[c] = waiting[c]
        BY <1>0, <1>6, <2>2, <3>1 DEF HandleReply
      <4>2. \A i \in 1..Len(waiting[c]) : waiting[c][i].of \in Message /\ waiting[c][i].of # p
        BY <2>0, <2>2, <3>1, OfMessages DEF Basics, Fitting, Fits
      <4>3. Len(waiting'[c]) + 0 = Len(waiting[c]) /\ \A i \in 1..Len(waiting[c]) : i + 0 = i
        BY <2>0, <4>1, Elements
      <4> QED
        BY <1>0, <2>0, <2>2, <4>1, <4>2, <4>3, WaitsKept
    <3>2. CASE c = d
      <4>1. waiting'[c] = Tail(waiting[c])
        BY <1>0, <1>6, <2>2, <3>2 DEF HandleReply
      <4>2. /\ Len(waiting'[c]) + 1 = Len(waiting[c]) /\ Len(waiting[c]) > 0
            /\ \A i \in 1..Len(waiting'[c]) : i + 1 \in 1..Len(waiting[c])
                                           /\ waiting'[c][i] = waiting[c][i + 1]
            /\ Head(waiting[c]) = waiting[c][1] /\ Len(waiting[c]) \in Nat
        BY <2>0, <2>2, <3>2, <4>1, Elements
      <4>3. \A i \in 1..Len(waiting[c]) : waiting[c][i].of \in Message
        BY <2>0, OfMessages
      <4>4. \A i \in 1..Len(waiting[c]) : waiting[c][i].of = p => i = 1
        BY <1>0, <2>2, <3>2, <4>2 DEF WaitsAt
      <4> QED
        <5>1. \A i \in 1..Len(waiting'[c]) : waiting[c][i + 1].of \in Message \ {p}
          BY <4>2, <4>3, <4>4
        <5> QED
          BY <1>0, <2>0, <2>2, <4>2, <5>1, WaitsKept
    <3> QED
      BY <3>1, <3>2
  <2>3. \/ UNCHANGED step /\ (waiting[d] # <<>> => Head(waiting[d]).of \notin Paste)
        \/ \E p \in Paste : /\ waiting[d] # <<>> /\ Head(waiting[d]).of = p /\ From[p] = d
                           /\ \A n \in Message \ {p} : step'[n] = step[n]
    BY <1>0, <1>6, ReplyMoves
  <2> QED
    BY <2>1, <2>2, <2>3
<1>7. ASSUME NEW d \in Conn, TmuxReads(d) \/ ConnectionEnds(d) PROVE WaitsAt(c)'
  BY <1>7, <1>1 DEF TmuxReads, ConnectionEnds
<1>8. CASE PaneDies
  BY <1>8, <1>1 DEF PaneDies, pipeVars
<1>9. CASE UNCHANGED tpVars
  BY <1>9, <1>1 DEF tpVars
<1> QED
  BY <1>2, <1>3, <1>4, <1>5, <1>6, <1>7, <1>8, <1>9 DEF TPNext, Message
-----------------------------------------------------------------------------
\* What is told is never taken back.
LEMMA HeardWhenTold ==
    ASSUME Types, NEW p \in Paste, NEW x \in {"ack", "error"},
           told' = [told EXCEPT ![p] = Append(@, x)]
    PROVE  \A q \in Paste : \A what \in {"ack", "error"} :
             Heard(q, what)' <=> Heard(q, what) \/ (q = p /\ what = x)
<1> SUFFICES ASSUME NEW q \in Paste, NEW what \in {"ack", "error"}
             PROVE  Heard(q, what)' <=> Heard(q, what) \/ (q = p /\ what = x)
  OBVIOUS
<1>1. told[q] \in Seq({"ack", "error"}) /\ told'[q] = IF q = p THEN Append(told[q], x) ELSE told[q]
  BY DEF Types
<1>2. CASE q # p
  BY <1>1, <1>2 DEF Heard
<1>3. CASE q = p
  <2> DEFINE t == told[q]
  <2>1. t \in Seq({"ack", "error"})
    BY <1>1
  <2>2. /\ Len(Append(t, x)) = Len(t) + 1 /\ Append(t, x)[Len(t) + 1] = x /\ Len(t) \in Nat
        /\ \A i \in 1..Len(t) : Append(t, x)[i] = t[i]
    BY <2>1, Elements
  <2>3. Heard(q, what)' <=> \E i \in 1..(Len(t) + 1) : Append(t, x)[i] = what
    BY <1>1, <1>3, <2>2 DEF Heard
  <2>4. Heard(q, what) <=> \E i \in 1..Len(t) : t[i] = what
    BY DEF Heard
  <2> QED
    BY <1>3, <2>2, <2>3, <2>4
<1> QED
  BY <1>2, <1>3

LEMMA HeardStays ==
    ASSUME Types, NEW p \in Paste, Fail(p) \/ Confirm(p) \/ UNCHANGED told
    PROVE  \A q \in Paste : Heard(q, "error") => Heard(q, "error")'
<1>1. CASE UNCHANGED told
  BY <1>1 DEF Heard
<1>2. CASE ~UNCHANGED told
  <2>1. PICK x \in {"ack", "error"} : told' = [told EXCEPT ![p] = Append(@, x)]
    BY <1>2 DEF Fail, Confirm
  <2> QED
    BY <2>1, HeardWhenTold
<1> QED
  BY <1>1, <1>2

\* The queue moves for its first message only, and grows behind it.
LEMMA StillRunning ==
    ASSUME Types, NEW m \in Typed \cup Paste, NEW n \in Typed \cup Paste,
           \/ UNCHANGED queue
           \/ queue' = [queue EXCEPT ![From[m]] = Append(@, m)]
           \/ Running(m) /\ NextInQueue(From[m]) /\ n # m,
           Running(n)
    PROVE  Running(n)'
<1> USE MessageAssumption DEF Message
<1>1. CASE UNCHANGED queue
  BY <1>1 DEF Running
<1>2. CASE queue' = [queue EXCEPT ![From[m]] = Append(@, m)]
  <2>1. queue[From[n]] \in Seq(Typed \cup Paste) /\ From[m] \in Conn /\ From[n] \in Conn
    BY DEF Types
  <2>2. queue'[From[n]] = queue[From[n]] \/ queue'[From[n]] = Append(queue[From[n]], m)
    BY <1>2 DEF Types
  <2>3. Append(queue[From[n]], m) # <<>> /\ Head(Append(queue[From[n]], m)) = Head(queue[From[n]])
    BY <2>1, Elements DEF Running
  <2> QED
    BY <2>2, <2>3 DEF Running
<1>3. CASE Running(m) /\ NextInQueue(From[m]) /\ n # m
  <2>1. From[n] # From[m]
    BY <1>3 DEF Running
  <2> QED
    BY <1>3, <2>1 DEF Running, NextInQueue, Types
<1> QED
  BY <1>1, <1>2, <1>3

\* A step of message m leaves the turn of the others.
LEMMA TurnOfOthers ==
    ASSUME Basics, NEW m \in Message,
           \A n \in Message \ {m} : step'[n] = step[n],
           \/ UNCHANGED queue
           \/ m \in Typed \cup Paste /\ queue' = [queue EXCEPT ![From[m]] = Append(@, m)]
           \/ m \in Typed \cup Paste /\ Running(m) /\ NextInQueue(From[m]),
           \A q \in Paste : Heard(q, "error") => Heard(q, "error")',
           step'[m] = "typing" => m \in Typed /\ Running(m)',
           m \in Paste /\ step'[m] = "loading" => Running(m)',
           m \in Paste /\ step'[m] \in Open \cup {"entering"} => Running(m)' \/ Heard(m, "error")'
    PROVE  InTurn'
<1> USE MessageAssumption DEF Message
<1>1. ASSUME NEW n \in Typed \cup Paste, n # m, Running(n) PROVE Running(n)'
  <2>1. CASE UNCHANGED queue
    BY <1>1, <2>1 DEF Running
  <2> QED
    BY <1>1, <2>1, StillRunning DEF Basics
<1>2. ASSUME NEW n \in Message, step'[n] = "typing" PROVE n \in Typed /\ Running(n)'
  BY <1>1, <1>2 DEF Basics, InTurn
<1>3. ASSUME NEW p \in Paste, step'[p] = "loading" PROVE Running(p)'
  BY <1>1, <1>3 DEF Basics, InTurn
<1>4. ASSUME NEW p \in Paste, step'[p] \in Open \cup {"entering"}
      PROVE  Running(p)' \/ Heard(p, "error")'
  <2>1. CASE p = m
    BY <1>4, <2>1
  <2>2. CASE p # m
    BY <1>1, <1>4, <2>2 DEF Basics, InTurn
  <2> QED
    BY <2>1, <2>2
<1> QED
  BY <1>2, <1>3, <1>4 DEF InTurn
LEMMA FailMoves ==
    ASSUME Types, NEW p \in Paste, Fail(p) \/ Confirm(p)
    PROVE  UNCHANGED queue \/ (Running(p) /\ NextInQueue(From[p]))
  BY DEF Fail, Confirm, Unfinished, Running

LEMMA InTurnStep == ASSUME Basics, [TPNext]_tpVars PROVE InTurn'
<1> USE MessageAssumption DEF Message
<1>0. Types /\ InTurn /\ step \in [Message -> Steps]
  BY DEF Basics, Types
<1>1. ASSUME UNCHANGED <<step, queue, told>> PROVE InTurn'
  BY <1>0, <1>1 DEF InTurn, Running, Heard
<1>u. ASSUME UNCHANGED told PROVE \A q \in Paste : Heard(q, "error") => Heard(q, "error")'
  BY <1>u DEF Heard
<1>2. ASSUME NEW m \in Message, Type(m) \/ PasteText(m) PROVE InTurn'
  <2>1. step' = [step EXCEPT ![m] = "queued"] /\ m \in Typed \cup Paste /\ UNCHANGED told
        /\ queue' = [queue EXCEPT ![From[m]] = Append(@, m)]
    BY <1>2 DEF Type, PasteText
  <2>2. step'[m] = "queued" /\ \A n \in Message \ {m} : step'[n] = step[n]
    BY <1>0, <2>1
  <2> QED
    BY <1>u, <2>1, <2>2, TurnOfOthers DEF Open
<1>3. ASSUME NEW m \in Message, Bypass(m) PROVE InTurn'
  <2>1. step'[m] = "over" /\ (\A n \in Message \ {m} : step'[n] = step[n]) /\ UNCHANGED <<queue, told>>
    BY <1>0, <1>3 DEF Bypass
  <2> QED
    BY <1>u, <2>1, TurnOfOthers DEF Open
<1>4. ASSUME NEW m \in Message, TypeContent(m) \/ TypeEnter(m) PROVE InTurn'
  <2>1. /\ m \in Typed /\ Running(m) /\ UNCHANGED told
        /\ \/ step' = [step EXCEPT ![m] = "typing"] /\ UNCHANGED queue
           \/ step' = [step EXCEPT ![m] = "over"] /\ NextInQueue(From[m])
    BY <1>0, <1>4 DEF TypeContent, TypeEnter, InTurn
  <2>2. /\ \A n \in Message \ {m} : step'[n] = step[n]
        /\ \/ step'[m] = "typing" /\ Running(m)'
           \/ step'[m] = "over"
    BY <1>0, <2>1 DEF Running
  <2> QED
    BY <1>u, <2>1, <2>2, TurnOfOthers DEF Open
<1>5. ASSUME NEW p \in Paste, StartPaste(p) PROVE InTurn'
  <2>1. /\ step'[p] = "loading" /\ UNCHANGED <<queue, told>> /\ Running(p)
        /\ \A n \in Message \ {p} : step'[n] = step[n]
    BY <1>0, <1>5 DEF StartPaste, queueVars
  <2>2. Running(p)'
    BY <2>1 DEF Running
  <2> QED
    BY <1>u, <2>1, <2>2, TurnOfOthers DEF Open
<1>6. ASSUME NEW p \in Paste, BufferLoaded(p) \/ PressEnter(p) PROVE InTurn'
  <2>1. /\ step'[p] \in {"pasting", "entering"} /\ UNCHANGED <<queue, told>>
        /\ \A n \in Message \ {p} : step'[n] = step[n]
        /\ Running(p) \/ Heard(p, "error")
    BY <1>0, <1>6 DEF BufferLoaded, PressEnter, queueVars, InTurn, Open
  <2>2. Running(p)' \/ Heard(p, "error")'
    BY <2>1, <1>u DEF Running
  <2> QED
    BY <1>u, <2>1, <2>2, TurnOfOthers DEF Open
<1>7. ASSUME NEW p \in Paste, step' = [step EXCEPT ![p] = "over"], Fail(p) \/ Confirm(p)
      PROVE  InTurn'
  <2>1. step'[p] = "over" /\ \A n \in Message \ {p} : step'[n] = step[n]
    BY <1>0, <1>7
  <2>2. \A q \in Paste : Heard(q, "error") => Heard(q, "error")'
    BY <1>0, <1>7, HeardStays
  <2> QED
    BY <1>0, <1>7, <2>1, <2>2, FailMoves, TurnOfOthers DEF Open
<1>8. ASSUME NEW p \in Paste, LoaderFails(p) PROVE InTurn'
  BY <1>7, <1>8 DEF LoaderFails
<1>9. ASSUME NEW p \in Paste, PasteTimesOut(p) PROVE InTurn'
  <2>1. CASE step[p] = "loading"
    BY <1>7, <1>9, <2>1 DEF PasteTimesOut
  <2>2. CASE step[p] # "loading"
    <3>1. UNCHANGED step /\ Fail(p) /\ told' = [told EXCEPT ![p] = Append(@, "error")]
      BY <1>9, <2>2 DEF PasteTimesOut, TimeOut, Fail
    <3>2. \A q \in Paste : Heard(q, "error") => Heard(q, "error")'
      BY <1>0, <3>1, HeardStays
    <3>3. Heard(p, "error")'
      BY <1>0, <3>1, HeardWhenTold
    <3>4. step[p] # "typing"
      BY <1>0 DEF InTurn
    <3> QED
      BY <1>0, <2>2, <3>1, <3>2, <3>3, <3>4, FailMoves, TurnOfOthers
  <2> QED
    BY <2>1, <2>2
<1>10. ASSUME NEW p \in Paste, step[p] = "pasting", step' = [step EXCEPT ![p] = "pausing"],
              UNCHANGED <<queue, told>>
       PROVE  InTurn'
  <2>1. step'[p] = "pausing" /\ \A n \in Message \ {p} : step'[n] = step[n]
    BY <1>0, <1>10
  <2>2. Running(p)' \/ Heard(p, "error")'
    BY <1>0, <1>10, <1>u DEF Running, InTurn, Open
  <2> QED
    BY <1>u, <1>10, <2>1, <2>2, TurnOfOthers DEF Open
<1>11. ASSUME NEW c \in Conn, HandleReply(c) PROVE InTurn'
  BY <1>1, <1>7, <1>10, <1>11, ReplyMoves
<1>12. ASSUME NEW c \in Conn, TmuxReads(c) \/ ConnectionEnds(c) PROVE InTurn'
  BY <1>1, <1>12 DEF TmuxReads, ConnectionEnds, queueVars
<1>13. CASE PaneDies
  BY <1>1, <1>13 DEF PaneDies, queueVars
<1>14. CASE UNCHANGED tpVars
  BY <1>1, <1>14 DEF tpVars
<1> QED
  BY <1>2, <1>3, <1>4, <1>5, <1>6, <1>8, <1>9, <1>11, <1>12, <1>13, <1>14 DEF TPNext

LEMMA BasicsInit == TPInit => Basics /\ Paired
<1> SUFFICES ASSUME TPInit PROVE Basics /\ Paired
  OBVIOUS
<1> USE MessageAssumption DEF TPInit
<1>1. Types
  <2>1. \A c \in Conn : [ok |-> TRUE, to |-> Greeting(c)] \in Reply
    BY DEF Reply
  <2>2. replies \in [Conn -> Seq(Reply)]
    BY <2>1
  <2> QED
    BY <2>2 DEF Types, Steps
<1>2. Fitting /\ Waits
  BY DEF Fitting, Waits, WaitsAt
<1>3. Named /\ InTurn
  BY DEF Named, InTurn, Open, Message
<1>4. ASSUME NEW c \in Conn PROVE Late(c, 1) /\ Ungreeted(c) /\ Outstanding(c) = 1
  BY DEF Late, Shifted, Ungreeted, Outstanding, Greeting
<1>5. Paired
  BY <1>4 DEF Paired
<1> QED
  BY <1>1, <1>2, <1>3, <1>5 DEF Basics

\* Every variable keeps its type, whatever the phones send and tmux answers:
\* commands and answers fit the connection, names fit the pastes.
THEOREM TypeInvariant == TPSpec => [](Basics /\ Paired)
<1>1. Basics /\ Paired /\ [TPNext]_tpVars => Basics' /\ Paired'
  BY TypesStep, FittingStep, NamedStep, WaitsStep, InTurnStep, PairedStep DEF Basics
<1> QED
  BY BasicsInit, <1>1, PTL DEF TPSpec
-----------------------------------------------------------------------------
\* What the pane receives is a command that tmux has just read.
LEMMA InputMoves ==
    ASSUME [TPNext]_tpVars
    PROVE  \/ UNCHANGED input
           \/ \E c \in Conn : /\ TmuxReads(c) /\ Performs(c, Head(cmds[c]))
                             /\ Head(cmds[c]).op # "resize"
<1>1. ASSUME NEW c \in Conn, TmuxReads(c), ~UNCHANGED input
      PROVE  Performs(c, Head(cmds[c])) /\ Head(cmds[c]).op # "resize"
  BY <1>1 DEF TmuxReads, Performs, Refuses
<1>2. ASSUME TPNext PROVE (\E c \in Conn : TmuxReads(c)) \/ UNCHANGED input
  BY <1>2 DEF TPNext, Type, PasteText, Bypass, TypeContent, TypeEnter, StartPaste, BufferLoaded,
              LoaderFails, PasteTimesOut, PressEnter, HandleReply, ConnectionEnds, PaneDies
<1> QED
  BY <1>1, <1>2 DEF tpVars

LEMMA OwnStep == ASSUME Basics, EachPastesItsOwn, [TPNext]_tpVars PROVE EachPastesItsOwn'
<1>1. CASE UNCHANGED input
  BY <1>1 DEF EachPastesItsOwn
<1>2. ASSUME NEW c \in Conn, TmuxReads(c), Performs(c, Head(cmds[c])), Head(cmds[c]).op # "resize"
      PROVE  EachPastesItsOwn'
  <2> DEFINE cmd == Head(cmds[c])
  <2>1. cmd \in Command /\ Fits(c, cmd)
    BY <1>2, Sequences, Elements DEF TmuxReads, Basics, Types, Fitting
  <2> HIDE DEF cmd
  <2>2. PICK e : input' = Append(input, e) /\ e.text = e.of
    <3>1. CASE cmd.op = "paste"
      <4>1. buffer[name[cmd.of]] = cmd.of
        BY <1>2, <2>1, <3>1 DEF Performs, Fits, Basics, Named, cmd
      <4> QED
        BY <1>2, <3>1, <4>1 DEF Performs, cmd
    <3>2. CASE cmd.op # "paste"
      BY <1>2, <3>2 DEF Performs, cmd
    <3> QED
      BY <3>1, <3>2
  <2>3. input \in Seq(Entry)
    BY DEF Basics, Types
  <2> QED
    BY <2>2, <2>3, WasThere DEF EachPastesItsOwn
<1> QED
  BY <1>1, <1>2, InputMoves

\* What tmux pastes for a message is that message's text, however late its
\* load-buffer or that of another message ends (pasteSeq, load-buffer and
\* paste-buffer in paste()).
THEOREM PastesItsOwn == TPSpec => []EachPastesItsOwn
<1>1. TPInit => EachPastesItsOwn
  BY DEF TPInit, EachPastesItsOwn
<1>2. Basics /\ EachPastesItsOwn /\ [TPNext]_tpVars => EachPastesItsOwn'
  BY OwnStep
<1> QED
  BY TypeInvariant, <1>1, <1>2, PTL DEF TPSpec
-----------------------------------------------------------------------------
\* What other steps than tmux's own do to the commands of one connection.
LEMMA CmdsMove ==
    ASSUME Basics, [TPNext]_tpVars, \A d \in Conn : ~TmuxReads(d), NEW c \in Conn
    PROVE  /\ UNCHANGED input /\ DOMAIN buffer \subseteq DOMAIN buffer'
           /\ \/ cmds'[c] = cmds[c]
              \/ cmds'[c] = <<>> /\ c \notin up'
              \/ \E cmd \in Command :
                   /\ cmds'[c] = Append(cmds[c], cmd) /\ Fits(c, cmd) /\ UNCHANGED told
                   /\ cmd.of \in Typed => Running(cmd.of)
                   /\ cmd.of \in Paste =>
                        \/ /\ cmd = PasteOf(cmd.of) /\ step[cmd.of] = "loading"
                           /\ step'[cmd.of] = "pasting" /\ name[cmd.of] \in DOMAIN buffer'
                        \/ /\ cmd = EnterOf(cmd.of) /\ step[cmd.of] = "pausing"
                           /\ step'[cmd.of] = "entering"
<1> DEFINE Goal == /\ UNCHANGED input /\ DOMAIN buffer \subseteq DOMAIN buffer'
                   /\ \/ cmds'[c] = cmds[c]
                      \/ cmds'[c] = <<>> /\ c \notin up'
                      \/ \E cmd \in Command :
                           /\ cmds'[c] = Append(cmds[c], cmd) /\ Fits(c, cmd) /\ UNCHANGED told
                           /\ cmd.of \in Typed => Running(cmd.of)
                           /\ cmd.of \in Paste =>
                                \/ /\ cmd = PasteOf(cmd.of) /\ step[cmd.of] = "loading"
                                   /\ step'[cmd.of] = "pasting" /\ name[cmd.of] \in DOMAIN buffer'
                                \/ /\ cmd = EnterOf(cmd.of) /\ step[cmd.of] = "pausing"
                                   /\ step'[cmd.of] = "entering"
<1> USE MessageAssumption
<1>0. /\ cmds \in [Conn -> Seq(Command)] /\ step \in [Message -> Steps]
      /\ \A m \in Message : step[m] = "typing" => m \in Typed /\ Running(m)
  BY DEF Basics, Types, InTurn
<1>1. ASSUME UNCHANGED <<cmds, input>>, DOMAIN buffer \subseteq DOMAIN buffer' PROVE Goal
  BY <1>1
<1>2. ASSUME NEW d \in Conn, NEW cmd \in Command, CtlCmd(d, cmd), UNCHANGED <<input, told>>,
             Fits(d, cmd), DOMAIN buffer \subseteq DOMAIN buffer',
             cmd.of \in Typed => Running(cmd.of),
             cmd.of \in Paste =>
               \/ /\ cmd = PasteOf(cmd.of) /\ step[cmd.of] = "loading"
                  /\ step'[cmd.of] = "pasting" /\ name[cmd.of] \in DOMAIN buffer'
               \/ /\ cmd = EnterOf(cmd.of) /\ step[cmd.of] = "pausing"
                  /\ step'[cmd.of] = "entering"
      PROVE  Goal
  <2>1. cmds'[c] = cmds[c] \/ (c = d /\ cmds'[c] = Append(cmds[c], cmd))
    BY <1>0, <1>2 DEF CtlCmd, Written
  <2> QED
    BY <1>2, <2>1
<1> HIDE DEF Goal
<1>3. ASSUME NEW m \in Message, Type(m) \/ PasteText(m) PROVE Goal
  BY <1>1, <1>3 DEF Type, PasteText, pipeVars
<1>4. ASSUME NEW m \in Message, Bypass(m) \/ TypeContent(m) \/ TypeEnter(m) PROVE Goal
  <2>1. PICK op \in {"keys", "enter", "tap", "resize"} : CtlCmd(From[m], [op |-> op, of |-> m])
    BY <1>4 DEF Bypass, TypeContent, TypeEnter
  <2>2. /\ m \notin Paste /\ (m \in Typed => Running(m)) /\ UNCHANGED <<input, buffer, told>>
        /\ From[m] \in Conn
    BY <1>0, <1>4 DEF Bypass, TypeContent, TypeEnter, Message
  <2> DEFINE x == [op |-> op, of |-> m]
  <2>3. x \in Command /\ Fits(From[m], x) /\ x.of = m
    BY <2>2 DEF Command, Fits
  <2> HIDE DEF x
  <2>4. CtlCmd(From[m], x)
    BY <2>1 DEF x
  <2> QED
    BY <1>2, <2>2, <2>3, <2>4
<1>5. ASSUME NEW p \in Paste, StartPaste(p) \/ LoaderFails(p) \/ PasteTimesOut(p) PROVE Goal
  BY <1>1, <1>5 DEF StartPaste, LoaderFails, PasteTimesOut, Stored, pipeVars
<1>6. ASSUME NEW p \in Paste, BufferLoaded(p) PROVE Goal
  <2>1. PasteOf(p) \in Command /\ Fits(From[p], PasteOf(p)) /\ PasteOf(p).of = p /\ From[p] \in Conn
    BY DEF Command, Fits, PasteOf, Message
  <2>2. CtlCmd(From[p], PasteOf(p)) /\ UNCHANGED <<input, told>> /\ p \notin Typed
    BY <1>6 DEF BufferLoaded, PasteOf
  <2>3. step[p] = "loading" /\ step'[p] = "pasting"
    BY <1>0, <1>6 DEF BufferLoaded, Message
  <2>4. DOMAIN buffer \subseteq DOMAIN buffer' /\ name[p] \in DOMAIN buffer'
    BY <1>6 DEF BufferLoaded, Stored
  <2> QED
    BY <1>2, <2>1, <2>2, <2>3, <2>4
<1>7. ASSUME NEW p \in Paste, PressEnter(p) PROVE Goal
  <2>1. EnterOf(p) \in Command /\ Fits(From[p], EnterOf(p)) /\ EnterOf(p).of = p /\ From[p] \in Conn
    BY DEF Command, Fits, EnterOf, Message
  <2>2. CtlCmd(From[p], EnterOf(p)) /\ UNCHANGED <<input, told, buffer>> /\ p \notin Typed
    BY <1>7 DEF PressEnter, EnterOf
  <2>3. step[p] = "pausing" /\ step'[p] = "entering"
    BY <1>0, <1>7 DEF PressEnter, Message
  <2> QED
    BY <1>2, <2>1, <2>2, <2>3
<1>8. ASSUME NEW d \in Conn, HandleReply(d) PROVE Goal
  BY <1>1, <1>8 DEF HandleReply
<1>9. ASSUME NEW d \in Conn, ConnectionEnds(d) PROVE Goal
  BY <1>0, <1>9 DEF ConnectionEnds, Goal
<1>10. ASSUME PaneDies PROVE Goal
  BY <1>1, <1>10 DEF PaneDies, pipeVars
<1>11. ASSUME UNCHANGED tpVars PROVE Goal
  BY <1>1, <1>11 DEF tpVars
<1>12. Goal
  BY <1>3, <1>4, <1>5, <1>6, <1>7, <1>8, <1>9, <1>10, <1>11 DEF TPNext
<1> QED
  BY <1>12 DEF Goal

\* A paste does not come back before its text was with tmux, and keeps its name.
LEMMA StepForward ==
    ASSUME Basics, [TPNext]_tpVars, NEW p \in Paste, step[p] \notin Unwritten
    PROVE  step'[p] \notin Unwritten /\ name'[p] = name[p]
<1> USE MessageAssumption DEF Basics, Types, Unwritten, Message
<1>1. ASSUME NEW m \in Message, Type(m) \/ PasteText(m) \/ Bypass(m) \/ TypeContent(m) \/ TypeEnter(m)
      PROVE  step'[p] \notin Unwritten /\ name'[p] = name[p]
  BY <1>1 DEF Type, PasteText, Bypass, TypeContent, TypeEnter, Named
<1>2. ASSUME NEW q \in Paste, StartPaste(q) \/ BufferLoaded(q) \/ LoaderFails(q) \/ PasteTimesOut(q)
                                \/ PressEnter(q)
      PROVE  step'[p] \notin Unwritten /\ name'[p] = name[p]
  BY <1>2 DEF StartPaste, BufferLoaded, LoaderFails, PasteTimesOut, PressEnter, queueVars
<1>3. ASSUME NEW c \in Conn, HandleReply(c) PROVE step'[p] \notin Unwritten /\ name'[p] = name[p]
  <2>1. \/ step' = step
        \/ \E q \in Paste : \/ step' = [step EXCEPT ![q] = "pausing"]
                           \/ step' = [step EXCEPT ![q] = "over"]
    BY <1>3, ReplyMoves
  <2> QED
    BY <1>3, <2>1 DEF HandleReply
<1>4. ASSUME NEW c \in Conn, TmuxReads(c) \/ ConnectionEnds(c)
      PROVE  step'[p] \notin Unwritten /\ name'[p] = name[p]
  BY <1>4 DEF TmuxReads, ConnectionEnds, queueVars
<1> QED
  BY <1>1, <1>2, <1>3, <1>4 DEF TPNext, PaneDies, queueVars, tpVars
LEMMA LoadedKeepsName ==
    ASSUME Basics, [TPNext]_tpVars, NEW p \in Paste, step[p] # "new"
    PROVE  name'[p] = name[p]
<1>1. ASSUME NEW m \in Message, PasteText(m) PROVE name'[p] = name[p]
  BY <1>1 DEF PasteText, Basics, Named, Types
<1>2. ASSUME TPNext, \A m \in Message : ~PasteText(m) PROVE name'[p] = name[p]
  BY <1>2 DEF TPNext, Type, Bypass, TypeContent, TypeEnter, StartPaste, BufferLoaded, LoaderFails,
              PasteTimesOut, PressEnter, HandleReply, TmuxReads, ConnectionEnds, PaneDies, queueVars
<1> QED
  BY <1>1, <1>2 DEF tpVars

\* What tmux does with a command it reads.
LEMMA ReadMoves ==
    ASSUME Basics, NEW d \in Conn, TmuxReads(d)
    PROVE  LET cmd == Head(cmds[d]) IN
           /\ cmds[d] # <<>> /\ cmd = cmds[d][1] /\ cmd \in Command /\ Fits(d, cmd)
           /\ cmds'[d] = Tail(cmds[d]) /\ \A c \in Conn \ {d} : cmds'[c] = cmds[c] /\ replies'[c] = replies[c]
           /\ UNCHANGED <<step, name, alive, up, told, early, queue, waiting>>
           /\ \/ /\ Refuses(d, cmd) /\ UNCHANGED <<input, buffer>>
                 /\ replies'[d] = Append(replies[d], [ok |-> FALSE, to |-> cmd])
              \/ /\ Performs(d, cmd) /\ alive
                 /\ replies'[d] = Append(replies[d], [ok |-> TRUE, to |-> cmd])
                 /\ \/ cmd.op = "resize" /\ UNCHANGED <<input, buffer>>
                    \/ /\ cmd.op # "resize"
                       /\ \E e : input' = Append(input, e) /\ e.op = cmd.op /\ e.of = cmd.of
                       /\ DOMAIN buffer' = IF cmd.op = "paste" THEN DOMAIN buffer \ {name[cmd.of]}
                                                              ELSE DOMAIN buffer
<1> DEFINE cmd == Head(cmds[d])
<1>1. /\ cmds[d] # <<>> /\ cmd = cmds[d][1] /\ cmd \in Command /\ Fits(d, cmd)
  BY Elements, Sequences DEF TmuxReads, Basics, Types, Fitting
<1>2. /\ cmds'[d] = Tail(cmds[d]) /\ \A c \in Conn \ {d} : cmds'[c] = cmds[c] /\ replies'[c] = replies[c]
      /\ UNCHANGED <<step, name, alive, up, told, early, queue, waiting>>
  BY DEF TmuxReads, Performs, Refuses, queueVars, Basics, Types
<1> HIDE DEF cmd
<1>3. CASE Refuses(d, cmd)
  BY <1>1, <1>2, <1>3 DEF Refuses, Basics, Types, cmd
<1>4. CASE Performs(d, cmd)
  <2>1. replies'[d] = Append(replies[d], [ok |-> TRUE, to |-> cmd]) /\ alive
    BY <1>4 DEF Performs, Basics, Types
  <2>2. CASE cmd.op = "resize"
    BY <1>1, <1>2, <1>4, <2>1, <2>2 DEF Performs, cmd
  <2>3. CASE cmd.op = "paste"
    BY <1>1, <1>2, <1>4, <2>1, <2>3 DEF Performs, cmd
  <2>4. CASE cmd.op \notin {"resize", "paste"}
    BY <1>1, <1>2, <1>4, <2>1, <2>4 DEF Performs, cmd
  <2> QED
    BY <2>2, <2>3, <2>4
<1> QED
  BY <1>3, <1>4 DEF TmuxReads, cmd

LEMMA BegunStep == ASSUME Basics, Begun, [TPNext]_tpVars PROVE Begun'
<1>0. \A c \in Conn : cmds[c] \in Seq(Command) /\ \A i \in 1..Len(cmds[c]) : Fits(c, cmds[c][i])
  BY DEF Basics, Types, Fitting
<1>1. CASE \A d \in Conn : ~TmuxReads(d)
  <2>1. ASSUME NEW c \in Conn, NEW i \in 1..Len(cmds[c])
        PROVE  /\ cmds[c][i].of \in Paste => step'[cmds[c][i].of] \notin Unwritten
               /\ cmds[c][i].op = "paste" =>
                    /\ name'[cmds[c][i].of] \in DOMAIN buffer'
                    /\ \A j \in 1..Len(cmds[c]) : cmds[c][j] = cmds[c][i] => i = j
    <3>1. DOMAIN buffer \subseteq DOMAIN buffer'
      BY <1>1, CmdsMove
    <3>2. cmds[c][i].op = "paste" => cmds[c][i].of \in Paste
      BY <1>0 DEF Fits
    <3> QED
      BY <3>1, <3>2, StepForward DEF Begun, BegunAt
  <2>2. ASSUME NEW c \in Conn PROVE BegunAt(c)'
    <3>1. CASE cmds'[c] = cmds[c]
      BY <2>1, <3>1 DEF BegunAt
    <3>2. CASE cmds'[c] = <<>>
      BY <3>2 DEF BegunAt
    <3>3. ASSUME NEW cmd \in Command, cmds'[c] = Append(cmds[c], cmd), Fits(c, cmd),
                 cmd.of \in Paste =>
                   \/ /\ cmd = PasteOf(cmd.of) /\ step[cmd.of] = "loading"
                      /\ step'[cmd.of] = "pasting" /\ name[cmd.of] \in DOMAIN buffer'
                   \/ /\ cmd = EnterOf(cmd.of) /\ step[cmd.of] = "pausing"
                      /\ step'[cmd.of] = "entering"
          PROVE  BegunAt(c)'
      <4>1. cmd.of \in Paste => step'[cmd.of] \notin Unwritten
        BY <3>3 DEF Unwritten
      <4>2. ASSUME cmd.op = "paste"
            PROVE  /\ name'[cmd.of] \in DOMAIN buffer'
                   /\ \A j \in 1..Len(cmds[c]) : cmds[c][j] # cmd
        <5>1. cmd.of \in Paste
          BY <3>3, <4>2 DEF Fits
        <5>2. step[cmd.of] = "loading" /\ name[cmd.of] \in DOMAIN buffer'
          BY <3>3, <4>2, <5>1 DEF EnterOf
        <5>3. name'[cmd.of] = name[cmd.of]
          BY <5>1, <5>2, LoadedKeepsName
        <5>4. \A j \in 1..Len(cmds[c]) : cmds[c][j] # cmd
          BY <5>1, <5>2 DEF Begun, BegunAt, Unwritten
        <5> QED
          BY <5>2, <5>3, <5>4
      <4>3. /\ Len(cmds'[c]) = Len(cmds[c]) + 1 /\ cmds'[c][Len(cmds[c]) + 1] = cmd
            /\ \A i \in 1..Len(cmds[c]) : cmds'[c][i] = cmds[c][i]
            /\ Len(cmds[c]) \in Nat
        BY <1>0, <3>3, Elements
      <4>4. \A i \in 1..Len(cmds'[c]) : i \in 1..Len(cmds[c]) \/ i = Len(cmds[c]) + 1
        BY <4>3
      <4> QED
        BY <2>1, <4>1, <4>2, <4>3, <4>4 DEF BegunAt
    <3> QED
      BY <1>1, <3>1, <3>2, <3>3, CmdsMove
  <2>3. UNCHANGED input
    BY <1>1, InputMoves
  <2> QED
    BY <2>2, <2>3, StepForward DEF Begun
<1>2. ASSUME NEW d \in Conn, TmuxReads(d) PROVE Begun'
  <2> DEFINE cmd == Head(cmds[d])
  <2>1. /\ UNCHANGED <<step, name>> /\ cmds'[d] = Tail(cmds[d]) /\ cmds[d] # <<>>
        /\ \A c \in Conn \ {d} : cmds'[c] = cmds[c]
        /\ cmd = cmds[d][1] /\ Fits(d, cmd)
        /\ UNCHANGED input \/ \E e : input' = Append(input, e) /\ e.op = cmd.op /\ e.of = cmd.of
        /\ \/ DOMAIN buffer' = DOMAIN buffer
           \/ cmd.op = "paste" /\ DOMAIN buffer' = DOMAIN buffer \ {name[cmd.of]}
    BY <1>2, ReadMoves
  <2> HIDE DEF cmd
  <2>2. /\ Len(cmds'[d]) + 1 = Len(cmds[d]) /\ Len(cmds[d]) \in Nat /\ Len(cmds[d]) > 0
        /\ \A i \in 1..Len(cmds'[d]) : i + 1 \in 1..Len(cmds[d]) /\ cmds'[d][i] = cmds[d][i + 1]
    BY <1>0, <2>1, Elements
  <2>3. cmd.op = "paste" => cmd.of \in Paste /\ name[cmd.of] \in DOMAIN buffer
    BY <2>1, <2>2 DEF Begun, BegunAt, Fits
  <2>4. ASSUME NEW c \in Conn, NEW i \in 1..Len(cmds[c]), cmds[c][i].op = "paste", c = d => i # 1
        PROVE  name[cmds[c][i].of] \in DOMAIN buffer'
    <3>1. /\ name[cmds[c][i].of] \in DOMAIN buffer /\ cmds[c][i].of \in Paste /\ From[cmds[c][i].of] = c
      BY <1>0, <2>4 DEF Begun, BegunAt, Fits
    <3>2. ASSUME cmd.op = "paste", name[cmds[c][i].of] = name[cmd.of] PROVE FALSE
      <4>1. cmds[c][i].of = cmd.of
        BY <2>3, <3>1, <3>2 DEF Basics, Named
      <4>2. c = d
        BY <2>1, <3>1, <4>1 DEF Fits
      <4>3. cmds[c][i] = cmd
        <5>1. cmds[c][i] \in Command /\ cmd \in Command
          BY <1>0, <2>1, <2>2, <2>4, OfMessages
        <5> QED
          BY <2>4, <3>2, <4>1, <5>1, SameCommand
      <4>4. i = 1
        BY <2>1, <2>2, <2>4, <4>2, <4>3 DEF Begun, BegunAt
      <4> QED
        BY <2>4, <4>2, <4>4
    <3> QED
      BY <2>1, <3>1, <3>2
  <2>5. ASSUME NEW c \in Conn PROVE BegunAt(c)'
    <3>1. CASE c # d
      BY <2>1, <2>4, <3>1 DEF Begun, BegunAt
    <3>2. CASE c = d
      <4>1. ASSUME NEW i \in 1..Len(cmds'[d])
            PROVE  /\ cmds'[d][i].of \in Paste => step[cmds'[d][i].of] \notin Unwritten
                   /\ cmds'[d][i].op = "paste" =>
                        /\ name[cmds'[d][i].of] \in DOMAIN buffer'
                        /\ \A j \in 1..Len(cmds'[d]) : cmds'[d][j] = cmds'[d][i] => i = j
        <5>1. i + 1 \in 1..Len(cmds[d]) /\ cmds'[d][i] = cmds[d][i + 1] /\ i + 1 # 1
          BY <2>2
        <5>2. cmds'[d][i].of \in Paste => step[cmds'[d][i].of] \notin Unwritten
          BY <5>1 DEF Begun, BegunAt
        <5>3. cmds'[d][i].op = "paste" => name[cmds'[d][i].of] \in DOMAIN buffer'
          BY <2>4, <5>1
        <5>4. ASSUME NEW j \in 1..Len(cmds'[d]), cmds'[d][i].op = "paste", cmds'[d][j] = cmds'[d][i]
              PROVE  i = j
          <6>1. j + 1 \in 1..Len(cmds[d]) /\ cmds'[d][j] = cmds[d][j + 1]
            BY <2>2
          <6>2. i + 1 = j + 1
            BY <5>1, <5>4, <6>1 DEF Begun, BegunAt
          <6> QED
            BY <6>2
        <5> QED
          BY <5>2, <5>3, <5>4
      <4> QED
        BY <2>1, <3>2, <4>1 DEF BegunAt
    <3> QED
      BY <3>1, <3>2
  <2>6. \A k \in 1..Len(input') : input'[k].of \in Paste => step'[input'[k].of] \notin Unwritten
    <3>1. CASE UNCHANGED input
      BY <2>1, <3>1 DEF Begun
    <3>2. ASSUME NEW e, input' = Append(input, e), e.of = cmd.of
          PROVE  \A k \in 1..Len(input') : input'[k].of \in Paste => step'[input'[k].of] \notin Unwritten
      <4>1. input \in Seq(Entry)
        BY DEF Basics, Types
      <4>2. cmd.of \in Paste => step[cmd.of] \notin Unwritten
        BY <2>1, <2>2 DEF Begun, BegunAt
      <4> QED
        BY <2>1, <3>2, <4>1, <4>2, WasThere DEF Begun
    <3> QED
      BY <2>1, <3>1, <3>2
  <2> QED
    BY <2>5, <2>6 DEF Begun
<1> QED
  BY <1>1, <1>2
-----------------------------------------------------------------------------
\* Where something is in the pane's input when one more entry comes.
LEMMA PlaceWhenAppended ==
    ASSUME Types, NEW e, input' = Append(input, e), NEW op, NEW m
    PROVE  /\ Place(op, m)' = Place(op, m) \cup (IF e.op = op /\ e.of = m THEN {Len(input) + 1} ELSE {})
           /\ Len(input) \in Nat /\ Place(op, m) \subseteq 1..Len(input)
<1>1. /\ Len(input') = Len(input) + 1 /\ input'[Len(input) + 1] = e /\ Len(input) \in Nat
      /\ \A i \in 1..Len(input) : input'[i] = input[i]
  BY Elements DEF Types
<1>2. \A i : i \in 1..Len(input') <=> i \in 1..Len(input) \/ i = Len(input) + 1
  BY <1>1
<1>3. Len(input) + 1 \notin 1..Len(input)
  BY <1>1
<1>4. \A i : i \in Place(op, m)' <=> i \in 1..Len(input') /\ input'[i].op = op /\ input'[i].of = m
  BY DEF Place
<1>5. \A i : i \in Place(op, m) <=> i \in 1..Len(input) /\ input[i].op = op /\ input[i].of = m
  BY DEF Place
<1>6. \A i : i \in Place(op, m)' <=> i \in Place(op, m) \/ (i = Len(input) + 1 /\ e.op = op /\ e.of = m)
  BY <1>1, <1>2, <1>3, <1>4, <1>5
<1> QED
  BY <1>1, <1>5, <1>6

LEMMA InputGrows ==
    ASSUME Basics, [TPNext]_tpVars
    PROVE  UNCHANGED input \/ \E e : input' = Append(input, e)
<1>1. ASSUME NEW d \in Conn, TmuxReads(d) PROVE UNCHANGED input \/ \E e : input' = Append(input, e)
  BY <1>1, ReadMoves
<1> QED
  BY <1>1, InputMoves

LEMMA PlaceGrows ==
    ASSUME Basics, [TPNext]_tpVars, NEW op, NEW m
    PROVE  Place(op, m) \subseteq Place(op, m)'
<1>1. CASE UNCHANGED input
  BY <1>1 DEF Place
<1>2. ASSUME NEW e, input' = Append(input, e) PROVE Place(op, m) \subseteq Place(op, m)'
  BY <1>2, PlaceWhenAppended DEF Basics
<1> QED
  BY <1>1, <1>2, InputGrows

LEMMA SeenStays ==
    ASSUME Basics, [TPNext]_tpVars
    PROVE  /\ \A op, m : Seen(op, m) => Seen(op, m)'
           /\ \A p : Committed(p) => Committed(p)'
<1>1. ASSUME NEW op, NEW m, Seen(op, m) PROVE Seen(op, m)'
  BY <1>1, PlaceGrows DEF Seen
<1>2. ASSUME NEW p, Committed(p) PROVE Committed(p)'
  <2>1. Place("paste", p) \subseteq Place("paste", p)' /\ Place("enter", p) \subseteq Place("enter", p)'
    BY PlaceGrows
  <2> QED
    BY <1>2, <2>1 DEF Committed
<1> QED
  BY <1>1, <1>2

\* What other steps than tmux's own do to the replies.
LEMMA RepliesMove ==
    ASSUME Basics, [TPNext]_tpVars, \A d \in Conn : ~TmuxReads(d), NEW c \in Conn
    PROVE  \/ replies'[c] = replies[c]
           \/ replies[c] # <<>> /\ replies'[c] = Tail(replies[c])
           \/ replies'[c] = <<>>
<1>1. ASSUME NEW d \in Conn, HandleReply(d) \/ ConnectionEnds(d)
      PROVE  \/ replies'[c] = replies[c]
             \/ replies[c] # <<>> /\ replies'[c] = Tail(replies[c])
             \/ replies'[c] = <<>>
  BY <1>1 DEF HandleReply, ConnectionEnds, Basics, Types
<1>2. ASSUME TPNext, \A d \in Conn : ~HandleReply(d) /\ ~ConnectionEnds(d) PROVE UNCHANGED replies
  BY <1>2 DEF TPNext, Type, PasteText, Bypass, TypeContent, TypeEnter, StartPaste, BufferLoaded,
              LoaderFails, PasteTimesOut, PressEnter, PaneDies, pipeVars
<1> QED
  BY <1>1, <1>2 DEF tpVars

LEMMA NeverAgain ==
    ASSUME Basics, [TPNext]_tpVars
    PROVE  (~alive => ~alive') /\ up' \subseteq up /\ early \subseteq early'
<1> DEFINE Goal == (~alive => ~alive') /\ up' \subseteq up /\ early \subseteq early'
<1>1. ASSUME NEW m \in Message, Type(m) \/ PasteText(m) PROVE Goal
  BY <1>1 DEF Type, PasteText, pipeVars
<1>2. ASSUME NEW m \in Message, Bypass(m) \/ TypeContent(m) \/ TypeEnter(m) PROVE Goal
  BY <1>2 DEF Bypass, TypeContent, TypeEnter, CtlCmd, Written
<1>3. ASSUME NEW p \in Paste, StartPaste(p) \/ LoaderFails(p) \/ PasteTimesOut(p) PROVE Goal
  BY <1>3 DEF StartPaste, LoaderFails, PasteTimesOut, pipeVars
<1>4. ASSUME NEW p \in Paste, BufferLoaded(p) \/ PressEnter(p) PROVE Goal
  BY <1>4 DEF BufferLoaded, PressEnter, CtlCmd, Written
<1>5. ASSUME NEW c \in Conn, HandleReply(c) \/ TmuxReads(c) \/ ConnectionEnds(c) PROVE Goal
  BY <1>5 DEF HandleReply, TmuxReads, ConnectionEnds
<1>6. CASE PaneDies \/ UNCHANGED tpVars
  BY <1>6 DEF PaneDies, tpVars, pipeVars
<1> QED
  BY <1>1, <1>2, <1>3, <1>4, <1>5, <1>6 DEF TPNext

\* How a paste gets to the step it is at.
LEMMA StepOpens ==
    ASSUME Basics, [TPNext]_tpVars, NEW p \in Paste
    PROVE  /\ step'[p] \in Open \cup {"entering"} =>
                step[p] \in Open \cup {"entering"} \/ BufferLoaded(p)
           /\ step'[p] \in {"pausing", "entering"} =>
                \/ step[p] \in {"pausing", "entering"}
                \/ /\ HandleReply(From[p]) /\ waiting[From[p]] # <<>> /\ Head(replies[From[p]]).ok
                   /\ Head(waiting[From[p]]).of = p /\ Head(waiting[From[p]]).op = "paste"
<1> USE MessageAssumption DEF Message, Open
<1>0. step \in [Message -> Steps] /\ \A m \in Message : step[m] = "typing" => m \in Typed
  BY DEF Basics, Types, InTurn
<1>1. ASSUME NEW m \in Message, Type(m) \/ PasteText(m) \/ Bypass(m) \/ TypeContent(m) \/ TypeEnter(m)
      PROVE  step'[p] \notin Open \cup {"entering"} \/ step'[p] = step[p]
  BY <1>0, <1>1 DEF Type, PasteText, Bypass, TypeContent, TypeEnter
<1>2. ASSUME NEW q \in Paste, StartPaste(q) \/ LoaderFails(q) \/ PasteTimesOut(q)
      PROVE  step'[p] \notin Open \cup {"entering"} \/ step'[p] = step[p]
  BY <1>0, <1>2 DEF StartPaste, LoaderFails, PasteTimesOut
<1>3. ASSUME NEW q \in Paste, BufferLoaded(q)
      PROVE  step'[p] = step[p] \/ (p = q /\ step'[p] = "pasting")
  BY <1>0, <1>3 DEF BufferLoaded
<1>4. ASSUME NEW q \in Paste, PressEnter(q)
      PROVE  step'[p] = step[p] \/ step[p] = "pausing"
  BY <1>0, <1>4 DEF PressEnter
<1>5. ASSUME NEW c \in Conn, HandleReply(c)
      PROVE  \/ step'[p] = step[p] \/ step'[p] = "over"
             \/ /\ From[p] = c /\ waiting[c] # <<>> /\ Head(replies[c]).ok /\ Head(waiting[c]).of = p
                /\ Head(waiting[c]).op = "paste" /\ step[p] = "pasting" /\ step'[p] = "pausing"
  BY <1>0, <1>5, ReplyMoves
<1>6. ASSUME NEW c \in Conn, TmuxReads(c) \/ ConnectionEnds(c) PROVE step'[p] = step[p]
  BY <1>6 DEF TmuxReads, ConnectionEnds, queueVars
<1>7. CASE PaneDies \/ UNCHANGED tpVars
  BY <1>7 DEF PaneDies, tpVars, queueVars
<1> QED
  BY <1>1, <1>2, <1>3, <1>4, <1>5, <1>6, <1>7 DEF TPNext
LEMMA GoodRepliesStep == ASSUME Basics, GoodReplies, [TPNext]_tpVars PROVE GoodReplies'
<1> DEFINE Good(r) == r.ok /\ r.to.op \in {"paste", "enter"} =>
                       \E i \in 1..Len(input') : input'[i].op = r.to.op /\ input'[i].of = r.to.of
<1> SUFFICES ASSUME NEW c \in Conn PROVE \A k \in 1..Len(replies'[c]) : Good(replies'[c][k])
  BY DEF GoodReplies, Seen, Place
<1>0. replies[c] \in Seq(Reply) /\ \A k \in 1..Len(replies[c]) : Good(replies[c][k])
  <2>1. ASSUME NEW k \in 1..Len(replies[c]), replies[c][k].ok, replies[c][k].to.op \in {"paste", "enter"}
        PROVE  \E i \in 1..Len(input') : input'[i].op = replies[c][k].to.op
                                      /\ input'[i].of = replies[c][k].to.of
    <3> DEFINE op == replies[c][k].to.op
               m == replies[c][k].to.of
    <3>1. Seen(op, m)
      BY <2>1 DEF GoodReplies
    <3> HIDE DEF op, m
    <3>2. PICK i \in Place(op, m) : TRUE
      BY <3>1 DEF Seen
    <3>3. i \in 1..Len(input) /\ input[i].op = op /\ input[i].of = m
      BY <3>2 DEF Place
    <3>4. i \in 1..Len(input') /\ input'[i] = input[i]
      <4>1. input \in Seq(Entry)
        BY DEF Basics, Types
      <4> QED
        BY <3>3, <4>1, InputGrows, Elements
    <3> QED
      BY <3>3, <3>4 DEF op, m
  <2> QED
    BY <2>1 DEF Basics, Types
<1> HIDE DEF Good
<1>1. CASE \A d \in Conn : ~TmuxReads(d)
  <2>1. \/ replies'[c] = replies[c]
        \/ replies[c] # <<>> /\ replies'[c] = Tail(replies[c])
        \/ replies'[c] = <<>>
    BY <1>1, RepliesMove
  <2>2. CASE replies[c] # <<>> /\ replies'[c] = Tail(replies[c])
    <3>1. \A k \in 1..Len(replies'[c]) : \E j \in 1..Len(replies[c]) : replies'[c][k] = replies[c][j]
      BY <1>0, <2>2, WasThere
    <3> QED
      BY <1>0, <3>1
  <2>3. CASE replies'[c] = <<>>
    BY <2>3
  <2> QED
    BY <1>0, <2>1, <2>2, <2>3
<1>2. ASSUME NEW d \in Conn, TmuxReads(d) PROVE \A k \in 1..Len(replies'[c]) : Good(replies'[c][k])
  <2> DEFINE cmd == Head(cmds[d])
  <2>1. CASE c # d
    <3>1. replies'[c] = replies[c]
      BY <1>2, <2>1, ReadMoves
    <3> QED
      BY <1>0, <3>1
  <2>2. CASE c = d
    <3>1. PICK r : replies'[c] = Append(replies[c], r) /\ Good(r)
      <4>1. CASE replies'[d] = Append(replies[d], [ok |-> FALSE, to |-> cmd])
        BY <2>2, <4>1 DEF Good
      <4>2. ASSUME replies'[d] = Append(replies[d], [ok |-> TRUE, to |-> cmd]),
                   cmd.op = "resize" \/ \E e : input' = Append(input, e) /\ e.op = cmd.op /\ e.of = cmd.of
            PROVE  \E r : replies'[c] = Append(replies[c], r) /\ Good(r)
        <5>0. input \in Seq(Entry)
          BY DEF Basics, Types
        <5>1. cmd.op # "resize" =>
                \E i \in 1..Len(input') : input'[i].op = cmd.op /\ input'[i].of = cmd.of
          <6>1. ASSUME NEW e, input' = Append(input, e)
                PROVE  Len(input) + 1 \in 1..Len(input') /\ input'[Len(input) + 1] = e
            BY <5>0, <6>1, Elements
          <6> QED
            BY <4>2, <6>1
        <5>2. Good([ok |-> TRUE, to |-> cmd])
          BY <5>1 DEF Good
        <5> QED
          BY <2>2, <4>2, <5>2
      <4> QED
        BY <1>2, <4>1, <4>2, ReadMoves
    <3> QED
      BY <1>0, <3>1, WasThere
  <2> QED
    BY <2>1, <2>2
<1> QED
  BY <1>1, <1>2
\* The reply at hand and the command it is taken for, when replies are in time.
LEMMA InTime ==
    ASSUME Basics, Paired, NEW c \in Conn \ early, replies[c] # <<>>, waiting[c] # <<>>
    PROVE  Head(replies[c]).to = Head(waiting[c])
<1>1. replies[c] \in Seq(Reply) /\ waiting[c] \in Seq(Command) /\ cmds[c] \in Seq(Command)
  BY DEF Basics, Types
<1>2. /\ Len(replies[c]) \in Nat /\ Len(replies[c]) > 0 /\ Len(waiting[c]) \in Nat /\ Len(waiting[c]) > 0
      /\ Len(cmds[c]) \in Nat
  BY <1>1, Elements
<1>3. Late(c, 0)
  <2>1. ~(Late(c, 1) /\ Outstanding(c) = 1)
    <3>1. ASSUME Late(c, 1), Outstanding(c) = 1 PROVE Len(waiting[c]) + 1 = 1
      BY <3>1 DEF Late, Shifted, Outstanding
    <3> QED
      BY <1>2, <3>1
  <2>2. c \in up
    BY <1>2 DEF Paired
  <2> QED
    BY <2>1, <2>2 DEF Paired
<1>4. waiting[c][1] = replies[c][1].to
  <2>1. waiting[c][1] = Nth(replies[c], cmds[c], 1 + 0)
    BY <1>2, <1>3 DEF Late, Shifted
  <2> QED
    BY <1>2, <2>1 DEF Nth
<1> QED
  BY <1>1, <1>4, Elements

LEMMA PendingStays ==
    ASSUME Basics, Begun, [TPNext]_tpVars, NEW p \in Paste, From[p] \in up', Pending(p)
    PROVE  Pending(p)' \/ Seen("paste", p)' \/ Missed(p)'
<1> DEFINE c == From[p]
<1>0. c \in Conn /\ cmds[c] \in Seq(Command) /\ replies[c] \in Seq(Reply)
  BY MessageAssumption DEF Basics, Types, Message
<1>1. PICK i \in 1..Len(cmds[c]) : cmds[c][i] = PasteOf(p)
  BY DEF Pending
<1> HIDE DEF c
<1>2. CASE \A d \in Conn : ~TmuxReads(d)
  <2>1. cmds'[c] = cmds[c] \/ \E cmd : cmds'[c] = Append(cmds[c], cmd)
    BY <1>0, <1>2, CmdsMove DEF c
  <2>2. i \in 1..Len(cmds'[c]) /\ cmds'[c][i] = cmds[c][i]
    BY <1>0, <1>1, <2>1, Elements
  <2> QED
    BY <1>1, <2>2 DEF Pending, c
<1>3. ASSUME NEW d \in Conn, TmuxReads(d), d # c PROVE Pending(p)'
  <2>1. cmds'[c] = cmds[c]
    BY <1>0, <1>3, ReadMoves
  <2> QED
    BY <1>1, <2>1 DEF Pending, c
<1>4. CASE TmuxReads(c)
  <2> DEFINE cmd == Head(cmds[c])
  <2>1. /\ cmds[c] # <<>> /\ cmd = cmds[c][1] /\ cmds'[c] = Tail(cmds[c]) /\ UNCHANGED alive
        /\ \/ Refuses(c, cmd) /\ replies'[c] = Append(replies[c], [ok |-> FALSE, to |-> cmd])
           \/ cmd.op = "resize"
           \/ \E e : input' = Append(input, e) /\ e.op = cmd.op /\ e.of = cmd.of
    BY <1>0, <1>4, ReadMoves
  <2> HIDE DEF cmd
  <2>2. CASE i # 1
    <3>1. i - 1 \in 1..Len(cmds'[c]) /\ cmds'[c][i - 1] = cmds[c][i]
      BY <1>0, <1>1, <2>1, <2>2, Elements
    <3> QED
      BY <1>1, <3>1 DEF Pending, c
  <2>3. CASE i = 1
    <3>1. cmd = PasteOf(p) /\ cmd.op = "paste" /\ cmd.of = p
      BY <1>1, <2>1, <2>3 DEF PasteOf
    <3>2. name[p] \in DOMAIN buffer
      BY <1>0, <1>1, <2>1, <2>3, <3>1 DEF Begun, BegunAt
    <3>3. CASE Refuses(c, cmd) /\ replies'[c] = Append(replies[c], [ok |-> FALSE, to |-> cmd])
      <4>1. ~alive'
        BY <2>1, <3>1, <3>2, <3>3 DEF Refuses
      <4>2. /\ Len(replies'[c]) = Len(replies[c]) + 1 /\ Len(replies[c]) \in Nat
            /\ replies'[c][Len(replies[c]) + 1] = [ok |-> FALSE, to |-> cmd]
        BY <1>0, <3>3, Elements
      <4>3. ASSUME NEW j \in 1..Len(replies'[c]), replies'[c][j].ok
            PROVE  \E k \in (j + 1)..Len(replies'[c]) : replies'[c][k].to = PasteOf(p)
        <5>1. j # Len(replies[c]) + 1
          BY <4>2, <4>3
        <5>2. Len(replies[c]) + 1 \in (j + 1)..Len(replies'[c])
          BY <4>2, <5>1
        <5> QED
          BY <3>1, <4>2, <5>2
      <4> QED
        BY <4>1, <4>3 DEF Missed, c
    <3>4. ASSUME NEW e, input' = Append(input, e), e.op = cmd.op, e.of = cmd.of PROVE Seen("paste", p)'
      BY <3>1, <3>4, PlaceWhenAppended DEF Seen, Basics
    <3> QED
      BY <2>1, <3>1, <3>3, <3>4
  <2> QED
    BY <2>2, <2>3
<1> QED
  BY <1>2, <1>3, <1>4

LEMMA MissedStays ==
    ASSUME Basics, [TPNext]_tpVars, NEW p \in Paste, Missed(p)
    PROVE  Missed(p)'
<1> DEFINE c == From[p]
<1>0. c \in Conn /\ replies[c] \in Seq(Reply)
  BY MessageAssumption DEF Basics, Types, Message
<1>1. ~alive' /\ \A j \in 1..Len(replies[c]) :
                   replies[c][j].ok => \E k \in (j + 1)..Len(replies[c]) : replies[c][k].to = PasteOf(p)
  BY NeverAgain DEF Missed
<1> HIDE DEF c
<1> SUFFICES ASSUME NEW j \in 1..Len(replies'[c]), replies'[c][j].ok
             PROVE  \E k \in (j + 1)..Len(replies'[c]) : replies'[c][k].to = PasteOf(p)
  BY <1>1 DEF Missed, c
<1>2. CASE replies'[c] = replies[c]
  BY <1>1, <1>2
<1>3. CASE replies[c] # <<>> /\ replies'[c] = Tail(replies[c])
  <2>1. /\ Len(replies'[c]) + 1 = Len(replies[c]) /\ Len(replies[c]) \in Nat
        /\ \A k \in 1..Len(replies'[c]) : replies'[c][k] = replies[c][k + 1]
    BY <1>0, <1>3, Elements
  <2>2. PICK k \in ((j + 1) + 1)..Len(replies[c]) : replies[c][k].to = PasteOf(p)
    <3>1. j + 1 \in 1..Len(replies[c]) /\ replies[c][j + 1].ok
      BY <2>1
    <3> QED
      BY <1>1, <3>1
  <2>3. k - 1 \in (j + 1)..Len(replies'[c]) /\ replies'[c][k - 1] = replies[c][k]
    BY <2>1, <2>2
  <2> QED
    BY <2>2, <2>3
<1>4. CASE replies'[c] = <<>>
  BY <1>4
<1>5. CASE TmuxReads(c)
  <2>1. PICK r : replies'[c] = Append(replies[c], r) /\ ~r.ok
    <3>1. ~alive
      BY DEF Missed
    <3>2. replies'[c] = Append(replies[c], [ok |-> FALSE, to |-> Head(cmds[c])])
      BY <1>0, <1>5, <3>1, ReadMoves
    <3> QED
      BY <3>2
  <2>2. /\ Len(replies'[c]) = Len(replies[c]) + 1 /\ Len(replies[c]) \in Nat
        /\ replies'[c][Len(replies[c]) + 1] = r
        /\ \A k \in 1..Len(replies[c]) : replies'[c][k] = replies[c][k]
    BY <1>0, <2>1, Elements
  <2>3. j \in 1..Len(replies[c])
    BY <2>1, <2>2
  <2>4. PICK k \in (j + 1)..Len(replies[c]) : replies[c][k].to = PasteOf(p)
    BY <1>1, <2>2, <2>3
  <2>5. k \in (j + 1)..Len(replies'[c]) /\ replies'[c][k] = replies[c][k]
    BY <2>2, <2>3, <2>4
  <2> QED
    BY <2>4, <2>5
<1>6. ASSUME NEW d \in Conn, TmuxReads(d), d # c PROVE replies'[c] = replies[c]
  BY <1>0, <1>6, ReadMoves
<1> QED
  BY <1>0, <1>2, <1>3, <1>4, <1>5, <1>6, RepliesMove
\* What AfterPaste says of the steps of p.
LEMMA AfterPasteSteps ==
    ASSUME Basics, Paired, Begun, Evidence, [TPNext]_tpVars, NEW p \in Paste
    PROVE  /\ From[p] \in up' /\ step'[p] \in Open \cup {"entering"} =>
                Pending(p)' \/ Seen("paste", p)' \/ Missed(p)'
           /\ From[p] \notin early' /\ step'[p] \in {"pausing", "entering"} => Seen("paste", p)'
<1> DEFINE c == From[p]
<1>0. c \in Conn /\ up' \subseteq up /\ early \subseteq early'
  BY MessageAssumption, NeverAgain DEF Message
<1>1. ASSUME c \in up', step'[p] \in Open \cup {"entering"}
      PROVE  Pending(p)' \/ Seen("paste", p)' \/ Missed(p)'
  <2>1. CASE BufferLoaded(p)
    <3>1. cmds'[c] = Append(cmds[c], PasteOf(p)) /\ cmds[c] \in Seq(Command)
      BY <1>0, <1>1, <2>1 DEF BufferLoaded, CtlCmd, Written, PasteOf, Basics, Types
    <3>2. Len(cmds[c]) + 1 \in 1..Len(cmds'[c]) /\ cmds'[c][Len(cmds[c]) + 1] = PasteOf(p)
      BY <3>1, Elements
    <3> QED
      BY <3>2 DEF Pending
  <2>2. CASE step[p] \in Open \cup {"entering"}
    BY <1>0, <1>1, <2>2, PendingStays, MissedStays, SeenStays DEF Evidence, AfterPaste
  <2> QED
    BY <1>1, <2>1, <2>2, StepOpens
<1>2. ASSUME c \notin early', step'[p] \in {"pausing", "entering"} PROVE Seen("paste", p)'
  <2>1. CASE step[p] \in {"pausing", "entering"}
    BY <1>0, <1>2, <2>1, SeenStays DEF Evidence, AfterPaste
  <2>2. CASE /\ HandleReply(c) /\ waiting[c] # <<>> /\ Head(replies[c]).ok
             /\ Head(waiting[c]).of = p /\ Head(waiting[c]).op = "paste"
    <3>1. replies[c] # <<>> /\ c \notin early
      BY <1>0, <1>2, <2>2 DEF HandleReply
    <3>2. Head(replies[c]).to = Head(waiting[c])
      BY <1>0, <2>2, <3>1, InTime
    <3>3. replies[c] \in Seq(Reply)
      BY <1>0 DEF Basics, Types
    <3>4. Head(replies[c]) = replies[c][1] /\ 1 \in 1..Len(replies[c])
      BY <3>1, <3>3, Elements
    <3>5. Seen("paste", p)
      BY <1>0, <2>2, <3>2, <3>4 DEF Evidence, GoodReplies
    <3> QED
      BY <3>5, SeenStays
  <2> QED
    BY <1>2, <2>1, <2>2, StepOpens
<1> QED
  BY <1>1, <1>2

LEMMA AfterPasteStep ==
    ASSUME Basics, Paired, Begun, Evidence, [TPNext]_tpVars, NEW p \in Paste
    PROVE  AfterPaste(p)'
<1> DEFINE c == From[p]
<1>0. /\ c \in Conn /\ early \subseteq early' /\ cmds[c] \in Seq(Command) /\ AfterPaste(p)
      /\ EnterOf(p).op = "enter" /\ EnterOf(p).of = p
  BY MessageAssumption, NeverAgain DEF Message, Basics, Types, Evidence, EnterOf
<1>1. ASSUME c \notin early', NEW i \in 1..Len(cmds'[c]), cmds'[c][i] = EnterOf(p)
      PROVE  Seen("paste", p)'
  <2>1. ASSUME NEW j \in 1..Len(cmds[c]), cmds[c][j] = EnterOf(p) PROVE Seen("paste", p)'
    BY <1>0, <1>1, <2>1, SeenStays DEF AfterPaste
  <2>2. CASE \A d \in Conn : ~TmuxReads(d)
    <3>1. CASE cmds'[c] = cmds[c]
      BY <1>1, <2>1, <3>1
    <3>2. CASE cmds'[c] = <<>>
      BY <1>1, <3>2
    <3>3. ASSUME NEW cmd, cmds'[c] = Append(cmds[c], cmd), cmd.of \in Paste => step[cmd.of] = "pausing" \/ cmd = PasteOf(cmd.of)
          PROVE  Seen("paste", p)'
      <4>1. cmd = EnterOf(p) \/ \E j \in 1..Len(cmds[c]) : cmds[c][j] = EnterOf(p)
        BY <1>0, <1>1, <3>3, WasThere
      <4>2. CASE cmd = EnterOf(p)
        <5>1. step[p] = "pausing"
          BY <1>0, <3>3, <4>2 DEF PasteOf
        <5> QED
          BY <1>0, <1>1, <5>1, SeenStays DEF AfterPaste
      <4> QED
        BY <2>1, <4>1, <4>2
    <3> QED
      BY <1>0, <2>2, <3>1, <3>2, <3>3, CmdsMove
  <2>3. ASSUME NEW d \in Conn, TmuxReads(d) PROVE Seen("paste", p)'
    <3>1. \E j \in 1..Len(cmds[c]) : cmds[c][j] = EnterOf(p)
      <4>1. cmds'[c] = cmds[c] \/ (cmds[c] # <<>> /\ cmds'[c] = Tail(cmds[c]))
        BY <1>0, <2>3, ReadMoves
      <4>2. cmds[c] # <<>> => \A k \in 1..Len(Tail(cmds[c])) : \E j \in 1..Len(cmds[c]) :
                               Tail(cmds[c])[k] = cmds[c][j]
        BY <1>0, WasThere
      <4> QED
        BY <1>1, <4>1, <4>2
    <3> QED
      BY <2>1, <3>1
  <2> QED
    BY <2>2, <2>3
<1>2. ASSUME c \notin early', Seen("enter", p)' PROVE Committed(p)'
  <2>1. CASE Seen("enter", p)
    BY <1>0, <1>2, <2>1, SeenStays DEF AfterPaste
  <2>2. CASE ~Seen("enter", p)
    <3>1. PICK d \in Conn : TmuxReads(d)
      BY <1>2, <2>2, InputMoves DEF Seen, Place
    <3> DEFINE cmd == Head(cmds[d])
    <3>2. ~UNCHANGED input
      BY <1>2, <2>2 DEF Seen, Place
    <3>3. PICK e : input' = Append(input, e) /\ e.op = cmd.op /\ e.of = cmd.of
      BY <3>1, <3>2, ReadMoves
    <3>4. Place("enter", p)' = Place("enter", p) \cup {Len(input) + 1} /\ e.op = "enter" /\ e.of = p
      BY <1>2, <2>2, <3>3, PlaceWhenAppended DEF Seen, Basics
    <3>5. cmds[d] # <<>> /\ cmd = cmds[d][1] /\ cmd \in Command /\ Fits(d, cmd)
      BY <3>1, ReadMoves
    <3>6. d = c /\ cmd = EnterOf(p)
      <4>1. EnterOf(p) \in Command
        BY DEF EnterOf, Command, Message
      <4> QED
        BY <1>0, <3>3, <3>4, <3>5, <4>1, SameCommand DEF Fits
    <3>7. Seen("paste", p)
      <4>1. 1 \in 1..Len(cmds[c])
        BY <1>0, <3>5, <3>6, Elements
      <4> QED
        BY <1>0, <1>2, <3>5, <3>6, <4>1 DEF AfterPaste
    <3>8. Place("paste", p) \subseteq Place("paste", p)' /\ Place("paste", p) \subseteq 1..Len(input)
          /\ Len(input) \in Nat
      BY <3>3, PlaceGrows, PlaceWhenAppended DEF Basics
    <3>9. PICK i \in Place("paste", p) : TRUE
      BY <3>7 DEF Seen
    <3>10. i \in Place("paste", p)' /\ Len(input) + 1 \in Place("enter", p)' /\ i < Len(input) + 1
      BY <3>4, <3>8, <3>9
    <3> QED
      BY <3>10 DEF Committed
  <2> QED
    BY <2>1, <2>2
<1> QED
  BY <1>1, <1>2, AfterPasteSteps DEF AfterPaste
\* An ack is the answer to an Enter.
LEMMA AckComes ==
    ASSUME Basics, [TPNext]_tpVars, NEW p \in Paste, ~Heard(p, "ack"), Heard(p, "ack")'
    PROVE  /\ HandleReply(From[p]) /\ waiting[From[p]] # <<>> /\ Head(waiting[From[p]]).of = p
           /\ Head(waiting[From[p]]).op = "enter" /\ Head(replies[From[p]]).ok /\ step[p] = "entering"
<1>0. Types /\ ~UNCHANGED told
  BY DEF Basics, Heard
<1>1. ASSUME NEW q \in Paste, Fail(q) PROVE FALSE
  <2>1. UNCHANGED told \/ told' = [told EXCEPT ![q] = Append(@, "error")]
    BY <1>1 DEF Fail
  <2> QED
    BY <1>0, <2>1, HeardWhenTold
<1>2. ASSUME NEW q \in Paste, Confirm(q) PROVE q = p
  BY <1>0, <1>2, HeardWhenTold DEF Confirm
<1>3. ASSUME NEW c \in Conn, HandleReply(c)
      PROVE  /\ c = From[p] /\ waiting[c] # <<>> /\ Head(waiting[c]).of = p
             /\ Head(waiting[c]).op = "enter" /\ Head(replies[c]).ok /\ step[p] = "entering"
  BY <1>0, <1>1, <1>2, <1>3, ReplyMoves
<1>4. \E c \in Conn : HandleReply(c)
  <2>1. ASSUME NEW q \in Paste, LoaderFails(q) \/ PasteTimesOut(q) PROVE FALSE
    BY <1>1, <2>1 DEF LoaderFails, PasteTimesOut
  <2> QED
    BY <1>0, <2>1 DEF TPNext, Type, PasteText, Bypass, TypeContent, TypeEnter, StartPaste, BufferLoaded,
       PressEnter, TmuxReads, ConnectionEnds, PaneDies, tpVars
<1> QED
  BY <1>3, <1>4

LEMMA InRange ==
    ASSUME NEW x \in Nat, x > 0, NEW y \in Nat
    PROVE  /\ \A k \in 1..y : x + k \in 2..(x + y)
           /\ \A k \in 2..x : k \in 2..(x + y)
  OBVIOUS

\* A command still to be answered is waited for, and no reply to it is late by
\* more than one.
LEMMA StillWaited ==
    ASSUME Basics, Paired, NEW c \in up, NEW i \in 2..Outstanding(c)
    PROVE  \E j \in 1..Len(waiting[c]) : waiting[c][j] = Nth(replies[c], cmds[c], i)
<1>0. c \in Conn
  BY DEF Basics, Types
<1>1. /\ Len(replies[c]) \in Nat /\ Len(cmds[c]) \in Nat /\ Len(waiting[c]) \in Nat
  BY <1>0, Elements DEF Basics, Types
<1>2. PICK d \in {0, 1} : Late(c, d)
  BY <1>0 DEF Paired
<1>3. i - d \in 1..Len(waiting[c]) /\ (i - d) + d = i
  <2>1. Len(waiting[c]) + d = Len(replies[c]) + Len(cmds[c]) /\ i \in 2..(Len(replies[c]) + Len(cmds[c]))
    BY <1>2 DEF Late, Shifted, Outstanding
  <2>2. ASSUME NEW x \in Nat, NEW y \in Nat, x + d = y, i \in 2..y PROVE i - d \in 1..x /\ (i - d) + d = i
    BY <2>2
  <2>3. \A x, y \in Nat : x + y \in Nat
    OBVIOUS
  <2> QED
    BY <1>1, <2>1, <2>2, <2>3
<1> QED
  BY <1>2, <1>3 DEF Late, Shifted

LEMMA AckStep ==
    ASSUME Basics, Paired, Begun, Evidence, AckedMeansDone, [TPNext]_tpVars
    PROVE  AckedMeansDone'
<1> SUFFICES ASSUME NEW p \in Paste, Heard(p, "ack")'
             PROVE  Seen("paste", p)' /\ (From[p] \in early' \/ Committed(p)')
  BY DEF AckedMeansDone, Seen
<1> DEFINE c == From[p]
<1>0. c \in Conn /\ early \subseteq early'
  BY MessageAssumption, NeverAgain DEF Message
<1>1. CASE Heard(p, "ack")
  <2>1. Seen("paste", p) /\ (c \in early \/ Committed(p))
    BY <1>1 DEF AckedMeansDone, Seen
  <2> QED
    BY <1>0, <2>1, SeenStays
<1>2. CASE ~Heard(p, "ack")
  <2>1. /\ HandleReply(c) /\ waiting[c] # <<>> /\ Head(waiting[c]).of = p /\ Head(waiting[c]).op = "enter"
        /\ Head(replies[c]).ok /\ step[p] = "entering"
    BY <1>2, AckComes
  <2>2. /\ replies[c] # <<>> /\ replies[c] \in Seq(Reply) /\ waiting[c] \in Seq(Command)
        /\ cmds[c] \in Seq(Command) /\ WaitsAt(c) /\ c \in up
    BY <1>0, <2>1 DEF HandleReply, Basics, Types, Waits, Paired
  <2>3. /\ Head(replies[c]) = replies[c][1] /\ Len(replies[c]) \in Nat /\ Len(replies[c]) > 0
        /\ Head(waiting[c]) = waiting[c][1] /\ Len(waiting[c]) \in Nat /\ Len(waiting[c]) > 0
        /\ Len(cmds[c]) \in Nat
    BY <2>1, <2>2, Elements
  <2>4. \A j \in 1..Len(waiting[c]) : waiting[c][j] # PasteOf(p)
    BY <2>1, <2>2, <2>3 DEF WaitsAt, PasteOf
  <2>5. Seen("paste", p)
    <3>1. ~Pending(p)
      <4> SUFFICES ASSUME NEW k \in 1..Len(cmds[c]), cmds[c][k] = PasteOf(p) PROVE FALSE
        BY DEF Pending
      <4>1. Len(replies[c]) + k \in 2..Outstanding(c)
        BY <2>3, InRange DEF Outstanding
      <4>2. Nth(replies[c], cmds[c], Len(replies[c]) + k) = PasteOf(p)
        BY <2>3 DEF Nth
      <4> QED
        BY <2>2, <2>4, <4>1, <4>2, StillWaited
    <3>2. ~Missed(p)
      <4> SUFFICES ASSUME NEW k \in 2..Len(replies[c]), replies[c][k].to = PasteOf(p) PROVE FALSE
        BY <2>1, <2>3 DEF Missed
      <4>1. k \in 2..Outstanding(c)
        BY <2>3, InRange DEF Outstanding
      <4>2. Nth(replies[c], cmds[c], k) = PasteOf(p)
        BY <2>3 DEF Nth
      <4> QED
        BY <2>2, <2>4, <4>1, <4>2, StillWaited
    <3> QED
      BY <2>1, <2>2, <3>1, <3>2 DEF Evidence, AfterPaste
  <2>6. c \notin early => Committed(p)
    <3>1. c \notin early => Head(replies[c]).to = Head(waiting[c])
      BY <1>0, <2>1, <2>2, InTime
    <3>2. c \notin early => Seen("enter", p)
      BY <1>0, <2>1, <2>3, <3>1 DEF Evidence, GoodReplies
    <3> QED
      BY <3>2 DEF Evidence, AfterPaste
  <2> QED
    BY <1>0, <2>5, <2>6, SeenStays
<1> QED
  BY <1>1, <1>2
LEMMA EvidenceInit == TPInit => Begun /\ Evidence /\ AckedMeansDone
<1> SUFFICES ASSUME TPInit PROVE Begun /\ Evidence /\ AckedMeansDone
  OBVIOUS
<1> USE MessageAssumption DEF TPInit, Message
<1>1. Begun
  BY DEF Begun, BegunAt
<1>2. \A op, m : ~Seen(op, m)
  BY DEF Seen, Place
<1>3. GoodReplies
  BY DEF GoodReplies, Greeting
<1>4. \A p \in Paste : AfterPaste(p)
  BY <1>2 DEF AfterPaste, Open
<1>5. AckedMeansDone
  BY DEF AckedMeansDone, Heard
<1> QED
  BY <1>1, <1>3, <1>4, <1>5 DEF Evidence

\* A phone is told that its paste arrived only when the paste is in the pane,
\* and the Enter after it too wherever the first block of the control client had
\* come before the first command (ctlCmd and the callbacks of paste()).
THEOREM AckedIsDone == TPSpec => []AckedMeansDone
<1>1. /\ Basics /\ Paired /\ Begun /\ Evidence /\ AckedMeansDone
      /\ [TPNext]_tpVars
      => Begun' /\ Evidence' /\ AckedMeansDone'
  BY BegunStep, GoodRepliesStep, AfterPasteStep, AckStep DEF Evidence
<1> QED
  BY TypeInvariant, EvidenceInit, <1>1, PTL DEF TPSpec
-----------------------------------------------------------------------------
\* In order after the step; it was before.
OrderlyThen(m) == m \in Typed \/ (m \in Paste /\ ~ \E i \in 1..Len(told'[m]) : told'[m][i] = "error")

LEMMA OrderlyBefore ==
    ASSUME Basics, [TPNext]_tpVars, NEW m, OrderlyThen(m)
    PROVE  Orderly(m)
<1>1. ASSUME NEW p \in Paste, Heard(p, "error") PROVE Heard(p, "error")'
  <2>1. ASSUME NEW q \in Paste, Fail(q) \/ Confirm(q) \/ UNCHANGED told PROVE Heard(p, "error")'
    BY <1>1, <2>1, HeardStays DEF Basics
  <2>2. ASSUME NEW q \in Paste, LoaderFails(q) \/ PasteTimesOut(q) PROVE Heard(p, "error")'
    BY <2>1, <2>2 DEF LoaderFails, PasteTimesOut
  <2>3. ASSUME NEW c \in Conn, HandleReply(c) PROVE Heard(p, "error")'
    BY <2>1, <2>3, ReplyMoves
  <2>4. CASE UNCHANGED told
    BY <2>1, <2>4
  <2> QED
    BY <2>2, <2>3, <2>4 DEF TPNext, Type, PasteText, Bypass, TypeContent, TypeEnter, StartPaste,
       BufferLoaded, PressEnter, TmuxReads, ConnectionEnds, PaneDies, tpVars
<1> QED
  BY <1>1 DEF Orderly, OrderlyThen, Heard

\* A paste that has gone to tmux is not open again once its pause is over.
LEMMA StaysPast ==
    ASSUME Basics, Begun, [TPNext]_tpVars, NEW p \in Paste, Pending(p) \/ Seen("paste", p), Past(p)
    PROVE  Past(p)'
<1>0. From[p] \in Conn
  BY MessageAssumption DEF Message
<1>1. step[p] \notin Unwritten
  <2>1. CASE Pending(p)
    BY <1>0, <2>1 DEF Pending, PasteOf, Begun, BegunAt
  <2>2. CASE Seen("paste", p)
    BY <2>2 DEF Seen, Place, Begun
  <2> QED
    BY <2>1, <2>2
<1>2. ~BufferLoaded(p)
  BY <1>1 DEF BufferLoaded, Unwritten
<1>3. step[p] = "entering" => step'[p] \notin Open
  <2> USE MessageAssumption DEF Message, Open
  <2>1. step \in [Message -> Steps] /\ \A m \in Message : step[m] = "typing" => m \in Typed
    BY DEF Basics, Types, InTurn
  <2>2. ASSUME NEW m \in Message, step[p] = "entering",
               Type(m) \/ PasteText(m) \/ Bypass(m) \/ TypeContent(m) \/ TypeEnter(m)
        PROVE  step'[p] \notin Open
    BY <2>1, <2>2 DEF Type, PasteText, Bypass, TypeContent, TypeEnter
  <2>3. ASSUME NEW q \in Paste, step[p] = "entering",
               StartPaste(q) \/ BufferLoaded(q) \/ LoaderFails(q) \/ PasteTimesOut(q) \/ PressEnter(q)
        PROVE  step'[p] \notin Open
    BY <2>1, <2>3 DEF StartPaste, BufferLoaded, LoaderFails, PasteTimesOut, PressEnter
  <2>4. ASSUME NEW c \in Conn, HandleReply(c), step[p] = "entering" PROVE step'[p] \notin Open
    BY <2>1, <2>4, ReplyMoves
  <2> QED
    BY <2>2, <2>3, <2>4 DEF TPNext, TmuxReads, ConnectionEnds, PaneDies, queueVars, tpVars
<1> QED
  BY <1>2, <1>3, StepOpens DEF Past, Open

\* Who writes in order is the first of the queue: no other paste of the phone
\* is open then.
LEMMA WriterRuns ==
    ASSUME Basics, Begun, [TPNext]_tpVars, NEW p \in Paste, Orderly(p), Pending(p) \/ Seen("paste", p),
           NEW m \in Message, m # p, From[m] = From[p], Orderly(m),
           m \in Typed => Running(m),
           m \in Paste => step[m] \in {"loading", "pausing"}
    PROVE  Past(p)
<1>1. Running(m)
  BY MessageAssumption DEF Orderly, Basics, InTurn, Open
<1>2. ~Running(p)
  BY <1>1 DEF Running
<1> QED
  BY <1>2, MessageAssumption DEF Basics, InTurn, Orderly, Past
\* A write: either it is p's own Enter, and p is then past, or p was past.
LEMMA WritesInTurn ==
    ASSUME Basics, Begun, Undivided, [TPNext]_tpVars, NEW p \in Paste, Orderly(p),
           Pending(p) \/ Seen("paste", p),
           NEW cmd \in Command, Fits(From[p], cmd), UNCHANGED told,
           cmd.of \in Typed => Running(cmd.of),
           cmd.of \in Paste =>
             \/ /\ cmd = PasteOf(cmd.of) /\ step[cmd.of] = "loading"
                /\ step'[cmd.of] = "pasting" /\ name[cmd.of] \in DOMAIN buffer'
             \/ /\ cmd = EnterOf(cmd.of) /\ step[cmd.of] = "pausing"
                /\ step'[cmd.of] = "entering"
    PROVE  /\ Orderly(cmd.of) => Past(p)'
           /\ cmd = EnterOf(p) => step[p] = "pausing"
<1>1. step[p] \notin Unwritten
  <2>1. From[p] \in Conn
    BY MessageAssumption DEF Message
  <2> QED
    BY <2>1 DEF Pending, PasteOf, Begun, BegunAt, Seen, Place
<1>2. cmd = EnterOf(p) => step[p] = "pausing"
  BY DEF EnterOf, PasteOf
<1>3. ASSUME Orderly(cmd.of), cmd.of = p PROVE Past(p)'
  BY <1>1, <1>3 DEF Unwritten, Past, Open
<1>4. ASSUME Orderly(cmd.of), cmd.of # p PROVE Past(p)'
  <2>1. cmd.of \in Message /\ From[cmd.of] = From[p]
    BY DEF Command, Fits
  <2>2. cmd.of \in Paste => step[cmd.of] \in {"loading", "pausing"}
    OBVIOUS
  <2>3. Past(p)
    BY <1>4, <2>1, <2>2, WriterRuns
  <2> QED
    BY <2>3, StaysPast
<1> QED
  BY <1>2, <1>3, <1>4

LEMMA UndividedWhenWritten ==
    ASSUME Basics, Begun, Undivided, [TPNext]_tpVars, \A d \in Conn : ~TmuxReads(d),
           NEW p \in Paste, OrderlyThen(p)
    PROVE  Behind(p)' /\ Between(p)' /\ Before(p)'
<1> DEFINE c == From[p]
<1>0. /\ c \in Conn /\ cmds[c] \in Seq(Command) /\ Orderly(p) /\ UNCHANGED input
      /\ Behind(p) /\ Between(p) /\ Before(p)
  BY MessageAssumption, OrderlyBefore, InputMoves DEF Message, Basics, Types, Undivided
<1>1. \A m : OrderlyThen(m) => Orderly(m)
  BY OrderlyBefore
<1>2. Pending(p) \/ Seen("paste", p) => (Past(p) => Past(p)')
  BY StaysPast
<1>3. (\A op : Place(op, p)' = Place(op, p)) /\ (Seen("paste", p)' <=> Seen("paste", p))
  BY <1>0 DEF Place, Seen
<1>4. \A i \in 1..Len(cmds[c]) : cmds[c][i] = PasteOf(p) => Pending(p)
  BY DEF Pending
<1>5. \A i \in Place("paste", p) : Seen("paste", p)
  BY DEF Seen
<1> HIDE DEF c
<1>6. CASE cmds'[c] = cmds[c]
  <2>1. Behind(p)'
    BY <1>0, <1>1, <1>2, <1>4, <1>6 DEF Behind, Orderly, OrderlyThen, Heard, c
  <2>2. Between(p)'
    BY <1>0, <1>1, <1>2, <1>3, <1>6 DEF Between, Orderly, OrderlyThen, Heard, c
  <2>3. Before(p)'
    BY <1>0, <1>1, <1>2, <1>3, <1>5, <1>6 DEF Before, Orderly, OrderlyThen, Heard, c
  <2> QED
    BY <2>1, <2>2, <2>3
<1>7. CASE cmds'[c] = <<>>
  <2>1. Behind(p)' /\ Between(p)'
    BY <1>7 DEF Behind, Between, c
  <2>2. Before(p)'
    BY <1>0, <1>1, <1>2, <1>3, <1>5, <1>7 DEF Before, Orderly, OrderlyThen, Heard, c
  <2> QED
    BY <2>1, <2>2
<1>8. ASSUME NEW cmd \in Command, cmds'[c] = Append(cmds[c], cmd),
             Pending(p) \/ Seen("paste", p) =>
               /\ OrderlyThen(cmd.of) => Past(p)'
               /\ cmd = EnterOf(p) => ~Past(p)
      PROVE  Behind(p)' /\ Between(p)' /\ Before(p)'
  <2>1. /\ Len(cmds'[c]) = Len(cmds[c]) + 1 /\ cmds'[c][Len(cmds[c]) + 1] = cmd
        /\ \A i \in 1..Len(cmds[c]) : cmds'[c][i] = cmds[c][i]
        /\ Len(cmds[c]) \in Nat
    BY <1>0, <1>8, Elements
  <2>2. ASSUME NEW i \in 1..Len(cmds'[c]), NEW k \in 1..Len(cmds'[c]), i < k,
               cmds'[c][i] = PasteOf(p), OrderlyThen(cmds'[c][k].of)
        PROVE  Past(p)' /\ \A j \in (k + 1)..Len(cmds'[c]) : cmds'[c][j] # EnterOf(p)
    <3>1. i \in 1..Len(cmds[c]) /\ cmds[c][i] = PasteOf(p) /\ Pending(p)
      BY <1>4, <2>1, <2>2
    <3>2. CASE k = Len(cmds[c]) + 1
      BY <1>8, <2>1, <2>2, <3>1, <3>2
    <3>3. CASE k \in 1..Len(cmds[c])
      <4>1. Past(p) /\ \A j \in (k + 1)..Len(cmds[c]) : cmds[c][j] # EnterOf(p)
        BY <1>0, <1>1, <2>1, <2>2, <3>1, <3>3 DEF Behind, c
      <4>2. cmd # EnterOf(p)
        BY <1>8, <3>1, <4>1
      <4>3. \A j \in (k + 1)..Len(cmds'[c]) : j \in (k + 1)..Len(cmds[c]) \/ j = Len(cmds[c]) + 1
        BY <2>1, <3>3
      <4>4. \A j \in (k + 1)..Len(cmds[c]) : j \in 1..Len(cmds[c])
        BY <2>1, <3>3
      <4> QED
        BY <1>2, <2>1, <3>1, <4>1, <4>2, <4>3, <4>4
    <3> QED
      BY <2>1, <3>2, <3>3
  <2>3. ASSUME NEW k \in 1..Len(cmds'[c]), Seen("paste", p), OrderlyThen(cmds'[c][k].of)
        PROVE  Past(p)' /\ \A j \in (k + 1)..Len(cmds'[c]) : cmds'[c][j] # EnterOf(p)
    <3>2. CASE k = Len(cmds[c]) + 1
      BY <1>8, <2>1, <2>3, <3>2
    <3>3. CASE k \in 1..Len(cmds[c])
      <4>1. Past(p) /\ \A j \in (k + 1)..Len(cmds[c]) : cmds[c][j] # EnterOf(p)
        BY <1>0, <1>1, <2>1, <2>3, <3>3 DEF Between, c
      <4>2. cmd # EnterOf(p)
        BY <1>8, <2>3, <4>1
      <4>3. \A j \in (k + 1)..Len(cmds'[c]) : j \in (k + 1)..Len(cmds[c]) \/ j = Len(cmds[c]) + 1
        BY <2>1, <3>3
      <4>4. \A j \in (k + 1)..Len(cmds[c]) : j \in 1..Len(cmds[c])
        BY <2>1, <3>3
      <4> QED
        BY <1>2, <2>1, <2>3, <4>1, <4>2, <4>3, <4>4
    <3> QED
      BY <2>1, <3>2, <3>3
  <2>4. ASSUME NEW i \in Place("paste", p), NEW k \in 1..Len(input), i < k, From[input[k].of] = c,
               OrderlyThen(input[k].of)
        PROVE  /\ Past(p)'
               /\ \A j \in 1..Len(cmds'[c]) : cmds'[c][j] # EnterOf(p)
               /\ \A j \in Place("enter", p) : j \leq k
    <3>1. /\ Past(p)
          /\ \A j \in 1..Len(cmds[c]) : cmds[c][j] # EnterOf(p)
          /\ \A j \in Place("enter", p) : j \leq k
      BY <1>0, <1>1, <2>4 DEF Before, c
    <3>2. cmd # EnterOf(p)
      BY <1>5, <1>8, <2>4, <3>1
    <3>3. \A j \in 1..Len(cmds'[c]) : j \in 1..Len(cmds[c]) \/ j = Len(cmds[c]) + 1
      BY <2>1
    <3> QED
      BY <1>2, <1>5, <2>1, <2>4, <3>1, <3>2, <3>3
  <2> QED
    <3>1. Behind(p)'
      BY <2>2 DEF Behind, Orderly, OrderlyThen, Heard, c
    <3>2. Between(p)'
      BY <1>3, <2>3 DEF Between, Orderly, OrderlyThen, Heard, c
    <3>3. Before(p)'
      BY <1>0, <1>3, <2>4 DEF Before, Orderly, OrderlyThen, Heard, c
    <3> QED
      BY <3>1, <3>2, <3>3
<1>9. \/ cmds'[c] = cmds[c]
      \/ cmds'[c] = <<>>
      \/ \E cmd \in Command :
           /\ cmds'[c] = Append(cmds[c], cmd)
           /\ Pending(p) \/ Seen("paste", p) =>
                /\ Orderly(cmd.of) => Past(p)'
                /\ cmd = EnterOf(p) => ~Past(p)
  <2>1. ASSUME NEW cmd \in Command,
               cmds'[c] = Append(cmds[c], cmd), Fits(c, cmd), UNCHANGED told,
               cmd.of \in Typed => Running(cmd.of),
               cmd.of \in Paste =>
                 \/ /\ cmd = PasteOf(cmd.of) /\ step[cmd.of] = "loading"
                    /\ step'[cmd.of] = "pasting" /\ name[cmd.of] \in DOMAIN buffer'
                 \/ /\ cmd = EnterOf(cmd.of) /\ step[cmd.of] = "pausing"
                    /\ step'[cmd.of] = "entering"
        PROVE  Pending(p) \/ Seen("paste", p) =>
                 /\ Orderly(cmd.of) => Past(p)'
                 /\ cmd = EnterOf(p) => ~Past(p)
    BY <1>0, <2>1, WritesInTurn DEF Past, Open, c
  <2> QED
    BY <1>0, <2>1, CmdsMove
<1>10. ASSUME NEW cmd \in Command, Pending(p) \/ Seen("paste", p) => (Orderly(cmd.of) => Past(p)')
       PROVE  Pending(p) \/ Seen("paste", p) => (OrderlyThen(cmd.of) => Past(p)')
  BY <1>1, <1>10
<1> QED
  BY <1>6, <1>7, <1>8, <1>9, <1>10
LEMMA UndividedWhenRead ==
    ASSUME Basics, Undivided, NEW d \in Conn, TmuxReads(d), NEW p \in Paste, Orderly(p)
    PROVE  Behind(p)' /\ Between(p)' /\ Before(p)'
<1> DEFINE c == From[p]
           cmd == Head(cmds[d])
<1>0. /\ c \in Conn /\ cmds[c] \in Seq(Command) /\ input \in Seq(Entry) /\ Len(input) \in Nat
      /\ Behind(p) /\ Between(p) /\ Before(p)
  BY MessageAssumption, Elements DEF Message, Basics, Types, Undivided
<1>1. /\ UNCHANGED <<told, step>> /\ cmds[d] # <<>> /\ cmds'[d] = Tail(cmds[d])
      /\ c # d => cmds'[c] = cmds[c]
      /\ cmd = cmds[d][1] /\ cmd \in Command /\ Fits(d, cmd)
      /\ UNCHANGED input \/ \E e : input' = Append(input, e) /\ e.op = cmd.op /\ e.of = cmd.of
  BY <1>0, ReadMoves
<1>2. (\A m : Orderly(m)' <=> Orderly(m)) /\ (Past(p)' <=> Past(p))
  BY <1>1 DEF Orderly, Heard, Past
<1>i. /\ Len(input) \leq Len(input') /\ Len(input') \leq Len(input) + 1 /\ Len(input') \in Nat
      /\ \A k \in 1..Len(input) : input'[k] = input[k]
      /\ Len(input') = Len(input) + 1 => /\ input'[Len(input) + 1].op = cmd.op
                                         /\ input'[Len(input) + 1].of = cmd.of
  BY <1>0, <1>1, Elements
<1>3. ASSUME NEW op, NEW i \in Place(op, p)'
      PROVE  i \in Place(op, p) \/ (i = Len(input) + 1 /\ cmd.op = op /\ cmd.of = p)
  <2>1. i \in 1..Len(input') /\ input'[i].op = op /\ input'[i].of = p
    BY <1>3 DEF Place
  <2>2. i \in 1..Len(input) \/ (i = Len(input) + 1 /\ Len(input') = Len(input) + 1)
    BY <1>i, <2>1
  <2> QED
    BY <1>i, <2>1, <2>2 DEF Place
<1>4. \A op : \A i \in Place(op, p) : i \in 1..Len(input)
  BY DEF Place
<1> HIDE DEF c, cmd
<1>5. CASE c # d
  <2>1. cmds'[c] = cmds[c] /\ cmd.of # p /\ From[cmd.of] # c
    BY <1>1, <1>5 DEF Fits, c
  <2>2. \A op : Place(op, p)' \subseteq Place(op, p)
    BY <1>3, <2>1
  <2>3. Behind(p)' /\ Between(p)'
    BY <1>0, <1>1, <2>1, <2>2 DEF Behind, Between, Seen, Orderly, Heard, Past, c
  <2>4. ASSUME NEW i \in Place("paste", p)', NEW k \in 1..Len(input'), i < k,
               From[input'[k].of] = c, Orderly(input'[k].of)
        PROVE  /\ Past(p)
               /\ \A j \in 1..Len(cmds[c]) : cmds[c][j] # EnterOf(p)
               /\ \A j \in Place("enter", p) : j \leq k
    <3>1. k \in 1..Len(input)
      BY <1>i, <2>1, <2>4
    <3> QED
      BY <1>0, <1>i, <2>2, <2>4, <3>1 DEF Before, c
  <2>5. Before(p)'
    BY <1>1, <2>1, <2>2, <2>4 DEF Before, Orderly, Heard, Past, c
  <2> QED
    BY <2>3, <2>5
<1>6. CASE c = d
  <2>1. /\ Len(cmds'[c]) + 1 = Len(cmds[c]) /\ Len(cmds[c]) \in Nat /\ Len(cmds[c]) > 0
        /\ \A i \in 1..Len(cmds'[c]) : i + 1 \in 1..Len(cmds[c]) /\ cmds'[c][i] = cmds[c][i + 1]
        /\ cmds[c][1] = cmd
    <3>1. cmds[c] # <<>> /\ cmds'[c] = Tail(cmds[c]) /\ cmd = cmds[c][1]
      BY <1>1, <1>6
    <3> QED
      BY <1>0, <3>1, Elements
  <2>a. PasteOf(p) \in Command /\ PasteOf(p).op = "paste" /\ PasteOf(p).of = p
    BY DEF PasteOf, Command, Message
  <2>b. EnterOf(p) \in Command /\ EnterOf(p).op = "enter" /\ EnterOf(p).of = p
    BY DEF EnterOf, Command, Message
  <2>2. \A i : i \in Place("paste", p)' => i \in Place("paste", p) \/ (i = Len(input) + 1 /\ cmd = PasteOf(p))
    BY <1>1, <1>3, <2>a, SameCommand
  <2>3. \A i : i \in Place("enter", p)' => i \in Place("enter", p) \/ (i = Len(input) + 1 /\ cmd = EnterOf(p))
    BY <1>1, <1>3, <2>b, SameCommand
  <2>4. ASSUME NEW k \in 1..Len(cmds'[c]),
               Past(p) /\ \A j \in ((k + 1) + 1)..Len(cmds[c]) : cmds[c][j] # EnterOf(p)
        PROVE  Past(p) /\ \A j \in (k + 1)..Len(cmds'[c]) : cmds'[c][j] # EnterOf(p)
    <3>1. ASSUME NEW j \in (k + 1)..Len(cmds'[c]) PROVE cmds'[c][j] # EnterOf(p)
      <4>1. j \in 1..Len(cmds'[c]) /\ j + 1 \in ((k + 1) + 1)..Len(cmds[c])
        BY <2>1
      <4> QED
        BY <2>1, <2>4, <4>1
    <3> QED
      BY <2>4, <3>1
  <2>5. ASSUME NEW i \in 1..Len(cmds'[c]), NEW k \in 1..Len(cmds'[c]), i < k,
               cmds'[c][i] = PasteOf(p), Orderly(cmds'[c][k].of)
        PROVE  Past(p) /\ \A j \in (k + 1)..Len(cmds'[c]) : cmds'[c][j] # EnterOf(p)
    <3>1. /\ i + 1 \in 1..Len(cmds[c]) /\ k + 1 \in 1..Len(cmds[c]) /\ i + 1 < k + 1
          /\ cmds[c][i + 1] = PasteOf(p) /\ cmds'[c][k] = cmds[c][k + 1]
      BY <2>1, <2>5
    <3>2. Past(p) /\ \A j \in ((k + 1) + 1)..Len(cmds[c]) : cmds[c][j] # EnterOf(p)
      BY <1>0, <2>5, <3>1 DEF Behind, c
    <3> QED
      BY <2>4, <3>2
  <2>6. ASSUME Seen("paste", p)', NEW k \in 1..Len(cmds'[c]), Orderly(cmds'[c][k].of)
        PROVE  Past(p) /\ \A j \in (k + 1)..Len(cmds'[c]) : cmds'[c][j] # EnterOf(p)
    <3>1. k + 1 \in 1..Len(cmds[c]) /\ cmds'[c][k] = cmds[c][k + 1] /\ 1 < k + 1
      BY <2>1
    <3>2. Seen("paste", p) \/ cmds[c][1] = PasteOf(p)
      BY <2>1, <2>2, <2>6 DEF Seen
    <3>3. 1 \in 1..Len(cmds[c])
      BY <2>1
    <3>4. Past(p) /\ \A j \in ((k + 1) + 1)..Len(cmds[c]) : cmds[c][j] # EnterOf(p)
      BY <1>0, <2>6, <3>1, <3>2, <3>3 DEF Behind, Between, c
    <3> QED
      BY <2>4, <3>4
  <2>7. ASSUME NEW i \in Place("paste", p)', NEW k \in 1..Len(input'), i < k,
               From[input'[k].of] = c, Orderly(input'[k].of)
        PROVE  /\ Past(p)
               /\ \A j \in 1..Len(cmds'[c]) : cmds'[c][j] # EnterOf(p)
               /\ \A j \in Place("enter", p)' : j \leq k
    <3>1. i \in Place("paste", p) /\ i \in 1..Len(input)
      BY <1>i, <1>4, <2>2, <2>7
    <3>2. CASE k \in 1..Len(input)
      <4>1. /\ Past(p)
            /\ \A j \in 1..Len(cmds[c]) : cmds[c][j] # EnterOf(p)
            /\ \A j \in Place("enter", p) : j \leq k
        BY <1>0, <1>i, <2>7, <3>1, <3>2 DEF Before, c
      <4>2. cmd # EnterOf(p)
        BY <2>1, <4>1
      <4> QED
        BY <2>1, <2>3, <4>1, <4>2
    <3>3. CASE k = Len(input) + 1
      <4>1. Orderly(cmds[c][1].of) /\ Seen("paste", p) /\ 1 \in 1..Len(cmds[c])
        BY <1>i, <2>1, <2>7, <3>1, <3>3 DEF Seen
      <4>2. Past(p) /\ \A j \in (1 + 1)..Len(cmds[c]) : cmds[c][j] # EnterOf(p)
        BY <1>0, <4>1 DEF Between, c
      <4>3. \A j \in 1..Len(cmds'[c]) : j + 1 \in (1 + 1)..Len(cmds[c])
        BY <2>1
      <4>4. \A j \in Place("enter", p)' : j \leq k
        BY <1>0, <1>4, <2>3, <3>3
      <4> QED
        BY <2>1, <4>2, <4>3, <4>4
    <3> QED
      BY <1>i, <3>2, <3>3
  <2>8. Behind(p)'
    BY <1>1, <2>5 DEF Behind, Orderly, Heard, Past, c
  <2>9. Between(p)'
    BY <1>1, <2>6 DEF Between, Orderly, Heard, Past, c
  <2>10. Before(p)'
    BY <1>1, <2>7 DEF Before, Orderly, Heard, Past, c
  <2> QED
    BY <2>8, <2>9, <2>10
<1> QED
  BY <1>5, <1>6

LEMMA UndividedStep == ASSUME Basics, Begun, Undivided, [TPNext]_tpVars PROVE Undivided'
<1> SUFFICES ASSUME NEW p \in Paste, Orderly(p)' PROVE Behind(p)' /\ Between(p)' /\ Before(p)'
  BY DEF Undivided
<1>1. OrderlyThen(p)
  BY DEF Orderly, OrderlyThen, Heard
<1> QED
  BY <1>1, OrderlyBefore, UndividedWhenWritten, UndividedWhenRead

\* Between a paste and its Enter nothing of the same phone's queue comes to the
\* pane, except for a paste that timed out (typeQueue and finish() in
\* pane-source.js).
THEOREM IsUndivided == TPSpec => []PasteIsUndivided
<1>1. TPInit => Begun /\ Undivided
  <2> SUFFICES ASSUME TPInit PROVE Undivided
    BY EvidenceInit
  <2>1. input = <<>> /\ \A c \in Conn : cmds[c] = <<>>
    BY DEF TPInit
  <2>2. \A op, m : Place(op, m) = {}
    BY <2>1 DEF Place
  <2>3. \A p \in Paste : cmds[From[p]] = <<>>
    BY <2>1, MessageAssumption
  <2> QED
    BY <2>2, <2>3 DEF Undivided, Behind, Between, Before, Seen
<1>2. Basics /\ Begun /\ Undivided /\ [TPNext]_tpVars => Begun' /\ Undivided'
  BY BegunStep, UndividedStep
<1>3. Basics /\ Undivided => PasteIsUndivided
  <2> SUFFICES ASSUME Basics, Undivided, NEW p \in Paste, NEW i \in Place("paste", p), NEW j \in Place("enter", p),
                      Orderly(p), NEW k \in (i + 1)..(j - 1), From[input[k].of] = From[p],
                      Orderly(input[k].of)
               PROVE  FALSE
    BY DEF PasteIsUndivided
  <2>1. Len(input) \in Nat
    BY Elements DEF Basics, Types
  <2>2. i \in 1..Len(input) /\ j \in 1..Len(input)
    BY DEF Place
  <2>3. k \in 1..Len(input) /\ i < k /\ ~(j \leq k)
    BY <2>1, <2>2
  <2> QED
    BY <2>3 DEF Undivided, Before
<1> QED
  BY TypeInvariant, <1>1, <1>2, <1>3, PTL DEF TPSpec

(***************************************************************************)
(* PaneGroup: the inductive invariant.                                     *)
(***************************************************************************)
Owns(d, n) == n \in DOMAIN sess /\ sess[n].owner = d
Gone(d) == run[d].pc = "dead"
SomeGone == \E d \in Daemons : Gone(d)

\* Where killGroupSession() is called, who is disturbed, and who has a connection.
InPlace ==
    \A d \in Daemons :
        /\ run[d].kill # "no" => run[d].pc \in {"reclaim", "create", "idle", "exit"}
        /\ d \in disturbed => AtWork(d) \/ Serves(d)
        /\ Serves(d) => run[d].conns # 0

\* The session of a living daemon is the one it has by name, or is about to
\* kill; it has a marker as soon as it has passed set-option.
OwnerHasName ==
    \A n \in DOMAIN sess : \A d \in Daemons : sess[n].owner = d =>
        \/ /\ run[d].pc = "mark" /\ n = run[d].name
        \/ /\ run[d].pc \in {"verify", "serving"} /\ n = run[d].name
           /\ sess[n].marker # Unmarked
        \/ /\ run[d].pc \in {"idle", "exit"} /\ run[d].kill # "no" /\ n = run[d].target
           /\ sess[n].marker # Unmarked
        \/ Gone(d)

OneEach == \A n, m \in DOMAIN sess : sess[n].owner = sess[m].owner /\ sess[n].owner \in Daemons => n = m

MarkersAreOwners ==
    ~strayMark => \A n \in DOMAIN sess : sess[n].marker \in {Unmarked, sess[n].owner}

OneAtWork ==
    ~beside => \A d, e \in Daemons : AtWork(d) /\ AtWork(e) => d = e

\* The session of an undisturbed daemon is there.
GroupIsThere ==
    \A d \in Daemons : d \notin disturbed /\ ~Astray =>
        /\ run[d].pc \in {"mark", "verify", "serving"} => Owns(d, run[d].name)
        /\ run[d].pc \in {"idle", "exit"} /\ run[d].kill # "no" => Owns(d, run[d].target)

\* What a first connection has listed, and what it is about to kill.
Alone(d) == ~beside /\ ~strayMark /\ d \notin disturbed

ListedAreOthers ==
    \A d \in Daemons : run[d].pc = "reclaim" =>
        \A s \in run[d].todo :
            /\ ~strayMark => s[2] # d
            /\ Alone(d) /\ s[1] \in DOMAIN sess => sess[s[1]].owner = s[2]

VictimsAreGone ==
    \A d \in Daemons : run[d].kill # "no" /\ run[d].pc \in {"reclaim", "create"} =>
        /\ ~strayMark => SomeGone
        /\ Alone(d) /\ run[d].target \in DOMAIN sess =>
            sess[run[d].target].owner \in Daemons /\ Gone(sess[run[d].target].owner)

\* Something is left of the group.
Remains(n) == \E m \in Group : m # n

PaneIsKept ==
    \A d \in Daemons : Alone(d) /\ ~TwoAreGone =>
        /\ run[d].pc = "reclaim" /\ run[d].kill # "no" /\ run[d].target \in DOMAIN sess =>
            Remains(run[d].target)
        /\ run[d].pc = "reclaim" =>
            \A s \in run[d].todo : s[1] \in DOMAIN sess /\ (SomeGone => Gone(s[2])) =>
                Remains(s[1])
        /\ run[d].pc = "claim" => run[d].base \in Group
        /\ run[d].pc = "create" /\ run[d].kill # "no" =>
            run[d].base \in Group /\ run[d].base # run[d].target

PgInv == /\ GroupTypeOK /\ InPlace /\ OwnerHasName /\ OneEach /\ MarkersAreOwners
         /\ OneAtWork /\ GroupIsThere /\ ListedAreOthers /\ VictimsAreGone /\ PaneIsKept
(***************************************************************************)
(* The steps, field by field.                                              *)
(***************************************************************************)
\* Only d goes on, and p is where it gets.
Gets(d, p) ==
    /\ \A e \in Daemons \ {d} : run'[e] = run[e]
    /\ run'[d].pc = p

SameNames(d) == run'[d].name = run[d].name /\ run'[d].base = run[d].base
NoKill(d) == run[d].kill = "no" /\ run'[d].kill = "no"

\* killGroupSession(): the look, and the kill.
Looks(d) ==
    /\ Gets(d, run[d].pc) /\ SameNames(d) /\ run'[d].todo = run[d].todo
    /\ run[d].kill = "check" /\ run'[d].target = run[d].target
    /\ run'[d].kill = IF run[d].target \in DOMAIN sess /\ sess[run[d].target].marker # Unmarked
                      THEN "kill" ELSE "no"
    /\ UNCHANGED sess
Slays(d) ==
    /\ Gets(d, run[d].pc) /\ SameNames(d) /\ run'[d].todo = run[d].todo
    /\ run[d].kill = "kill" /\ run'[d].kill = "no" /\ Kills(d)
    /\ sess' = Without(run[d].target)

\* A first connection, up to the kill of what is listed.
Lists(d) ==
    /\ Gets(d, "reclaim") /\ NoKill(d) /\ run[d].pc = "idle" /\ run'[d].todo = Shadows
    /\ UNCHANGED sess
Sorts(d) ==
    /\ Gets(d, "reclaim") /\ run[d].pc = "reclaim" /\ run[d].kill = "no"
    /\ run'[d].todo \subseteq run[d].todo
    /\ \/ run'[d].kill = "no"
       \/ /\ run'[d].kill = "check"
          /\ \E s \in run[d].todo : run'[d].target = s[1] /\ IsReclaimableMarker(s[2], d)
    /\ UNCHANGED sess

\* The base, and the claim of a name.
Bases(d) ==
    /\ Gets(d, "claim") /\ NoKill(d) /\ run[d].pc = "reclaim" /\ run'[d].base \in Real
    /\ UNCHANGED sess
Counts(d) ==
    /\ Gets(d, run[d].pc) /\ NoKill(d) /\ SameNames(d) /\ run[d].pc \in {"claim", "serving"}
    /\ run[d].pc = "serving" => run'[d].conns # 0
    /\ UNCHANGED sess
TakesFree(d) ==
    /\ Gets(d, "create") /\ NoKill(d) /\ run[d].pc = "claim"
    /\ UNCHANGED sess
TakesOver(d) ==
    /\ Gets(d, "create") /\ run[d].kill = "no" /\ run[d].pc = "claim"
    /\ run'[d].kill = "check" /\ run'[d].base = run[d].base
    /\ run'[d].target \in DOMAIN sess /\ IsReclaimableMarker(sess[run'[d].target].marker, d)
    /\ run'[d].target # run[d].base
    /\ UNCHANGED sess

\* The group: new, marked, in use.
Makes(d) ==
    /\ Gets(d, "mark") /\ NoKill(d) /\ SameNames(d) /\ run[d].pc = "create"
    /\ run[d].name \notin DOMAIN sess /\ DOMAIN sess' = DOMAIN sess \cup {run[d].name}
    /\ \A n \in DOMAIN sess : sess'[n] = sess[n]
    /\ sess'[run[d].name].marker = Unmarked /\ sess'[run[d].name].owner = d
Stamps(d) ==
    /\ Gets(d, "verify") /\ NoKill(d) /\ SameNames(d) /\ run[d].pc = "mark"
    /\ DOMAIN sess' = DOMAIN sess
    /\ \E n \in DOMAIN sess :
        /\ run[d].name \in DOMAIN sess => n = run[d].name
        /\ \A m \in DOMAIN sess \ {n} : sess'[m] = sess[m]
        /\ sess'[n].marker = d /\ sess'[n].owner = sess[n].owner /\ sess'[n].grouped = sess[n].grouped
Settles(d) ==
    /\ Gets(d, "serving") /\ NoKill(d) /\ SameNames(d) /\ run[d].pc = "verify"
    /\ run'[d].conns # 0
    /\ UNCHANGED sess

\* The group is to be killed: it did not turn out well, or nobody looks any more.
Drops(d) ==
    /\ \E p \in {"idle", "exit"} : Gets(d, p)
    /\ run[d].pc \in {"verify", "serving"} /\ run[d].kill = "no"
    /\ run'[d].kill = "check" /\ run'[d].target = run[d].name
    /\ UNCHANGED sess

\* Nothing to kill.
GivesUp(d) ==
    /\ Gets(d, "idle") /\ NoKill(d) /\ run[d].pc \in {"none", "reclaim", "claim", "create", "mark"}
    /\ run[d].pc = "mark" => run[d].name \notin DOMAIN sess
    /\ UNCHANGED sess
Stops(d) == Gets(d, "exit") /\ NoKill(d) /\ run[d].pc = "idle" /\ UNCHANGED sess
Vanishes(d) ==
    /\ Gets(d, "dead") /\ run[d].pc \notin {"none", "dead"} /\ run'[d].kill = "no"
    /\ UNCHANGED sess

UserMoves ==
    /\ UNCHANGED run
    /\ \/ \E n \in Seq(Nat) :
            /\ n \notin DOMAIN sess /\ DOMAIN sess' = DOMAIN sess \cup {n}
            /\ \A m \in DOMAIN sess : sess'[m] = sess[m]
            /\ sess'[n].marker = Unmarked /\ sess'[n].owner = Unmarked
       \/ \E n \in DOMAIN sess : sess' = Without(n)

DaemonMove(d) ==
    \/ Looks(d) \/ Slays(d) \/ Lists(d) \/ Sorts(d) \/ Bases(d) \/ Counts(d) \/ TakesFree(d)
    \/ TakesOver(d) \/ Makes(d) \/ Stamps(d) \/ Settles(d) \/ Drops(d) \/ GivesUp(d) \/ Stops(d)
    \/ Vanishes(d)

GroupMove == (\E d \in Daemons : DaemonMove(d)) \/ (UserActs /\ UserMoves)

\* The record of a daemon and the table of tmux keep their types.
LEMMA GoesFacts ==
    ASSUME run \in [Daemons -> Run], NEW d \in Daemons, NEW STATE r, r \in Run, Goes(d, r)
    PROVE  run' \in [Daemons -> Run] /\ Gets(d, r.pc) /\ run'[d] = r
  BY DEF Goes, Gets

LEMMA WithoutFacts ==
    ASSUME sess \in [DOMAIN sess -> Session], NEW n
    PROVE  /\ DOMAIN Without(n) = DOMAIN sess \ {n}
           /\ \A m \in DOMAIN sess \ {n} : Without(n)[m] = sess[m]
           /\ Without(n) \in [DOMAIN Without(n) -> Session]
  BY DEF Without

LEMMA NamesAreSeqs ==
    ASSUME NEW b \in Seq(Nat), NEW i \in Nat
    PROVE  Candidate(b, i) \in Seq(Nat) /\ Candidate(b, i) # b /\ User \in Seq(Nat)
  <1>1. Append(b, i) \in Seq(Nat) /\ Len(Append(b, i)) = Len(b) + 1 /\ Len(b) \in Nat
    OBVIOUS
  <1> QED
    BY <1>1 DEF Candidate, User

\* What the records of the daemons are made of.
LEMMA RunFields ==
    ASSUME run \in [Daemons -> Run], NEW d \in Daemons
    PROVE  /\ run[d] \in Run /\ run[d].base \in Seq(Nat) /\ run[d].name \in Seq(Nat)
           /\ run[d].target \in Seq(Nat) /\ run[d].i \in Nat /\ run[d].conns \in 0 .. MaxConns
           /\ run[d].todo \subseteq Seq(Nat) \X Daemons /\ run[d].kill \in {"no", "check", "kill"}
  <1>1. run[d] \in Run
    OBVIOUS
  <1> QED
    BY <1>1 DEF Run

\* A daemon that has nothing, at pc.
LEMMA FreshFacts ==
    ASSUME NEW p \in {"idle", "dead"}
    PROVE  /\ [Idle EXCEPT !.pc = p] \in Run
           /\ [Idle EXCEPT !.pc = p].pc = p /\ [Idle EXCEPT !.pc = p].kill = "no"
  <1>1. << >> \in Seq(Nat) /\ 0 \in 0 .. MaxConns /\ {} \in SUBSET (Seq(Nat) \X Daemons)
    BY GroupAssumption
  <1>2. Idle \in Run /\ Idle.kill = "no"
    BY <1>1 DEF Idle, Run, User
  <1> QED
    BY <1>2 DEF Run, Idle

LEMMA KillSteps ==
    ASSUME GroupTypeOK, NEW d \in Daemons, KillChecks(d) \/ Kills(d)
    PROVE  run' \in [Daemons -> Run] /\ sess' \in [DOMAIN sess' -> Session]
           /\ DOMAIN sess' \subseteq DOMAIN sess /\ (Looks(d) \/ Slays(d))
  <1> USE DEF GroupTypeOK
  <1>1. CASE KillChecks(d)
    <2> DEFINE k == IF IsOurGroupSession(run[d].target) THEN "kill" ELSE "no"
    <2> DEFINE r == [run[d] EXCEPT !.kill = k]
    <2>1. /\ r \in Run /\ r.pc = run[d].pc /\ r.todo = run[d].todo /\ r.base = run[d].base
          /\ r.name = run[d].name /\ r.kill = k /\ r.target = run[d].target
      BY RunFields DEF Run
    <2>2. run[d].kill = "check" /\ Goes(d, r) /\ sess' = sess
      BY <1>1 DEF KillChecks
    <2> HIDE DEF r
    <2>3. run' \in [Daemons -> Run] /\ Gets(d, run[d].pc) /\ run'[d] = r
      BY <2>1, <2>2, GoesFacts
    <2>4. Looks(d)
      BY <2>1, <2>2, <2>3 DEF Looks, SameNames, IsOurGroupSession, Exists
    <2> QED
      BY <2>2, <2>3, <2>4
  <1>2. CASE Kills(d)
    <2> DEFINE r == [run[d] EXCEPT !.kill = "no", !.target = User]
    <2>1. /\ r \in Run /\ r.pc = run[d].pc /\ r.todo = run[d].todo /\ r.base = run[d].base
          /\ r.name = run[d].name /\ r.kill = "no"
      BY RunFields, NamesAreSeqs DEF Run, User
    <2>2. run[d].kill = "kill" /\ Goes(d, r) /\ sess' = Without(run[d].target)
      BY <1>2 DEF Kills
    <2> HIDE DEF r
    <2>3. run' \in [Daemons -> Run] /\ Gets(d, run[d].pc) /\ run'[d] = r
      BY <2>1, <2>2, GoesFacts
    <2>4. Slays(d)
      BY <1>2, <2>1, <2>2, <2>3 DEF Slays, SameNames
    <2> QED
      BY <2>2, <2>3, <2>4, WithoutFacts
  <1> QED
    BY <1>1, <1>2

LEMMA ListingSteps ==
    ASSUME GroupTypeOK, NEW d \in Daemons, FirstAttach(d) \/ Reclaims(d)
    PROVE  run' \in [Daemons -> Run] /\ sess' = sess /\ (Lists(d) \/ Sorts(d))
  <1> USE DEF GroupTypeOK
  <1>1. CASE FirstAttach(d)
    <2>1. Shadows \in SUBSET (Seq(Nat) \X Daemons)
      BY DEF Shadows, Group, Session
    <2> DEFINE r == [run[d] EXCEPT !.pc = "reclaim", !.todo = Shadows]
    <2>2. r \in Run /\ r.pc = "reclaim" /\ r.todo = Shadows /\ r.kill = run[d].kill
      <3> HIDE DEF Shadows
      <3> QED
        BY <2>1, RunFields DEF Run
    <2>3. run[d].pc = "idle" /\ run[d].kill = "no" /\ Goes(d, r) /\ sess' = sess
      BY <1>1 DEF FirstAttach, Ready
    <2> HIDE DEF r
    <2>4. run' \in [Daemons -> Run] /\ Gets(d, "reclaim") /\ run'[d] = r
      BY <2>2, <2>3, GoesFacts
    <2>5. Lists(d)
      BY <2>2, <2>3, <2>4 DEF Lists, NoKill
    <2> QED
      BY <2>3, <2>4, <2>5
  <1>2. CASE Reclaims(d)
    <2>1. run[d].pc = "reclaim" /\ run[d].kill = "no" /\ sess' = sess
      BY <1>2 DEF Reclaims, Ready
    <2>2. PICK s \in run[d].todo :
            LET rest == [run[d] EXCEPT !.todo = @ \ {s}] IN
            Goes(d, IF IsReclaimableMarker(s[2], d)
                    THEN [rest EXCEPT !.kill = "check", !.target = s[1]] ELSE rest)
      BY <1>2 DEF Reclaims
    <2> DEFINE q == [run[d] EXCEPT !.todo = @ \ {s}]
    <2> DEFINE r == [q EXCEPT !.kill = "check", !.target = s[1]]
    <2>3. s[1] \in Seq(Nat) /\ run[d].todo \ {s} \in SUBSET (Seq(Nat) \X Daemons)
      BY RunFields
    <2>4. q \in Run /\ q.pc = "reclaim" /\ q.kill = "no" /\ q.todo = run[d].todo \ {s}
      BY <2>1, <2>3, RunFields DEF Run
    <2> HIDE DEF q
    <2>5. r \in Run /\ r.pc = "reclaim" /\ r.kill = "check" /\ r.target = s[1] /\ r.todo = q.todo
      BY <2>3, <2>4 DEF Run
    <2> HIDE DEF r
    <2>6. CASE IsReclaimableMarker(s[2], d)
      <3>1. Goes(d, r)
        BY <2>2, <2>6 DEF r, q
      <3>2. run' \in [Daemons -> Run] /\ Gets(d, "reclaim") /\ run'[d] = r
        BY <2>5, <3>1, GoesFacts
      <3> QED
        BY <2>1, <2>4, <2>5, <2>6, <3>2 DEF Sorts
    <2>7. CASE ~IsReclaimableMarker(s[2], d)
      <3>1. Goes(d, q)
        BY <2>2, <2>7 DEF q
      <3>2. run' \in [Daemons -> Run] /\ Gets(d, "reclaim") /\ run'[d] = q
        BY <2>4, <3>1, GoesFacts
      <3> QED
        BY <2>1, <2>4, <3>2 DEF Sorts
    <2> QED
      BY <2>6, <2>7
  <1> QED
    BY <1>1, <1>2

LEMMA GivingUp ==
    ASSUME GroupTypeOK, NEW d \in Daemons, Fails(d),
           run[d].kill = "no", run[d].pc \in {"none", "reclaim", "claim", "create", "mark"},
           run[d].pc = "mark" => run[d].name \notin DOMAIN sess, UNCHANGED sess
    PROVE  run' \in [Daemons -> Run] /\ GivesUp(d)
  <1> DEFINE r == [Idle EXCEPT !.pc = "idle"]
  <1>1. r \in Run /\ r.pc = "idle" /\ r.kill = "no" /\ Goes(d, r)
    BY FreshFacts DEF Fails
  <1> HIDE DEF r
  <1>2. run' \in [Daemons -> Run] /\ Gets(d, "idle") /\ run'[d] = r
    BY <1>1, GoesFacts DEF GroupTypeOK
  <1> QED
    BY <1>1, <1>2 DEF GivesUp, NoKill

LEMMA BaseSteps ==
    ASSUME GroupTypeOK, NEW d \in Daemons, FindsBase(d)
    PROVE  run' \in [Daemons -> Run] /\ sess' = sess /\ (Bases(d) \/ GivesUp(d))
  <1> USE DEF GroupTypeOK
  <1>1. run[d].pc = "reclaim" /\ run[d].kill = "no" /\ sess' = sess
    BY DEF FindsBase, Ready
  <1>2. CASE Real = {} /\ Fails(d)
    BY <1>1, <1>2, GivingUp
  <1>3. CASE \E b \in Real :
               Len(b) <= MaxDepth /\ Goes(d, [run[d] EXCEPT !.pc = "claim", !.base = b, !.i = 1])
    <2>1. PICK b \in Real : Goes(d, [run[d] EXCEPT !.pc = "claim", !.base = b, !.i = 1])
      BY <1>3
    <2>2. b \in Seq(Nat)
      BY DEF Real, Group
    <2> DEFINE r == [run[d] EXCEPT !.pc = "claim", !.base = b, !.i = 1]
    <2>3. r \in Run /\ r.pc = "claim" /\ r.base = b /\ r.kill = run[d].kill
      BY <2>2, RunFields DEF Run
    <2>4. Goes(d, r)
      BY <2>1
    <2> HIDE DEF r
    <2>5. run' \in [Daemons -> Run] /\ Gets(d, "claim") /\ run'[d] = r
      BY <2>3, <2>4, GoesFacts
    <2>6. Bases(d)
      BY <1>1, <2>3, <2>5 DEF Bases, NoKill
    <2> QED
      BY <1>1, <2>5, <2>6
  <1> QED
    BY <1>2, <1>3 DEF FindsBase

LEMMA ClaimSteps ==
    ASSUME GroupTypeOK, NEW d \in Daemons, Claims(d)
    PROVE  /\ run' \in [Daemons -> Run] /\ sess' = sess
           /\ TakesFree(d) \/ TakesOver(d) \/ Counts(d) \/ GivesUp(d)
  <1> USE DEF GroupTypeOK
  <1> DEFINE n == Candidate(run[d].base, run[d].i)
  <1>1. run[d].pc = "claim" /\ run[d].kill = "no" /\ sess' = sess
    BY DEF Claims, Ready
  <1>2. n \in Seq(Nat) /\ n # run[d].base /\ run[d].i + 1 \in Nat
    <2>1. run[d].base \in Seq(Nat) /\ run[d].i \in Nat
      BY RunFields
    <2>2. run[d].i + 1 \in Nat
      BY <2>1
    <2>3. Candidate(run[d].base, run[d].i) \in Seq(Nat)
          /\ Candidate(run[d].base, run[d].i) # run[d].base
      BY <2>1, NamesAreSeqs, Zenon
    <2> QED
      BY <2>2, <2>3
  <1>3. \/ ~Exists(n) /\ Goes(d, [run[d] EXCEPT !.pc = "create", !.name = n])
        \/ /\ Exists(n) /\ IsReclaimableMarker(sess[n].marker, d)
           /\ Goes(d, [Killing(d, n, "create") EXCEPT !.name = n])
        \/ Fails(d)
        \/ Goes(d, [run[d] EXCEPT !.i = @ + 1])
    BY DEF Claims
  <1> HIDE DEF n
  <1>4. CASE Goes(d, [run[d] EXCEPT !.pc = "create", !.name = n])
    <2> DEFINE r == [run[d] EXCEPT !.pc = "create", !.name = n]
    <2>1. r \in Run /\ r.pc = "create" /\ r.kill = run[d].kill
      BY <1>2, RunFields DEF Run
    <2>2. Goes(d, r)
      BY <1>4
    <2> HIDE DEF r
    <2>3. run' \in [Daemons -> Run] /\ Gets(d, "create") /\ run'[d] = r
      BY <2>1, <2>2, GoesFacts
    <2> QED
      BY <1>1, <2>1, <2>3 DEF TakesFree, NoKill
  <1>5. CASE /\ Exists(n) /\ IsReclaimableMarker(sess[n].marker, d)
             /\ Goes(d, [Killing(d, n, "create") EXCEPT !.name = n])
    <2> DEFINE q == [run[d] EXCEPT !.pc = "create", !.kill = "check", !.target = n]
    <2> DEFINE r == [q EXCEPT !.name = n]
    <2>1. /\ q \in Run /\ q.pc = "create" /\ q.kill = "check" /\ q.target = n
          /\ q.base = run[d].base
      BY <1>2, RunFields DEF Run
    <2> HIDE DEF q
    <2>2. /\ r \in Run /\ r.pc = "create" /\ r.kill = "check" /\ r.target = n
          /\ r.base = run[d].base
      BY <1>2, <2>1 DEF Run
    <2>3. Goes(d, r)
      BY <1>5 DEF q, Killing
    <2> HIDE DEF r
    <2>4. run' \in [Daemons -> Run] /\ Gets(d, "create") /\ run'[d] = r
      BY <2>2, <2>3, GoesFacts
    <2>5. TakesOver(d)
      BY <1>1, <1>2, <1>5, <2>2, <2>4 DEF TakesOver, Exists
    <2> QED
      BY <1>1, <2>4, <2>5
  <1>6. CASE Fails(d)
    BY <1>1, <1>6, GivingUp
  <1>7. CASE Goes(d, [run[d] EXCEPT !.i = @ + 1])
    <2> DEFINE r == [run[d] EXCEPT !.i = @ + 1]
    <2>1. /\ r \in Run /\ r.pc = "claim" /\ r.kill = "no" /\ r.name = run[d].name
          /\ r.base = run[d].base
      BY <1>1, <1>2, RunFields DEF Run
    <2>2. Goes(d, r)
      BY <1>7
    <2> HIDE DEF r
    <2>3. run' \in [Daemons -> Run] /\ Gets(d, "claim") /\ run'[d] = r
      BY <2>1, <2>2, GoesFacts
    <2> QED
      BY <1>1, <2>1, <2>3 DEF Counts, NoKill, SameNames
  <1> QED
    BY <1>3, <1>4, <1>5, <1>6, <1>7

LEMMA MakingSteps ==
    ASSUME GroupTypeOK, NEW d \in Daemons, NewSession(d)
    PROVE  /\ run' \in [Daemons -> Run]
           /\ sess' \in [DOMAIN sess' -> Session] /\ DOMAIN sess' \subseteq Seq(Nat)
           /\ Makes(d) \/ GivesUp(d)
  <1> USE DEF GroupTypeOK
  <1>1. run[d].pc = "create" /\ run[d].kill = "no" /\ run[d].name \in Seq(Nat)
    BY RunFields DEF NewSession, Ready
  <1>2. CASE Exists(run[d].name) /\ Fails(d) /\ UNCHANGED sess
    BY <1>1, <1>2, GivingUp
  <1>3. CASE /\ ~Exists(run[d].name)
             /\ sess' = [n \in DOMAIN sess \cup {run[d].name} |->
                           IF n # run[d].name THEN sess[n]
                           ELSE [marker |-> Unmarked, owner |-> d,
                                 grouped |-> Exists(run[d].base) /\ sess[run[d].base].grouped]]
             /\ Goes(d, [run[d] EXCEPT !.pc = "mark"])
    <2> DEFINE r == [run[d] EXCEPT !.pc = "mark"]
    <2>1. /\ r \in Run /\ r.pc = "mark" /\ r.kill = "no" /\ r.name = run[d].name
          /\ r.base = run[d].base
      BY <1>1, RunFields DEF Run
    <2>2. Goes(d, r)
      BY <1>3
    <2> HIDE DEF r
    <2>3. run' \in [Daemons -> Run] /\ Gets(d, "mark") /\ run'[d] = r
      BY <2>1, <2>2, GoesFacts
    <2> DEFINE g == Exists(run[d].base) /\ sess[run[d].base].grouped
    <2> DEFINE x == [marker |-> Unmarked, owner |-> d, grouped |-> g]
    <2>4. g \in BOOLEAN
      BY DEF Exists, Session
    <2>5. x \in Session /\ x.marker = Unmarked /\ x.owner = d
      <3> HIDE DEF g
      <3> QED
        BY <2>4 DEF Session
    <2>6. sess' = [n \in DOMAIN sess \cup {run[d].name} |-> IF n # run[d].name THEN sess[n] ELSE x]
      BY <1>3
    <2> HIDE DEF x
    <2>7. /\ run[d].name \notin DOMAIN sess
          /\ DOMAIN sess' = DOMAIN sess \cup {run[d].name} /\ sess'[run[d].name] = x
          /\ \A n \in DOMAIN sess : sess'[n] = sess[n]
          /\ sess' \in [DOMAIN sess' -> Session]
      BY <1>3, <2>5, <2>6 DEF Exists
    <2> QED
      BY <1>1, <2>1, <2>3, <2>5, <2>7 DEF Makes, NoKill, SameNames
  <1> QED
    BY <1>2, <1>3 DEF NewSession

LEMMA MarkingSteps ==
    ASSUME GroupTypeOK, NEW d \in Daemons, Marks(d)
    PROVE  /\ run' \in [Daemons -> Run]
           /\ sess' \in [DOMAIN sess' -> Session] /\ DOMAIN sess' \subseteq Seq(Nat)
           /\ Stamps(d) \/ GivesUp(d)
  <1> USE DEF GroupTypeOK
  <1>1. run[d].pc = "mark" /\ run[d].kill = "no"
    BY DEF Marks, Ready
  <1>2. CASE Meant(run[d].name) = {} /\ Fails(d) /\ UNCHANGED sess
    <2>1. run[d].name \notin DOMAIN sess
      BY <1>2 DEF Meant, Exists
    <2> QED
      BY <1>1, <1>2, <2>1, GivingUp
  <1>3. CASE \E n \in Meant(run[d].name) :
               /\ sess' = [sess EXCEPT ![n].marker = d]
               /\ Goes(d, [run[d] EXCEPT !.pc = "verify"])
    <2>1. PICK n \in Meant(run[d].name) :
               /\ sess' = [sess EXCEPT ![n].marker = d]
               /\ Goes(d, [run[d] EXCEPT !.pc = "verify"])
      BY <1>3
    <2>2. n \in DOMAIN sess /\ (run[d].name \in DOMAIN sess => n = run[d].name)
      BY DEF Meant, Exists
    <2> DEFINE r == [run[d] EXCEPT !.pc = "verify"]
    <2>3. /\ r \in Run /\ r.pc = "verify" /\ r.kill = "no" /\ r.name = run[d].name
          /\ r.base = run[d].base
      BY <1>1, RunFields DEF Run
    <2>4. Goes(d, r)
      BY <2>1
    <2> HIDE DEF r
    <2>5. run' \in [Daemons -> Run] /\ Gets(d, "verify") /\ run'[d] = r
      BY <2>3, <2>4, GoesFacts
    <2> DEFINE x == [sess[n] EXCEPT !.marker = d]
    <2>6. sess[n] \in Session
      BY <2>2
    <2>7. x \in Session /\ x.marker = d /\ x.owner = sess[n].owner /\ x.grouped = sess[n].grouped
      BY <2>6 DEF Session
    <2>8. sess' = [sess EXCEPT ![n] = x]
      BY <2>1
    <2> HIDE DEF x
    <2>9. /\ DOMAIN sess' = DOMAIN sess /\ sess'[n] = x
          /\ \A m \in DOMAIN sess \ {n} : sess'[m] = sess[m]
          /\ sess' \in [DOMAIN sess' -> Session]
      BY <2>2, <2>7, <2>8
    <2>10. Stamps(d)
      BY <1>1, <2>2, <2>3, <2>5, <2>7, <2>9 DEF Stamps, NoKill, SameNames
    <2> QED
      BY <2>5, <2>9, <2>10
  <1> QED
    BY <1>2, <1>3 DEF Marks

\* The group is given up, from pc = p on.
LEMMA Dropping ==
    ASSUME GroupTypeOK, NEW d \in Daemons, NEW p \in {"idle", "exit"}, NEW c \in 0 .. MaxConns,
           run[d].pc \in {"verify", "serving"}, run[d].kill = "no", UNCHANGED sess,
           \/ Goes(d, Killing(d, run[d].name, p))
           \/ Goes(d, [Killing(d, run[d].name, p) EXCEPT !.conns = c])
    PROVE  run' \in [Daemons -> Run] /\ Drops(d)
  <1> USE DEF GroupTypeOK
  <1> DEFINE q == [run[d] EXCEPT !.pc = p, !.kill = "check", !.target = run[d].name]
  <1> DEFINE r == [q EXCEPT !.conns = c]
  <1>1. q \in Run /\ q.pc = p /\ q.kill = "check" /\ q.target = run[d].name
    BY RunFields DEF Run
  <1>2. q = Killing(d, run[d].name, p)
    BY DEF Killing
  <1> HIDE DEF q
  <1>3. r \in Run /\ r.pc = p /\ r.kill = "check" /\ r.target = run[d].name
    BY <1>1 DEF Run
  <1>4. Goes(d, q) \/ Goes(d, r)
    BY <1>2
  <1> HIDE DEF r
  <1>5. ASSUME Goes(d, q)
        PROVE  run' \in [Daemons -> Run] /\ Gets(d, p) /\ run'[d] = q
    BY <1>1, <1>5, GoesFacts
  <1>6. ASSUME Goes(d, r)
        PROVE  run' \in [Daemons -> Run] /\ Gets(d, p) /\ run'[d] = r
    BY <1>3, <1>6, GoesFacts
  <1> QED
    BY <1>1, <1>3, <1>4, <1>5, <1>6 DEF Drops

LEMMA ServingSteps ==
    ASSUME GroupTypeOK, InPlace, NEW d \in Daemons, Verifies(d) \/ Attach(d) \/ Close(d) \/ Shutdown(d)
    PROVE  /\ run' \in [Daemons -> Run] /\ sess' = sess
           /\ Settles(d) \/ Counts(d) \/ Drops(d) \/ Stops(d)
  <1> USE DEF GroupTypeOK
  <1>0. 0 \in 0 .. MaxConns /\ 1 \in 0 .. MaxConns
    BY GroupAssumption
  <1>1. CASE Verifies(d)
    <2>1. run[d].pc = "verify" /\ run[d].kill = "no" /\ sess' = sess
      BY <1>1 DEF Verifies, Ready
    <2>2. CASE Goes(d, Killing(d, run[d].name, "idle"))
      BY <1>0, <2>1, <2>2, Dropping
    <2>3. CASE Goes(d, [run[d] EXCEPT !.pc = "serving", !.conns = 1])
      <3> DEFINE r == [run[d] EXCEPT !.pc = "serving", !.conns = 1]
      <3>1. /\ r \in Run /\ r.pc = "serving" /\ r.kill = "no" /\ r.name = run[d].name
            /\ r.base = run[d].base /\ r.conns = 1
        BY <1>0, <2>1, RunFields DEF Run
      <3>2. Goes(d, r)
        BY <2>3
      <3> HIDE DEF r
      <3>3. run' \in [Daemons -> Run] /\ Gets(d, "serving") /\ run'[d] = r
        BY <3>1, <3>2, GoesFacts
      <3> QED
        BY <2>1, <3>1, <3>3 DEF Settles, NoKill, SameNames
    <2> QED
      BY <1>1, <2>2, <2>3 DEF Verifies
  <1>2. ASSUME NEW c \in 0 .. MaxConns, c # 0, run[d].pc = "serving", run[d].kill = "no", sess' = sess,
               Goes(d, [run[d] EXCEPT !.conns = c])
        PROVE  run' \in [Daemons -> Run] /\ Counts(d)
    <2> DEFINE r == [run[d] EXCEPT !.conns = c]
    <2>1. /\ r \in Run /\ r.pc = "serving" /\ r.kill = "no" /\ r.name = run[d].name
          /\ r.base = run[d].base /\ r.conns # 0
      BY <1>2, RunFields DEF Run
    <2>2. Goes(d, r)
      BY <1>2
    <2> HIDE DEF r
    <2>3. run' \in [Daemons -> Run] /\ Gets(d, "serving") /\ run'[d] = r
      BY <2>1, <2>2, GoesFacts
    <2> QED
      BY <1>2, <2>1, <2>3 DEF Counts, NoKill, SameNames
  <1>3. CASE Attach(d)
    <2>1. run[d].conns + 1 \in 0 .. MaxConns /\ run[d].conns + 1 # 0
      BY <1>3, GroupAssumption, RunFields DEF Attach
    <2> QED
      BY <1>2, <1>3, <2>1 DEF Attach, Ready
  <1>4. CASE Close(d)
    <2>1. run[d].pc = "serving" /\ run[d].kill = "no" /\ sess' = sess
      BY <1>4 DEF Close, Ready
    <2>2. CASE LastOut(d)
      BY <1>0, <1>4, <2>1, <2>2, Dropping DEF Close
    <2>3. CASE ~LastOut(d)
      <3>1. run[d].conns \in 0 .. MaxConns /\ MaxConns \in Nat
        BY GroupAssumption, RunFields
      <3>2. run[d].conns # 0 /\ run[d].conns # 1
        BY <2>1, <2>3 DEF InPlace, Serves, LastOut
      <3>3. run[d].conns - 1 \in 0 .. MaxConns /\ run[d].conns - 1 # 0
        BY <3>1, <3>2
      <3>4. Goes(d, [run[d] EXCEPT !.conns = @ - 1])
        BY <1>4, <2>3 DEF Close
      <3> QED
        BY <1>2, <2>1, <3>3, <3>4
    <2> QED
      BY <2>2, <2>3
  <1>5. CASE Shutdown(d)
    <2>1. run[d].pc \in {"idle", "serving"} /\ run[d].kill = "no" /\ sess' = sess
      BY <1>5 DEF Shutdown
    <2>2. CASE Serves(d)
      BY <1>0, <1>5, <2>1, <2>2, Dropping DEF Shutdown, Serves
    <2>3. CASE ~Serves(d)
      <3> DEFINE r == [run[d] EXCEPT !.pc = "exit"]
      <3>1. r \in Run /\ r.pc = "exit" /\ r.kill = "no" /\ run[d].pc = "idle"
        BY <2>1, <2>3, RunFields DEF Run, Serves
      <3>2. Goes(d, r)
        BY <1>5, <2>3 DEF Shutdown
      <3> HIDE DEF r
      <3>3. run' \in [Daemons -> Run] /\ Gets(d, "exit") /\ run'[d] = r
        BY <3>1, <3>2, GoesFacts
      <3> QED
        BY <2>1, <3>1, <3>3 DEF Stops, NoKill
    <2> QED
      BY <2>2, <2>3
  <1> QED
    BY <1>1, <1>3, <1>4, <1>5

LEMMA EndingSteps ==
    ASSUME GroupTypeOK, InPlace, NEW d \in Daemons, DaemonStarts(d) \/ Exits(d) \/ Dies(d)
    PROVE  run' \in [Daemons -> Run] /\ sess' = sess /\ (GivesUp(d) \/ Vanishes(d))
  <1> USE DEF GroupTypeOK
  <1> DEFINE r == [Idle EXCEPT !.pc = "dead"]
  <1>1. r \in Run /\ r.pc = "dead" /\ r.kill = "no"
    BY FreshFacts
  <1>2. CASE Exits(d) \/ Dies(d)
    <2>1. Goes(d, r) /\ sess' = sess /\ run[d].pc \notin {"none", "dead"}
      BY <1>2 DEF Exits, Dies, Ready, Alive
    <2> HIDE DEF r
    <2>2. run' \in [Daemons -> Run] /\ Gets(d, "dead") /\ run'[d] = r
      BY <1>1, <2>1, GoesFacts
    <2> QED
      BY <1>1, <2>1, <2>2 DEF Vanishes
  <1>3. CASE DaemonStarts(d)
    <2>1. run[d].kill = "no"
      BY <1>3 DEF InPlace, DaemonStarts
    <2> QED
      BY <1>3, <2>1, GivingUp DEF DaemonStarts, Fails
  <1> QED
    BY <1>2, <1>3

LEMMA UserSteps ==
    ASSUME GroupTypeOK, UserActs
    PROVE  /\ sess' \in [DOMAIN sess' -> Session] /\ DOMAIN sess' \subseteq Seq(Nat)
           /\ run' = run /\ UserMoves
  <1> USE DEF GroupTypeOK
  <1>1. CASE \E n \in DOMAIN sess : sess' = Without(n)
    <2>1. PICK n \in DOMAIN sess : sess' = Without(n)
      BY <1>1
    <2>2. DOMAIN sess' = DOMAIN sess \ {n} /\ sess' \in [DOMAIN sess' -> Session]
      BY <2>1, WithoutFacts
    <2> QED
      BY <2>1, <2>2 DEF UserActs, UserMoves
  <1>2. CASE \E i \in 1 .. MaxTries :
               /\ ~Exists(Candidate(User, i))
               /\ sess' = [n \in DOMAIN sess \cup {Candidate(User, i)} |->
                             IF Exists(n) THEN sess[n]
                             ELSE [marker |-> Unmarked, owner |-> Unmarked, grouped |-> FALSE]]
    <2> DEFINE x == [marker |-> Unmarked, owner |-> Unmarked, grouped |-> FALSE]
    <2>1. PICK i \in 1 .. MaxTries :
               /\ ~Exists(Candidate(User, i))
               /\ sess' = [n \in DOMAIN sess \cup {Candidate(User, i)} |->
                             IF Exists(n) THEN sess[n] ELSE x]
      BY <1>2
    <2>2. x \in Session /\ x.marker = Unmarked /\ x.owner = Unmarked
      BY DEF Session
    <2>3. User \in Seq(Nat) /\ i \in Nat
      BY GroupAssumption DEF User
    <2>4. Candidate(User, i) \in Seq(Nat)
      BY <2>3, NamesAreSeqs, Zenon
    <2> HIDE DEF x
    <2> DEFINE c == Candidate(User, i)
    <2>5. c \in Seq(Nat) /\ c \notin DOMAIN sess
      BY <2>1, <2>4 DEF Exists
    <2>6. sess' = [n \in DOMAIN sess \cup {c} |-> IF n \in DOMAIN sess THEN sess[n] ELSE x]
      BY <2>1 DEF Exists
    <2> HIDE DEF c
    <2>7. /\ DOMAIN sess' = DOMAIN sess \cup {c} /\ sess'[c] = x
          /\ \A n \in DOMAIN sess : sess'[n] = sess[n]
          /\ sess' \in [DOMAIN sess' -> Session]
      BY <2>2, <2>5, <2>6
    <2> QED
      BY <2>2, <2>5, <2>7 DEF UserActs, UserMoves
  <1> QED
    BY <1>1, <1>2 DEF UserActs

\* Every step is one of these, and keeps the types.
LEMMA GroupSteps ==
    ASSUME GroupTypeOK, InPlace, Next
    PROVE  GroupTypeOK' /\ GroupMove /\ History
  <1> DEFINE WellTyped == /\ run' \in [Daemons -> Run]
                      /\ sess' \in [DOMAIN sess' -> Session] /\ DOMAIN sess' \subseteq Seq(Nat)
  <1> DEFINE Counted == faults' \in 0 .. MaxFaults
  <1>0. faults \in 0 .. MaxFaults /\ (Fault => Counted) /\ (faults' = faults => Counted)
    BY GroupAssumption DEF GroupTypeOK, Fault
  <1>1. ASSUME UserActs
        PROVE  WellTyped /\ Counted /\ UserMoves
    <2>1. WellTyped /\ UserMoves
      BY <1>1, UserSteps DEF GroupTypeOK
    <2>2. Counted
      <3> HIDE DEF Counted
      <3> QED
        BY <1>0, <1>1 DEF UserActs
    <2> QED
      BY <2>1, <2>2
  <1>2. ASSUME NEW d \in Daemons, DaemonStarts(d) \/ SetsUp(d) \/ Attach(d) \/ Close(d)
                                  \/ KillChecks(d) \/ Kills(d) \/ Shutdown(d) \/ Exits(d) \/ Dies(d)
        PROVE  WellTyped /\ DaemonMove(d)
    <2> USE DEF GroupTypeOK
    <2>1. CASE DaemonStarts(d) \/ Exits(d) \/ Dies(d)
      BY <2>1, EndingSteps DEF DaemonMove
    <2>2. CASE Verifies(d) \/ Attach(d) \/ Close(d) \/ Shutdown(d)
      BY <2>2, ServingSteps DEF DaemonMove
    <2>3. CASE KillChecks(d) \/ Kills(d)
      BY <2>3, KillSteps DEF DaemonMove
    <2>4. CASE FirstAttach(d) \/ Reclaims(d)
      BY <2>4, ListingSteps DEF DaemonMove
    <2>5. CASE FindsBase(d)
      BY <2>5, BaseSteps DEF DaemonMove
    <2>6. CASE Claims(d)
      BY <2>6, ClaimSteps DEF DaemonMove
    <2>7. CASE NewSession(d)
      BY <2>7, MakingSteps DEF DaemonMove
    <2>8. CASE Marks(d)
      BY <2>8, MarkingSteps DEF DaemonMove
    <2> QED
      BY <1>2, <2>1, <2>2, <2>3, <2>4, <2>5, <2>6, <2>7, <2>8 DEF SetsUp
  <1>3. ASSUME NEW d \in Daemons, DaemonStarts(d) \/ SetsUp(d) \/ Attach(d) \/ Close(d)
                                  \/ KillChecks(d) \/ Kills(d) \/ Shutdown(d) \/ Exits(d) \/ Dies(d)
        PROVE  Counted
    BY <1>0, <1>3 DEF DaemonStarts, SetsUp, FirstAttach, Reclaims, FindsBase, Claims, NewSession,
                      Marks, Verifies, Attach, Close, KillChecks, Kills, Shutdown, Exits, Dies
  <1>4. History /\ disturbed' \subseteq Daemons /\ beside' \in BOOLEAN /\ strayMark' \in BOOLEAN
    BY DEF Next, History, GroupTypeOK
  <1>5. WellTyped /\ Counted /\ GroupMove
    <2> HIDE DEF Counted, WellTyped
    <2>1. CASE UserActs
      BY <1>1, <2>1 DEF GroupMove
    <2>2. CASE \E d \in Daemons : \/ DaemonStarts(d) \/ SetsUp(d) \/ Attach(d) \/ Close(d)
                                 \/ KillChecks(d) \/ Kills(d) \/ Shutdown(d) \/ Exits(d) \/ Dies(d)
      BY <1>2, <1>3, <2>2 DEF GroupMove
    <2> QED
      BY <2>1, <2>2 DEF Next
  <1> QED
    BY <1>4, <1>5 DEF GroupTypeOK

(***************************************************************************)
(* The invariant holds at first, and every step keeps it.                  *)
(***************************************************************************)
LEMMA InitHolds == Init => PgInv
  <1> SUFFICES ASSUME Init PROVE PgInv
    OBVIOUS
  <1>1. PICK own \in SUBSET {Candidate(User, i) : i \in 1 .. MaxTries} :
               sess = [n \in own \cup {User} |->
                          [marker |-> Unmarked, owner |-> Unmarked, grouped |-> n = User]]
    BY DEF Init
  <1>2. ASSUME NEW i \in 1 .. MaxTries
        PROVE  Candidate(User, i) \in Seq(Nat)
    <2>1. i \in Nat /\ User \in Seq(Nat)
      BY GroupAssumption DEF User
    <2> QED
      BY <2>1, NamesAreSeqs, Zenon
  <1>3. User \in Seq(Nat) /\ own \subseteq Seq(Nat)
    BY <1>2 DEF User
  <1>4. /\ DOMAIN sess = own \cup {User} /\ sess \in [DOMAIN sess -> Session]
        /\ \A n \in DOMAIN sess : sess[n].marker = Unmarked /\ sess[n].owner = Unmarked
    BY <1>1 DEF Session
  <1>5. Idle \in Run /\ Idle.pc = "none" /\ Idle.kill = "no"
    <2>1. << >> \in Seq(Nat) /\ 0 \in 0 .. MaxConns /\ {} \in SUBSET (Seq(Nat) \X Daemons)
      BY GroupAssumption
    <2> QED
      BY <2>1 DEF Idle, Run, User
  <1>6. /\ run \in [Daemons -> Run]
        /\ \A d \in Daemons : run[d].pc = "none" /\ run[d].kill = "no"
    BY <1>5 DEF Init
  <1>7. Unmarked \notin Daemons /\ disturbed = {} /\ beside = FALSE /\ strayMark = FALSE
        /\ faults = 0 /\ 0 \in 0 .. MaxFaults
    BY GroupAssumption DEF Init
  <1>8. GroupTypeOK
    BY <1>3, <1>4, <1>6, <1>7 DEF GroupTypeOK
  <1>9. \A d \in Daemons : ~AtWork(d) /\ run[d].pc = "none" /\ run[d].kill = "no"
    BY <1>6 DEF AtWork
  <1>10. InPlace /\ OneAtWork /\ GroupIsThere /\ ListedAreOthers /\ VictimsAreGone /\ PaneIsKept
    BY <1>7, <1>9 DEF InPlace, OneAtWork, GroupIsThere, ListedAreOthers, VictimsAreGone,
                      PaneIsKept, Serves
  <1>11. OwnerHasName /\ OneEach /\ MarkersAreOwners
    BY <1>4, <1>7 DEF OwnerHasName, OneEach, MarkersAreOwners
  <1> QED
    BY <1>8, <1>10, <1>11 DEF PgInv

\* Only the daemon that moves changes.
LEMMA OthersStay ==
    ASSUME NEW e \in Daemons, DaemonMove(e), NEW d \in Daemons, d # e
    PROVE  run'[d] = run[d]
  BY DEF DaemonMove, Looks, Slays, Lists, Sorts, Bases, Counts, TakesFree, TakesOver, Makes,
         Stamps, Settles, Drops, GivesUp, Stops, Vanishes, Gets

\* A daemon that is gone stays gone, and what went astray stays so.
LEMMA OnceGone ==
    ASSUME InPlace, GroupMove, NEW d \in Daemons, Gone(d)
    PROVE  Gone(d)'
  <1>1. ASSUME DaemonMove(d)
        PROVE  FALSE
    BY <1>1 DEF DaemonMove, Looks, Slays, Lists, Sorts, Bases, Counts, TakesFree, TakesOver,
                Makes, Stamps, Settles, Drops, GivesUp, Stops, Vanishes, InPlace, Gone
  <1>2. CASE \E e \in Daemons : DaemonMove(e)
    BY <1>1, <1>2, OthersStay DEF Gone
  <1>3. CASE UserMoves
    BY <1>3 DEF UserMoves, Gone
  <1> QED
    BY <1>2, <1>3 DEF GroupMove

LEMMA OnceAstray ==
    ASSUME InPlace, GroupMove, History
    PROVE  /\ beside => beside'
           /\ strayMark => strayMark'
           /\ SomeGone => SomeGone'
           /\ TwoAreGone => TwoAreGone'
           /\ Astray => Astray'
  <1>1. (beside => beside') /\ (strayMark => strayMark')
    BY DEF History
  <1>2. (SomeGone => SomeGone') /\ (TwoAreGone => TwoAreGone')
    BY OnceGone DEF SomeGone, TwoAreGone, Gone
  <1> QED
    BY <1>1, <1>2 DEF Astray, SomeGone, Gone

\* What it takes to stay undisturbed.
LEMMA Undisturbed ==
    ASSUME History, NEW d \in Daemons, AtWork(d)' \/ Serves(d)', d \notin disturbed'
    PROVE  /\ d \notin disturbed
           /\ Meddling => ~AtWork(d) /\ Exists(run[d].name)'
  BY DEF History

\* While one daemon works alone and undisturbed, it alone moves anything.
LEMMA Quiet ==
    ASSUME OneAtWork, OneAtWork', GroupMove, History,
           NEW d \in Daemons, AtWork(d)', ~beside', d \notin disturbed'
    PROVE  DaemonMove(d) \/ (sess' = sess /\ run'[d] = run[d] /\ AtWork(d))
  <1>1. CASE UserActs /\ UserMoves
    <2>1. run' = run /\ ~AtWork(d)
      BY <1>1, Undisturbed DEF UserMoves, Meddling
    <2> QED
      BY <2>1 DEF AtWork
  <1>2. ASSUME NEW e \in Daemons, e # d, DaemonMove(e)
        PROVE  sess' = sess /\ run'[d] = run[d] /\ AtWork(d)
    <2>1. run'[d] = run[d] /\ AtWork(d)
      BY <1>2, OthersStay DEF AtWork
    <2>2. ~AtWork(e) /\ ~AtWork(e)'
      <3>1. ~beside
        BY DEF History
      <3> QED
        BY <1>2, <2>1, <3>1 DEF OneAtWork
    <2>3. sess' = sess
      BY <1>2, <2>2 DEF DaemonMove, Looks, Slays, Lists, Sorts, Bases, Counts, TakesFree, TakesOver,
                Makes, Stamps, Settles, Drops, GivesUp, Stops, Vanishes, AtWork, NoKill
    <2> QED
      BY <2>1, <2>3
  <1> QED
    BY <1>1, <1>2 DEF GroupMove

LEMMA KeepsInPlace ==
    ASSUME InPlace, GroupMove, History
    PROVE  InPlace'
  <1>1. ASSUME NEW d \in Daemons
        PROVE  /\ run'[d].kill # "no" => run'[d].pc \in {"reclaim", "create", "idle", "exit"}
               /\ run'[d].pc = "serving" => run'[d].conns # 0
    <2>1. CASE run'[d] = run[d]
      BY <2>1 DEF InPlace, Serves
    <2>2. CASE DaemonMove(d)
      BY <2>2 DEF DaemonMove, Looks, Slays, Lists, Sorts, Bases, Counts, TakesFree, TakesOver,
                  Makes, Stamps, Settles, Drops, GivesUp, Stops, Vanishes, InPlace, Gets, NoKill
    <2> QED
      BY <2>1, <2>2, OthersStay DEF GroupMove, UserMoves
  <1>2. ASSUME NEW d \in Daemons, d \in disturbed'
        PROVE  AtWork(d)' \/ Serves(d)'
    BY <1>2 DEF History
  <1> QED
    BY <1>1, <1>2 DEF InPlace, Serves

LEMMA KeepsMarkers ==
    ASSUME History
    PROVE  MarkersAreOwners' /\ OneAtWork'
  BY DEF History, MarkersAreOwners, OneAtWork

\* What each step does with the session a daemon owns.
LEMMA KeepsOwners ==
    ASSUME GroupTypeOK, OwnerHasName, GroupMove
    PROVE  OwnerHasName'
  <1> SUFFICES ASSUME NEW n \in DOMAIN sess', NEW d \in Daemons, sess'[n].owner = d
               PROVE  \/ /\ run'[d].pc = "mark" /\ n = run'[d].name
                      \/ /\ run'[d].pc \in {"verify", "serving"} /\ n = run'[d].name
                         /\ sess'[n].marker # Unmarked
                      \/ /\ run'[d].pc \in {"idle", "exit"} /\ run'[d].kill # "no"
                         /\ n = run'[d].target /\ sess'[n].marker # Unmarked
                      \/ Gone(d)'
    BY DEF OwnerHasName
  <1>0. Unmarked \notin Daemons /\ sess \in [DOMAIN sess -> Session]
    BY GroupAssumption DEF GroupTypeOK
  <1>1. CASE UserMoves
    <2>1. n \in DOMAIN sess /\ sess'[n] = sess[n] /\ run' = run
      BY <1>0, <1>1, WithoutFacts DEF UserMoves
    <2> QED
      BY <2>1 DEF OwnerHasName, Gone
  <1>2. ASSUME NEW e \in Daemons, e # d, DaemonMove(e)
        PROVE  /\ run'[d] = run[d] /\ n \in DOMAIN sess /\ sess'[n].owner = sess[n].owner
               /\ sess'[n].marker = sess[n].marker \/ sess'[n].marker # Unmarked
    <2>1. run'[d] = run[d]
      BY <1>2, OthersStay
    <2>2. CASE Slays(e)
      BY <1>0, <2>1, <2>2, WithoutFacts DEF Slays
    <2>3. CASE Makes(e)
      BY <1>2, <2>1, <2>3 DEF Makes
    <2>4. CASE Stamps(e)
      BY <1>0, <2>1, <2>4 DEF Stamps
    <2>5. CASE sess' = sess
      BY <2>1, <2>5
    <2> QED
      BY <1>2, <2>2, <2>3, <2>4, <2>5 DEF DaemonMove, Looks, Lists, Sorts, Bases, Counts, TakesFree,
                TakesOver, Settles, Drops, GivesUp, Stops, Vanishes
  <1>3. CASE \E e \in Daemons : e # d /\ DaemonMove(e)
    BY <1>2, <1>3 DEF OwnerHasName, Gone
  <1>4. CASE Slays(d)
    <2>1. n \in DOMAIN sess /\ n # run[d].target /\ sess'[n] = sess[n]
      <3>1. sess' = Without(run[d].target)
        BY <1>4 DEF Slays
      <3>2. /\ DOMAIN Without(run[d].target) = DOMAIN sess \ {run[d].target}
            /\ \A m \in DOMAIN sess \ {run[d].target} : Without(run[d].target)[m] = sess[m]
        BY <1>0, WithoutFacts
      <3> QED
        BY <3>1, <3>2
    <2> QED
      BY <1>4, <2>1 DEF Slays, Gets, SameNames, OwnerHasName, Gone
  <1>5. CASE Makes(d)
    BY <1>5 DEF Makes, Gets, SameNames, OwnerHasName, NoKill, Gone
  <1>6. CASE Stamps(d)
    BY <1>0, <1>6 DEF Stamps, Gets, SameNames, OwnerHasName, NoKill, Gone
  <1>7. CASE Looks(d)
    BY <1>7 DEF Looks, Gets, SameNames, OwnerHasName, Gone
  <1>8. CASE Lists(d) \/ Sorts(d) \/ Bases(d) \/ Counts(d) \/ TakesFree(d) \/ TakesOver(d)
    BY <1>8 DEF Lists, Sorts, Bases, Counts, TakesFree, TakesOver, Gets, SameNames, OwnerHasName,
                NoKill, Gone
  <1>9. CASE Settles(d) \/ Drops(d)
    BY <1>9 DEF Settles, Drops, Gets, SameNames, OwnerHasName, NoKill, Gone
  <1>10. CASE GivesUp(d) \/ Stops(d) \/ Vanishes(d)
    BY <1>10 DEF GivesUp, Stops, Vanishes, Gets, OwnerHasName, NoKill, Gone
  <1> QED
    BY <1>1, <1>3, <1>4, <1>5, <1>6, <1>7, <1>8, <1>9, <1>10 DEF GroupMove, DaemonMove

LEMMA KeepsOneEach ==
    ASSUME GroupTypeOK, OwnerHasName, OneEach, GroupMove
    PROVE  OneEach'
  <1>0. Unmarked \notin Daemons /\ sess \in [DOMAIN sess -> Session]
    BY GroupAssumption DEF GroupTypeOK
  <1>1. CASE /\ DOMAIN sess' \subseteq DOMAIN sess
             /\ \A n \in DOMAIN sess' : sess'[n].owner = sess[n].owner
    BY <1>1 DEF OneEach
  <1>2. CASE UserMoves
    <2>1. CASE \E n \in DOMAIN sess : sess' = Without(n)
      <3>1. /\ DOMAIN sess' \subseteq DOMAIN sess
            /\ \A n \in DOMAIN sess' : sess'[n].owner = sess[n].owner
        BY <1>0, <2>1, WithoutFacts
      <3> QED
        BY <1>1, <3>1
    <2>2. CASE ~\E n \in DOMAIN sess : sess' = Without(n)
      BY <1>0, <1>2, <2>2 DEF UserMoves, OneEach
    <2> QED
      BY <2>1, <2>2
  <1>3. ASSUME NEW d \in Daemons, Makes(d)
        PROVE  OneEach'
    <2>1. \A n \in DOMAIN sess : sess[n].owner # d
      BY <1>3 DEF Makes, OwnerHasName, Gone
    <2> QED
      BY <1>3, <2>1 DEF Makes, OneEach
  <1>4. ASSUME NEW d \in Daemons, DaemonMove(d), ~Makes(d)
        PROVE  /\ DOMAIN sess' \subseteq DOMAIN sess
               /\ \A n \in DOMAIN sess' : sess'[n].owner = sess[n].owner
    <2>1. CASE Slays(d)
      BY <1>0, <2>1, WithoutFacts DEF Slays
    <2>2. CASE Stamps(d)
      BY <2>2 DEF Stamps
    <2>3. CASE sess' = sess
      BY <2>3
    <2> QED
      BY <1>4, <2>1, <2>2, <2>3 DEF DaemonMove, Looks, Lists, Sorts, Bases, Counts, TakesFree,
                TakesOver, Settles, Drops, GivesUp, Stops, Vanishes
  <1> QED
    BY <1>1, <1>2, <1>3, <1>4 DEF GroupMove

\* Whoever is not disturbed kills its own session, or that of one that is gone.
LEMMA OwnOrGone ==
    ASSUME InPlace, GroupIsThere, VictimsAreGone, NEW d \in Daemons, run[d].kill # "no",
           d \notin disturbed, ~Astray, run[d].target \in DOMAIN sess
    PROVE  \/ sess[run[d].target].owner = d
           \/ sess[run[d].target].owner \in Daemons /\ Gone(sess[run[d].target].owner)
  <1>1. CASE run[d].pc \in {"idle", "exit"}
    BY <1>1 DEF GroupIsThere, Owns
  <1>2. CASE run[d].pc \in {"reclaim", "create"}
    <2>1. ~strayMark /\ SomeGone
      BY <1>2 DEF Astray, VictimsAreGone
    <2>2. Alone(d)
      BY <2>1 DEF Astray, SomeGone, Gone, Alone
    <2> QED
      BY <1>2, <2>2 DEF VictimsAreGone
  <1> QED
    BY <1>1, <1>2 DEF InPlace

\* A living daemon that stays undisturbed keeps its session, whoever else moves.
LEMMA OthersSpare ==
    ASSUME GroupTypeOK, InPlace, GroupIsThere, VictimsAreGone, GroupMove, History, ~Astray',
           NEW d \in Daemons, d \notin disturbed', AtWork(d)' \/ Serves(d)', ~Gone(d),
           run'[d] = run[d], ~DaemonMove(d), NEW n, Owns(d, n),
           Serves(d) /\ ~AtWork(d) => n = run[d].name
    PROVE  Owns(d, n)'
  <1>a. ~Astray
    BY OnceAstray, Zenon
  <1>0. sess \in [DOMAIN sess -> Session] /\ ~Astray
    BY <1>a DEF GroupTypeOK
  <1>1. CASE UserActs /\ UserMoves
    <2>1. ~AtWork(d) /\ run[d].name \in DOMAIN sess'
      BY <1>1, Undisturbed DEF Meddling, Exists
    <2>2. n = run[d].name
      BY <2>1 DEF AtWork, Serves
    <2>3. n \in DOMAIN sess /\ n \in DOMAIN sess'
      BY <2>1, <2>2 DEF Owns
    <2>4. sess'[n] = sess[n]
      <3>1. ASSUME NEW m \in DOMAIN sess, sess' = Without(m)
            PROVE  sess'[n] = sess[n]
        <4>1. /\ DOMAIN Without(m) = DOMAIN sess \ {m}
              /\ \A k \in DOMAIN sess \ {m} : Without(m)[k] = sess[k]
          BY <1>0, WithoutFacts
        <4> QED
          BY <2>3, <3>1, <4>1
      <3> QED
        BY <1>1, <2>3, <3>1 DEF UserMoves
    <2> QED
      BY <2>3, <2>4 DEF Owns
  <1>2. ASSUME NEW e \in Daemons, e # d, Slays(e)
        PROVE  Owns(d, n)'
    <2>1. Kills(e) /\ run[e].kill = "kill" /\ sess' = Without(run[e].target)
      BY <1>2 DEF Slays
    <2>2. run[e].target # n
      <3>1. CASE e \in disturbed
        <4>1. ~AtWork(d) /\ run[d].name \in DOMAIN sess'
          BY <2>1, <3>1, Undisturbed DEF Meddling, Exists
        <4>2. n = run[d].name
          BY <4>1 DEF AtWork, Serves
        <4>3. DOMAIN sess' = DOMAIN sess \ {run[e].target}
          BY <1>0, <2>1, WithoutFacts
        <4> QED
          BY <4>1, <4>2, <4>3
      <3>2. CASE e \notin disturbed
        BY <1>0, <1>2, <2>1, <3>2, OwnOrGone DEF Owns
      <3> QED
        BY <3>1, <3>2
    <2>3. n \in DOMAIN Without(run[e].target) /\ Without(run[e].target)[n] = sess[n]
      BY <1>0, <2>2, WithoutFacts DEF Owns
    <2> QED
      BY <2>1, <2>3 DEF Owns
  <1>3. ASSUME NEW e \in Daemons, e # d, DaemonMove(e), ~Slays(e)
        PROVE  Owns(d, n)'
    <2>1. CASE Makes(e)
      BY <2>1 DEF Makes, Owns
    <2>2. CASE Stamps(e)
      BY <2>2 DEF Stamps, Owns
    <2>3. CASE sess' = sess
      BY <2>3 DEF Owns
    <2> QED
      BY <1>3, <2>1, <2>2, <2>3 DEF DaemonMove, Looks, Lists, Sorts, Bases, Counts, TakesFree,
                TakesOver, Settles, Drops, GivesUp, Stops, Vanishes
  <1> QED
    BY <1>1, <1>2, <1>3 DEF GroupMove

LEMMA KeepsGroup ==
    ASSUME GroupTypeOK, InPlace, GroupIsThere, VictimsAreGone, GroupMove, History
    PROVE  GroupIsThere'
  <1> SUFFICES ASSUME NEW d \in Daemons, d \notin disturbed', ~Astray',
                      \/ run'[d].pc \in {"mark", "verify", "serving"}
                      \/ run'[d].pc \in {"idle", "exit"} /\ run'[d].kill # "no"
               PROVE  /\ run'[d].pc \in {"mark", "verify", "serving"} => Owns(d, run[d].name)'
                      /\ run'[d].pc \in {"idle", "exit"} /\ run'[d].kill # "no" =>
                            Owns(d, run[d].target)'
    BY DEF GroupIsThere
  <1>1. AtWork(d)' \/ Serves(d)'
    BY DEF AtWork, Serves
  <1>2. d \notin disturbed /\ ~Astray
    <2>1. ~Astray
      BY OnceAstray, Zenon
    <2> QED
      BY <1>1, <2>1, Undisturbed, Zenon
  <1>3. CASE run'[d] = run[d] /\ ~DaemonMove(d)
    <2>0. ~Gone(d)
      BY <1>3 DEF Gone
    <2>1. ASSUME run[d].pc \in {"mark", "verify", "serving"}
          PROVE  Owns(d, run[d].name)'
      <3>1. Owns(d, run[d].name)
        BY <1>2, <2>1 DEF GroupIsThere
      <3> DEFINE n == run[d].name
      <3>2. PICK m : m = n
        OBVIOUS
      <3>3. Owns(d, m)'
        BY <1>1, <1>3, <2>0, <3>1, <3>2, OthersSpare
      <3> QED
        BY <1>3, <3>2, <3>3 DEF Owns
    <2>2. ASSUME run[d].pc \in {"idle", "exit"}, run[d].kill # "no"
          PROVE  Owns(d, run[d].target)'
      <3>1. Owns(d, run[d].target) /\ ~Serves(d)
        BY <1>2, <2>2 DEF GroupIsThere, Serves
      <3>2. PICK m : m = run[d].target
        OBVIOUS
      <3>3. Owns(d, m)'
        BY <1>1, <1>3, <2>0, <3>1, <3>2, OthersSpare
      <3> QED
        BY <1>3, <3>2, <3>3 DEF Owns
    <2> QED
      BY <1>3, <2>1, <2>2
  <1>4. CASE DaemonMove(d)
    <2>1. CASE Makes(d)
      BY <2>1 DEF Makes, Gets, SameNames, Owns, NoKill
    <2>2. CASE Stamps(d)
      BY <1>2, <2>2 DEF Stamps, Gets, SameNames, GroupIsThere, Owns, NoKill
    <2>3. CASE Looks(d) \/ Settles(d) \/ Counts(d) \/ Drops(d)
      BY <1>2, <2>3 DEF Looks, Settles, Counts, Drops, Gets, SameNames, GroupIsThere, Owns, NoKill,
                        InPlace
    <2>4. CASE Slays(d)
      BY <1>2, <2>4 DEF Slays, Gets, SameNames, InPlace
    <2> QED
      BY <1>4, <2>1, <2>2, <2>3, <2>4 DEF DaemonMove, Lists, Sorts, Bases, TakesFree, TakesOver,
              GivesUp, Stops, Vanishes, Gets, NoKill
  <1> QED
    BY <1>3, <1>4, OthersStay DEF GroupMove, UserMoves

\* A marker that did not stray, and is another's than an empty one, is that of the
\* session's own daemon; if that one has no session yet, it is another's.
LEMMA MarkedByOthers ==
    ASSUME GroupTypeOK, OwnerHasName, MarkersAreOwners, ~strayMark,
           NEW d \in Daemons, run[d].pc \in {"idle", "reclaim", "claim"}, run[d].kill = "no",
           NEW n \in DOMAIN sess, sess[n].marker # Unmarked
    PROVE  /\ sess[n].owner = sess[n].marker /\ sess[n].marker # d
           /\ sess[n].marker \in Daemons
  <1>1. sess[n].owner = sess[n].marker
    BY DEF MarkersAreOwners
  <1>2. sess[n].marker \in Daemons
    <2>1. sess[n] \in Session
      BY DEF GroupTypeOK
    <2> QED
      BY <2>1 DEF Session
  <1>3. sess[n].owner # d
    BY DEF OwnerHasName, Gone
  <1> QED
    BY <1>1, <1>2, <1>3

LEMMA KeepsListed ==
    ASSUME GroupTypeOK, OwnerHasName, MarkersAreOwners, OneAtWork, OneAtWork', ListedAreOthers,
           InPlace, GroupMove, History
    PROVE  ListedAreOthers'
  <1> SUFFICES ASSUME NEW d \in Daemons, run'[d].pc = "reclaim", ~strayMark',
                      NEW s \in run'[d].todo
               PROVE  /\ s[2] # d
                      /\ Alone(d)' /\ s[1] \in DOMAIN sess' => sess'[s[1]].owner = s[2]
    BY DEF ListedAreOthers, Alone
  <1>1. ~strayMark /\ AtWork(d)'
    BY DEF History, AtWork
  <1>2. CASE DaemonMove(d)
    <2>1. CASE Lists(d)
      <3>1. s \in Shadows /\ sess' = sess /\ run[d].pc = "idle" /\ run[d].kill = "no"
        BY <2>1 DEF Lists, NoKill
      <3>2. PICK n \in DOMAIN sess : s = <<n, sess[n].marker>> /\ sess[n].marker # Unmarked
        BY <3>1 DEF Shadows, Group
      <3>3. sess[n].owner = sess[n].marker /\ sess[n].marker # d
        BY <1>1, <3>1, <3>2, MarkedByOthers
      <3> QED
        BY <3>1, <3>2, <3>3
    <2>2. CASE Looks(d) \/ Slays(d) \/ Sorts(d)
      <3>1. run[d].pc = "reclaim" /\ s \in run[d].todo
        BY <2>2 DEF Looks, Slays, Sorts, Gets
      <3>2. s[2] # d /\ (Alone(d) /\ s[1] \in DOMAIN sess => sess[s[1]].owner = s[2])
        BY <1>1, <3>1 DEF ListedAreOthers
      <3>3. ASSUME Alone(d)', s[1] \in DOMAIN sess'
            PROVE  Alone(d) /\ s[1] \in DOMAIN sess /\ sess'[s[1]] = sess[s[1]]
        <4>1. Alone(d)
          BY <1>1, <3>3, Undisturbed DEF Alone, History
        <4>2. s[1] \in DOMAIN sess /\ sess'[s[1]] = sess[s[1]]
          <5>1. CASE sess' = sess
            BY <3>3, <5>1
          <5>2. CASE sess' = Without(run[d].target)
            <6>1. /\ DOMAIN Without(run[d].target) = DOMAIN sess \ {run[d].target}
                  /\ \A m \in DOMAIN sess \ {run[d].target} : Without(run[d].target)[m] = sess[m]
              BY WithoutFacts DEF GroupTypeOK
            <6> QED
              BY <3>3, <5>2, <6>1
          <5> QED
            BY <2>2, <5>1, <5>2 DEF Looks, Slays, Sorts
        <4> QED
          BY <4>1, <4>2
      <3> QED
        BY <3>2, <3>3
    <2> QED
      BY <1>2, <2>1, <2>2 DEF DaemonMove, Bases, Counts, TakesFree, TakesOver, Makes, Stamps,
              Settles, Drops, GivesUp, Stops, Vanishes, Gets
  <1>3. CASE ~DaemonMove(d)
    <2>1. run'[d] = run[d]
      BY <1>3, OthersStay DEF GroupMove, UserMoves
    <2>2. s[2] # d /\ (Alone(d) /\ s[1] \in DOMAIN sess => sess[s[1]].owner = s[2])
      BY <1>1, <2>1 DEF ListedAreOthers
    <2>3. ASSUME Alone(d)'
          PROVE  Alone(d) /\ sess' = sess
      BY <1>1, <1>3, <2>3, Undisturbed, Quiet DEF Alone, History
    <2> QED
      BY <2>2, <2>3
  <1> QED
    BY <1>2, <1>3

LEMMA KeepsVictims ==
    ASSUME GroupTypeOK, OwnerHasName, MarkersAreOwners, OneAtWork, OneAtWork', ListedAreOthers,
           VictimsAreGone, InPlace, GroupMove, History
    PROVE  VictimsAreGone'
  <1> DEFINE x(d) == sess[run[d].target].owner
  <1> SUFFICES ASSUME NEW d \in Daemons, run'[d].kill # "no", run'[d].pc \in {"reclaim", "create"},
                      ~strayMark'
               PROVE  /\ SomeGone'
                      /\ Alone(d)' /\ run'[d].target \in DOMAIN sess' =>
                            /\ sess'[run'[d].target].owner \in Daemons
                            /\ run'[sess'[run'[d].target].owner].pc = "dead"
    BY DEF VictimsAreGone, Alone, Gone
  <1>1. ~strayMark /\ AtWork(d)'
    BY DEF History, AtWork
  <1>2. Alone(d)' => Alone(d)
    BY <1>1, Undisturbed DEF Alone, History
  <1>3. ASSUME NEW g \in Daemons, Gone(g)
        PROVE  SomeGone' /\ run'[g].pc = "dead"
    BY <1>3, OnceGone DEF SomeGone, Gone
  <1>4. CASE DaemonMove(d)
    <2>1. CASE Looks(d)
      <3>1. /\ run[d].kill # "no" /\ run[d].pc \in {"reclaim", "create"} /\ sess' = sess
            /\ run'[d].target = run[d].target
        BY <2>1 DEF Looks, Gets
      <3>2. SomeGone
        BY <1>1, <3>1 DEF VictimsAreGone
      <3>3. Alone(d) /\ run[d].target \in DOMAIN sess => x(d) \in Daemons /\ Gone(x(d))
        BY <3>1 DEF VictimsAreGone
      <3> QED
        BY <1>2, <1>3, <3>1, <3>2, <3>3 DEF SomeGone
    <2>2. CASE Sorts(d)
      <3>1. PICK s \in run[d].todo : run'[d].target = s[1] /\ IsReclaimableMarker(s[2], d)
        BY <2>2 DEF Sorts
      <3>2. run[d].pc = "reclaim" /\ sess' = sess /\ s[2] \in Daemons
        BY <2>2, <3>1, RunFields DEF Sorts, GroupTypeOK
      <3>3. s[2] # d /\ (Alone(d) /\ s[1] \in DOMAIN sess => sess[s[1]].owner = s[2])
        BY <1>1, <3>1, <3>2 DEF ListedAreOthers
      <3>4. Gone(s[2])
        BY <3>1, <3>3 DEF IsReclaimableMarker, Gone
      <3> QED
        BY <1>2, <1>3, <3>1, <3>2, <3>3, <3>4
    <2>3. CASE TakesOver(d)
      <3>1. PICK n \in DOMAIN sess : n = run'[d].target /\ IsReclaimableMarker(sess[n].marker, d)
        BY <2>3 DEF TakesOver
      <3>2. sess' = sess /\ run[d].pc = "claim" /\ run[d].kill = "no"
        BY <2>3 DEF TakesOver
      <3>3. /\ sess[n].owner = sess[n].marker /\ sess[n].marker # d
            /\ sess[n].marker \in Daemons
        BY <1>1, <3>1, <3>2, MarkedByOthers DEF IsReclaimableMarker
      <3>4. Gone(sess[n].owner)
        BY <3>1, <3>3 DEF IsReclaimableMarker, Gone
      <3> QED
        BY <1>3, <3>1, <3>2, <3>3, <3>4
    <2> QED
      BY <1>4, <2>1, <2>2, <2>3 DEF DaemonMove, Slays, Lists, Bases, Counts, TakesFree, Makes,
              Stamps, Settles, Drops, GivesUp, Stops, Vanishes, Gets, NoKill
  <1>5. CASE ~DaemonMove(d)
    <2>1. run'[d] = run[d]
      BY <1>5, OthersStay DEF GroupMove, UserMoves
    <2>2. SomeGone
      BY <1>1, <2>1 DEF VictimsAreGone
    <2>3. Alone(d) /\ run[d].target \in DOMAIN sess => x(d) \in Daemons /\ Gone(x(d))
      BY <2>1 DEF VictimsAreGone
    <2>4. Alone(d)' => sess' = sess
      BY <1>1, <1>5, Quiet DEF Alone
    <2> QED
      BY <1>2, <1>3, <2>1, <2>2, <2>3, <2>4 DEF SomeGone
  <1> QED
    BY <1>4, <1>5

LEMMA TwoAtLeast ==
    ASSUME NEW n \in Group, Cardinality(Group) >= 2
    PROVE  Remains(n)
  <1>1. ASSUME Group = {n}
        PROVE  FALSE
    <2>1. Cardinality({n}) = 1
      BY FS_Singleton
    <2> QED
      BY <1>1, <2>1
  <1> QED
    BY <1>1 DEF Remains

LEMMA KeepsPane ==
    ASSUME GroupTypeOK, OwnerHasName, OneEach, MarkersAreOwners, OneAtWork, OneAtWork',
           ListedAreOthers, VictimsAreGone, PaneIsKept, InPlace, GroupMove, History
    PROVE  PaneIsKept'
  <1> SUFFICES ASSUME NEW d \in Daemons, Alone(d)', ~TwoAreGone',
                      run'[d].pc \in {"reclaim", "claim", "create"}
               PROVE  /\ run'[d].pc = "reclaim" /\ run'[d].kill # "no"
                         /\ run'[d].target \in DOMAIN sess' => Remains(run[d].target)'
                      /\ run'[d].pc = "reclaim" =>
                          \A s \in run'[d].todo : s[1] \in DOMAIN sess' /\ (SomeGone' => Gone(s[2])') =>
                            Remains(s[1])'
                      /\ run'[d].pc = "claim" => run'[d].base \in Group'
                      /\ run'[d].pc = "create" /\ run'[d].kill # "no" =>
                            run'[d].base \in Group' /\ run'[d].base # run'[d].target
    BY DEF PaneIsKept
  <1>1. AtWork(d)' /\ ~beside' /\ d \notin disturbed' /\ ~strayMark'
    BY DEF AtWork, Alone
  <1>2. Alone(d) /\ ~TwoAreGone /\ ~strayMark
    <2>1. ~TwoAreGone
      BY OnceAstray, Zenon
    <2> QED
      BY <1>1, <2>1, Undisturbed DEF Alone, History
  <1>3. \A s \in run[d].todo : s[2] \in Daemons
    BY RunFields DEF GroupTypeOK
  <1>4. ASSUME NEW e \in Daemons, SomeGone' => Gone(e)'
        PROVE  SomeGone => Gone(e)
    BY <1>4, OnceGone, OnceAstray DEF SomeGone, TwoAreGone, Gone
  <1>5. CASE run'[d] = run[d] /\ sess' = sess
    <2>1. ASSUME NEW s \in run[d].todo, run[d].pc = "reclaim", s[1] \in DOMAIN sess,
                 SomeGone' => Gone(s[2])'
          PROVE  Remains(s[1])
      BY <1>2, <1>3, <1>4, <2>1 DEF PaneIsKept
    <2> QED
      BY <1>2, <1>5, <2>1 DEF PaneIsKept, Remains, Group
  <1>6. CASE Lists(d)
    <2>1. ASSUME NEW s \in Shadows
          PROVE  Remains(s[1])
      <3>1. PICK n \in Group : s = <<n, sess[n].marker>> /\ GroupSize(n) >= 2
        BY DEF Shadows
      <3>2. Cardinality(Group) >= 2
        BY <3>1 DEF GroupSize, Group
      <3> QED
        BY <3>1, <3>2, TwoAtLeast
    <2> QED
      BY <1>6, <2>1 DEF Lists, Gets, NoKill, Remains, Group
  <1>7. CASE Sorts(d)
    <2>1. run[d].pc = "reclaim" /\ run'[d].pc = "reclaim" /\ sess' = sess
          /\ run'[d].todo \subseteq run[d].todo
      BY <1>7 DEF Sorts, Gets
    <2>2. ASSUME NEW s \in run[d].todo, s[1] \in DOMAIN sess, SomeGone => Gone(s[2])
          PROVE  Remains(s[1])
      BY <1>2, <2>1, <2>2 DEF PaneIsKept
    <2>3. ASSUME NEW s \in run[d].todo, IsReclaimableMarker(s[2], d)
          PROVE  Gone(s[2])
      BY <1>2, <2>1, <2>3 DEF ListedAreOthers, IsReclaimableMarker, Gone
    <2>4. run'[d].kill # "no" =>
            \E s \in run[d].todo : run'[d].target = s[1] /\ IsReclaimableMarker(s[2], d)
      BY <1>7 DEF Sorts
    <2>5. ASSUME run'[d].kill # "no", run'[d].target \in DOMAIN sess
          PROVE  Remains(run'[d].target)
      BY <2>2, <2>3, <2>4, <2>5
    <2> QED
      BY <1>3, <1>4, <2>1, <2>2, <2>5 DEF Remains, Group
  <1>8. CASE Bases(d)
    BY <1>8 DEF Bases, Gets, NoKill, Real, Group
  <1>9. CASE Counts(d) \/ TakesFree(d)
    BY <1>2, <1>9 DEF Counts, TakesFree, Gets, NoKill, SameNames, PaneIsKept, Group
  <1>10. CASE TakesOver(d)
    BY <1>2, <1>10 DEF TakesOver, Gets, PaneIsKept, Group
  <1>11. CASE Looks(d)
    <2>1. /\ run[d].kill # "no" /\ run'[d].pc = run[d].pc /\ sess' = sess
          /\ run'[d].todo = run[d].todo /\ run'[d].base = run[d].base
          /\ run'[d].target = run[d].target
      BY <1>11 DEF Looks, Gets, SameNames
    <2>2. ASSUME NEW s \in run[d].todo, run[d].pc = "reclaim", s[1] \in DOMAIN sess,
                 SomeGone' => Gone(s[2])'
          PROVE  Remains(s[1])
      BY <1>2, <1>3, <1>4, <2>2 DEF PaneIsKept
    <2> QED
      BY <1>1, <1>2, <2>1, <2>2 DEF PaneIsKept, Remains, Group, InPlace
  <1>12. CASE Slays(d)
    <2>1. /\ run[d].kill # "no" /\ run'[d].kill = "no" /\ run'[d].pc = run[d].pc
          /\ run'[d].todo = run[d].todo /\ sess' = Without(run[d].target)
          /\ run[d].pc \in {"reclaim", "create"}
      BY <1>12 DEF Slays, Gets, InPlace
    <2>2. /\ DOMAIN sess' = DOMAIN sess \ {run[d].target}
          /\ \A m \in DOMAIN sess \ {run[d].target} : sess'[m] = sess[m]
      <3>1. /\ DOMAIN Without(run[d].target) = DOMAIN sess \ {run[d].target}
            /\ \A m \in DOMAIN sess \ {run[d].target} : Without(run[d].target)[m] = sess[m]
        BY WithoutFacts DEF GroupTypeOK
      <3> QED
        BY <2>1, <3>1
    <2>3. ASSUME NEW s \in run[d].todo, run[d].pc = "reclaim", s[1] \in DOMAIN sess',
                 SomeGone' => Gone(s[2])'
          PROVE  Remains(s[1])'
      <3>1. s[1] \in DOMAIN sess /\ s[1] # run[d].target
        BY <2>2, <2>3
      <3>2. CASE run[d].target \notin DOMAIN sess
        <4>1. Remains(s[1])
          BY <1>2, <1>3, <1>4, <2>3, <3>1 DEF PaneIsKept
        <4> QED
          BY <2>2, <3>2, <4>1 DEF Remains, Group
      <3>3. CASE run[d].target \in DOMAIN sess
        <4>1. PICK g \in Daemons : sess[run[d].target].owner = g /\ Gone(g)
          BY <1>2, <2>1, <3>3 DEF VictimsAreGone
        <4>2. Gone(g)' /\ Gone(s[2])'
          BY <2>3, <4>1, OnceGone DEF SomeGone, Gone
        <4>3. s[2] = g
          BY <1>3, <2>3, <4>2 DEF TwoAreGone, Gone
        <4>4. sess[s[1]].owner = g
          BY <1>2, <2>3, <3>1, <4>3 DEF ListedAreOthers
        <4> QED
          BY <3>1, <3>3, <4>1, <4>4 DEF OneEach
      <3> QED
        BY <3>2, <3>3
    <2> QED
      BY <2>1, <2>3
  <1> QED
    BY <1>1, <1>5, <1>6, <1>7, <1>8, <1>9, <1>10, <1>11, <1>12, Quiet
       DEF DaemonMove, Makes, Stamps, Settles, Drops, GivesUp, Stops, Vanishes, Gets

LEMMA PgInductive == PgInv /\ [Next]_vars => PgInv'
  <1> SUFFICES ASSUME PgInv, [Next]_vars PROVE PgInv'
    OBVIOUS
  <1>1. CASE Next
    <2>1. GroupTypeOK' /\ GroupMove /\ History
      BY <1>1, GroupSteps DEF PgInv
    <2>2. InPlace' /\ MarkersAreOwners' /\ OneAtWork'
      BY <2>1, KeepsInPlace, KeepsMarkers DEF PgInv
    <2>3. OwnerHasName' /\ OneEach' /\ GroupIsThere'
      BY <2>1, KeepsOwners, KeepsOneEach, KeepsGroup DEF PgInv
    <2>4. ListedAreOthers' /\ VictimsAreGone' /\ PaneIsKept'
      BY <2>1, <2>2, KeepsListed, KeepsVictims, KeepsPane DEF PgInv
    <2> QED
      BY <2>1, <2>2, <2>3, <2>4 DEF PgInv
  <1>2. CASE UNCHANGED vars
    <2>1. /\ sess' = sess /\ run' = run /\ faults' = faults /\ disturbed' = disturbed
          /\ beside' = beside /\ strayMark' = strayMark
      BY <1>2 DEF vars
    <2>2. /\ GroupTypeOK' = GroupTypeOK /\ InPlace' = InPlace /\ OwnerHasName' = OwnerHasName
          /\ OneEach' = OneEach /\ MarkersAreOwners' = MarkersAreOwners
      BY <2>1 DEF GroupTypeOK, InPlace, OwnerHasName, OneEach, MarkersAreOwners, AtWork, Serves, Gone
    <2>3. /\ OneAtWork' = OneAtWork /\ GroupIsThere' = GroupIsThere
          /\ ListedAreOthers' = ListedAreOthers /\ VictimsAreGone' = VictimsAreGone
      BY <2>1 DEF OneAtWork, GroupIsThere, ListedAreOthers, VictimsAreGone, AtWork, Astray, Owns,
                  Alone, Gone, SomeGone
    <2>4. PaneIsKept' = PaneIsKept
      BY <2>1 DEF PaneIsKept, Alone, TwoAreGone, Gone, SomeGone, Remains, Group
    <2> QED
      BY <2>2, <2>3, <2>4 DEF PgInv
  <1> QED
    BY <1>1, <1>2

LEMMA PgInvariance == Spec => []PgInv
  BY InitHolds, PgInductive, PTL DEF Spec

-----------------------------------------------------------------------------
\* A phone's session is there for as long as it is connected, and none is left
\* when the last one is gone.
THEOREM SessionIsThere == Spec => []GroupIsThereForPhones
  <1>1. PgInv => GroupIsThereForPhones
    <2> SUFFICES ASSUME PgInv, NEW d \in Daemons
                 PROVE  /\ Serves(d) => \/ Exists(run[d].name) /\ sess[run[d].name].owner = d
                                        \/ d \in disturbed \/ Astray
                        /\ Ready(d, "idle") /\ ~Astray => \A n \in DOMAIN sess : sess[n].owner # d
      BY DEF GroupIsThereForPhones
    <2>1. Serves(d) => \/ Exists(run[d].name) /\ sess[run[d].name].owner = d
                       \/ d \in disturbed \/ Astray
      BY DEF PgInv, GroupIsThere, Serves, Owns, Exists
    <2>2. Ready(d, "idle") => \A n \in DOMAIN sess : sess[n].owner # d
      BY DEF PgInv, OwnerHasName, Ready, Gone
    <2> QED
      BY <2>1, <2>2
  <1> QED
    BY <1>1, PgInvariance, PTL

\* killGroupSession() hits no session of the user's and none a phone is using.
THEOREM KillsOnlyItsOwn == Spec => OnlyItsOwn
  <1> DEFINE Own == \A d \in Daemons :
                      Kills(d) /\ Exists(run[d].target) =>
                          \/ Victim(d) \in {d} \cup {e \in Daemons : ~Alive(e)}
                          \/ d \in disturbed \/ Astray
  <1>1. PgInv /\ [Next]_vars => [Own]_vars
    <2>1. ASSUME PgInv, NEW d \in Daemons, Kills(d), Exists(run[d].target), d \notin disturbed, ~Astray
          PROVE  Victim(d) \in {d} \cup {e \in Daemons : ~Alive(e)}
      <3>1. run[d].kill # "no" /\ run[d].target \in DOMAIN sess
        BY <2>1 DEF Kills, Exists
      <3>2. \/ sess[run[d].target].owner = d
            \/ sess[run[d].target].owner \in Daemons /\ Gone(sess[run[d].target].owner)
        BY <2>1, <3>1, OwnOrGone DEF PgInv
      <3> QED
        BY <3>2 DEF Victim, Alive, Gone
    <2> QED
      BY <2>1
  <1>2. []PgInv /\ [][Next]_vars => [][Own]_vars
    BY <1>1, PTL
  <1> QED
    BY <1>2, PgInvariance, PTL DEF Spec, OnlyItsOwn

\* The first connection of a daemon never costs the user the pane.
THEOREM PaneOutlives == Spec => PaneSurvives
  <1> DEFINE Kept == \A d \in Daemons : Kills(d) /\ Group = {run[d].target} =>
                        run[d].pc \in {"idle", "exit"} \/ d \in disturbed \/ Astray \/ TwoAreGone
  <1>1. PgInv /\ [Next]_vars => [Kept]_vars
    <2>1. ASSUME PgInv, NEW d \in Daemons, Kills(d), Group = {run[d].target},
                 run[d].pc \notin {"idle", "exit"}, d \notin disturbed, ~Astray, ~TwoAreGone
          PROVE  FALSE
      <3>1. run[d].kill # "no" /\ run[d].target \in DOMAIN sess
        BY <2>1 DEF Kills, Group
      <3>2. run[d].pc \in {"reclaim", "create"}
        BY <2>1, <3>1 DEF PgInv, InPlace
      <3>3. ~strayMark /\ SomeGone
        BY <2>1, <3>1, <3>2 DEF Astray, PgInv, VictimsAreGone
      <3>4. Alone(d)
        BY <2>1, <3>3 DEF Astray, SomeGone, Gone, Alone
      <3>5. CASE run[d].pc = "reclaim"
        <4>1. Remains(run[d].target)
          BY <2>1, <3>1, <3>4, <3>5 DEF PgInv, PaneIsKept
        <4> QED
          BY <2>1, <4>1 DEF Remains
      <3>6. CASE run[d].pc = "create"
        BY <2>1, <3>1, <3>4, <3>6 DEF PgInv, PaneIsKept
      <3> QED
        BY <3>2, <3>5, <3>6
    <2> QED
      BY <2>1
  <1>2. []PgInv /\ [][Next]_vars => [][Kept]_vars
    BY <1>1, PTL
  <1> QED
    BY <1>2, PgInvariance, PTL DEF Spec, PaneSurvives

=============================================================================
