------------------------------ MODULE Compose ------------------------------
(***************************************************************************)
(* term/public/term.js: the compose box of the terminal page, from the     *)
(* Send button to the daemon's answer, over a WebSocket that breaks        *)
(* without telling, in a tab the phone may throw away at any moment.       *)
(*                                                                         *)
(* What the user writes is a sequence of words.  Sending hands the whole   *)
(* box over as one text, and an unsettled text comes back into the box, so *)
(* a word may be sent again as part of a longer text.  What the daemon     *)
(* does with a text is TmuxPaste, of which only the outcomes remain.       *)
(***************************************************************************)
EXTENDS Naturals, SequencesExt

CONSTANTS MaxWords,   \* bound: words the user writes
          MaxSends,   \* bound: texts sent in one life of the tab
          MaxDeaths   \* bound: times the tab is thrown away

ASSUME ComposeBounds == MaxWords \in Nat /\ MaxSends \in Nat /\ MaxDeaths \in Nat

VARIABLES
  words,    \* number of words written; word n is the n-th
  box,      \* oto.value
  draft,    \* localStorage 'ccrc_nhap'
  flying,   \* localStorage 'ccrc_dang_gui'
  waiting,  \* dangCho: seq -> text not yet answered
  pasteSeq, \* number of the last text sent
  locked,   \* daKhoaVaoPhienBan: the versions do not match, or nobody answered
  link,     \* "open", "halfOpen" (the page does not know yet) or "down"
  uplink,   \* texts under way to the daemon or in its queue
  answers,  \* answers under way to the page
  pane,     \* words the pane has received
  deaths,   \* how often the tab died
  mixed,    \* history: texts overlapped
  last,     \* history: the number of the text last sent
  overtaken,\* history: texts that wait, while one sent before them came back
  astray    \* history: words of texts that came back too late or a second time

pageVars == <<box, draft, flying, waiting, pasteSeq>>
wireVars == <<link, uplink, answers>>
orderVars == <<last, overtaken, astray>>
cpVars == <<words, pageVars, locked, wireVars, pane, deaths, mixed, orderVars>>

Text == Seq(1..MaxWords)
NoText == <<>>
Empty == [s \in {} |-> NoText]

CPInit ==
  /\ words = 0
  /\ box = NoText
  /\ draft = NoText
  /\ flying = NoText
  /\ waiting = Empty
  /\ pasteSeq = 0
  /\ locked = FALSE
  /\ link = "down"
  /\ uplink = <<>>
  /\ answers = <<>>
  /\ pane = {}
  /\ deaths = 0
  /\ mixed = FALSE
  /\ last = 0 /\ overtaken = {} /\ astray = {}
---------------------------------------------------------------------------
(* The 'input' event: luuNhap() keeps the draft.                           *)
Write ==
  /\ words < MaxWords
  /\ words' = words + 1
  /\ box' = Append(box, words + 1)
  /\ draft' = box'
  /\ UNCHANGED <<flying, waiting, pasteSeq, locked, wireVars, pane, deaths, mixed, orderVars>>

(* The Send button without a connection: the text stays in the box.        *)
SendRefused ==
  /\ box # NoText /\ ~locked
  /\ link = "down"
  /\ pasteSeq < MaxSends
  /\ pasteSeq' = pasteSeq + 1
  /\ draft' = box
  /\ UNCHANGED <<words, box, flying, waiting, locked, wireVars, pane, deaths, mixed, orderVars>>

(* The Send button: readyState says OPEN, whether anybody is there or not. *)
TextNumber == pasteSeq + 1

ForgottenOnDisk(text) == NoText

KeptOnDisk(text) == text

Send ==
  /\ box # NoText /\ ~locked
  /\ link # "down"
  /\ pasteSeq < MaxSends
  /\ pasteSeq' = pasteSeq + 1
  /\ uplink' = IF link = "open"
               THEN Append(uplink, [seq |-> TextNumber, text |-> box, heard |-> TRUE]) ELSE uplink
  /\ waiting' = [s \in DOMAIN waiting \cup {TextNumber} |->
                   IF s = TextNumber THEN box ELSE waiting[s]]
  /\ flying' = KeptOnDisk(box) /\ last' = TextNumber
  /\ box' = NoText
  /\ draft' = NoText
  /\ mixed' = (mixed \/ waiting # Empty)
  /\ UNCHANGED <<words, locked, link, answers, pane, deaths, overtaken, astray>>

(* delete dangCho[seq], with its timer.                                    *)
Settle(s) == waiting' = [t \in DOMAIN waiting \ {s} |-> waiting[t]]

(* traLaiOto(): in front of what was written meanwhile.                    *)
ReturnedBehind(text) == box \o text

Returned(text) == text \o box

GiveBack(s) ==
  /\ box' = Returned(waiting[s])
  /\ draft' = box'
  /\ Settle(s)
  /\ overtaken' = overtaken \cup {t \in DOMAIN waiting : t > s}
  /\ astray' = IF s \in overtaken THEN astray \cup ToSet(waiting[s]) ELSE astray

(* CHO_XAC_NHAN_MS after Send, connected or not.                           *)
DueWhenConnected(s) == s \in DOMAIN waiting /\ link # "down"

Due(s) == s \in DOMAIN waiting

AnswerTimesOut(s) ==
  /\ Due(s)
  /\ GiveBack(s)
  /\ UNCHANGED <<words, flying, pasteSeq, locked, wireVars, pane, deaths, mixed, last>>

(* ccrc_ack and ccrc_loi: nothing happens to a text already settled.       *)
Concludes(s) == Settle(s) /\ flying' = NoText

Acked(s) ==
  IF s \in DOMAIN waiting THEN Concludes(s) /\ UNCHANGED <<box, draft, overtaken, astray>>
  ELSE UNCHANGED <<box, draft, flying, waiting, overtaken, astray>>

Failed(s) ==
  IF s \in DOMAIN waiting THEN GiveBack(s) /\ flying' = NoText
  ELSE UNCHANGED <<box, draft, flying, waiting, overtaken, astray>>

AnswerArrives ==
  /\ answers # <<>>
  /\ IF Head(answers).ok THEN Acked(Head(answers).seq) ELSE Failed(Head(answers).seq)
  /\ answers' = Tail(answers)
  /\ UNCHANGED <<words, pasteSeq, locked, link, uplink, pane, deaths, mixed, last>>
---------------------------------------------------------------------------
(* The daemon takes the next text: paste() confirms it, refuses it, or     *)
(* gives it up after PASTE_LOAD_TIMEOUT_MS although tmux may still paste   *)
(* it, and may then confirm it all the same.                               *)
Answer(s, ok) == [seq |-> s, ok |-> ok]

DaemonPastes ==
  /\ uplink # <<>>
  /\ uplink' = Tail(uplink)
  /\ LET item == Head(uplink)
         says(what) == answers' = IF item.heard THEN answers \o what ELSE answers
     IN \/ /\ pane' = pane \cup ToSet(item.text)
           /\ \/ says(<<Answer(item.seq, TRUE)>>)
              \/ says(<<Answer(item.seq, FALSE)>>)
              \/ says(<<Answer(item.seq, FALSE), Answer(item.seq, TRUE)>>)
        \/ /\ pane' = pane
           /\ says(<<Answer(item.seq, FALSE)>>)
  /\ UNCHANGED <<words, pageVars, locked, link, deaths, mixed, orderVars>>

(* What the daemon still has of a socket that ended may go on, unheard;    *)
(* the rest was lost on the way, with every answer.                        *)
SocketLost ==
  /\ \E n \in 0..Len(uplink) :
       uplink' = [i \in 1..n |-> [uplink[i] EXCEPT !.heard = FALSE]]
  /\ answers' = <<>>

LinkBreaks ==
  /\ link = "open"
  /\ link' = "halfOpen"
  /\ SocketLost
  /\ UNCHANGED <<words, pageVars, locked, pane, deaths, mixed, orderVars>>

PageNotices ==
  /\ link \in {"open", "halfOpen"}
  /\ link' = "down"
  /\ SocketLost
  /\ UNCHANGED <<words, pageVars, locked, pane, deaths, mixed, orderVars>>

Reconnects ==
  /\ link = "down"
  /\ link' = "open"
  /\ UNCHANGED <<words, pageVars, locked, uplink, answers, pane, deaths, mixed, orderVars>>

(* Four seconds after onopen nobody had answered the greeting; a greeting  *)
(* of the right version unlocks.                                           *)
Locks ==
  /\ link # "down" /\ ~locked
  /\ locked' = TRUE
  /\ UNCHANGED <<words, pageVars, wireVars, pane, deaths, mixed, orderVars>>

Unlocks ==
  /\ link = "open" /\ locked
  /\ locked' = FALSE
  /\ UNCHANGED <<words, pageVars, wireVars, pane, deaths, mixed, orderVars>>

(* The tab is closed, reloaded or reclaimed, and the page opened again: it *)
(* starts from what localStorage has.                                      *)
Restored == flying \o draft

TabDies ==
  /\ deaths < MaxDeaths
  /\ deaths' = deaths + 1
  /\ box' = Restored
  /\ draft' = box'
  /\ flying' = NoText
  /\ waiting' = Empty
  /\ pasteSeq' = 0
  /\ locked' = FALSE
  /\ link' = "down"
  /\ SocketLost
  /\ astray' = IF last \in DOMAIN waiting \ overtaken THEN astray ELSE astray \cup ToSet(flying)
  /\ last' = 0 /\ overtaken' = {}
  /\ UNCHANGED <<words, pane, mixed>>
---------------------------------------------------------------------------
CPNext ==
  \/ Write
  \/ SendRefused
  \/ Send
  \/ \E s \in DOMAIN waiting : AnswerTimesOut(s)
  \/ AnswerArrives
  \/ DaemonPastes
  \/ LinkBreaks
  \/ PageNotices
  \/ Reconnects
  \/ Locks
  \/ Unlocks
  \/ TabDies

CPSpec == CPInit /\ [][CPNext]_cpVars

(* The page's own timers run.  Nothing is assumed of network or daemon.    *)
FairCPSpec == CPSpec /\ \A s \in 1..MaxSends : WF_cpVars(AnswerTimesOut(s))
---------------------------------------------------------------------------
TypeOK ==
  /\ words \in 0..MaxWords
  /\ box \in Text /\ draft \in Text /\ flying \in Text
  /\ DOMAIN waiting \subseteq 1..pasteSeq /\ \A s \in DOMAIN waiting : waiting[s] \in Text
  /\ pasteSeq \in 0..MaxSends
  /\ locked \in BOOLEAN
  /\ link \in {"open", "halfOpen", "down"}
  /\ uplink \in Seq([seq : 1..MaxSends, text : Text, heard : BOOLEAN])
  /\ answers \in Seq([seq : 1..MaxSends, ok : BOOLEAN])
  /\ pane \subseteq 1..MaxWords
  /\ deaths \in 0..MaxDeaths
  /\ mixed \in BOOLEAN
  /\ last \in 0..MaxSends /\ overtaken \subseteq 1..MaxSends /\ astray \subseteq 1..MaxWords

Safe(n) == n \in pane \/ n \in ToSet(box) \/ \E s \in DOMAIN waiting : n \in ToSet(waiting[s])

(* A word is in the box, or on its way and kept, or in the pane, whatever  *)
(* the link and the daemon did; and when the tab dies too, as long as the  *)
(* user waits for one answer before the next Send.                         *)
TextSurvives == (~mixed \/ deaths = 0) => \A n \in 1..words : Safe(n)

(* "In front, in the very order the user wrote it" (lines 651, 664-665):   *)
(* a text that comes back does not change the order of what was written,   *)
(* and no word is there twice - except the words of a text that comes back *)
(* after one sent before it, or that is found on disk although it had come *)
(* back, or one sent before it had.                                        *)
OrderIsKept ==
  \A i, j \in 1..Len(box) : i < j => box[i] < box[j] \/ box[i] \in astray

(* Every Send is concluded: answered, or given back after eight seconds.   *)
SendConcludes == \A s \in 1..MaxSends : s \in DOMAIN waiting ~> s \notin DOMAIN waiting
===========================================================================
