---------------------------- MODULE ComposeProofs ----------------------------
(***************************************************************************)
(* What holds of the compose box for any number of words, texts and deaths *)
(* of the tab: nothing written is lost, and nothing but a text that comes   *)
(* back too late, or a second time, changes its order.                     *)
(***************************************************************************)
EXTENDS Compose, SequenceTheorems, TLAPS

Item == [seq : 1..MaxSends, text : Text, heard : BOOLEAN]
Reply == [seq : 1..MaxSends, ok : BOOLEAN]

\* The box and its copies, and what only has its type.
BoxTypes ==
  /\ words \in 0..MaxWords
  /\ box \in Text /\ draft = box /\ flying \in Text
  /\ pasteSeq \in 0..MaxSends /\ deaths \in 0..MaxDeaths

OrderTypes ==
  /\ last \in 0..MaxSends /\ overtaken \subseteq 1..MaxSends /\ astray \subseteq 1..MaxWords

OtherTypes ==
  /\ locked \in BOOLEAN /\ link \in {"open", "halfOpen", "down"}
  /\ pane \subseteq 1..MaxWords /\ mixed \in BOOLEAN

WaitingTypes ==
  /\ DOMAIN waiting \subseteq 1..pasteSeq
  /\ \A s \in DOMAIN waiting : waiting[s] \in Text
  /\ waiting = [s \in DOMAIN waiting |-> waiting[s]]

\* What is under way in this life of the tab says what the page knows: a heard
\* item is the text the page waits for, and a good answer speaks of a text that
\* is in the pane.
Carries(item) ==
  item.heard => /\ item.seq \leq pasteSeq
                /\ item.seq \in DOMAIN waiting => item.text = waiting[item.seq]

Confirms(reply) ==
  /\ reply.seq \leq pasteSeq
  /\ reply.ok /\ reply.seq \in DOMAIN waiting => ToSet(waiting[reply.seq]) \subseteq pane

Wires ==
  /\ uplink \in Seq(Item) /\ \A i \in 1..Len(uplink) : Carries(uplink[i])
  /\ answers \in Seq(Reply) /\ \A i \in 1..Len(answers) : Confirms(answers[i])

\* While texts do not overlap, the one that waits is the one on disk.
OneFlies ==
  ~mixed => \A s \in DOMAIN waiting : DOMAIN waiting = {s} /\ flying = waiting[s]

UpTo(text, n) == \A i \in 1..Len(text) : text[i] \leq n

\* But for the words in "but", a text is in the order it was written in, and is all
\* older than another.
InPlace(text, but) ==
  \A i, j \in 1..Len(text) : i < j => text[i] < text[j] \/ text[i] \in but

Before(a, b, but) ==
  \A i \in 1..Len(a) : \A j \in 1..Len(b) : a[i] < b[j] \/ a[i] \in but

Written ==
  /\ UpTo(box, words) /\ \A s \in DOMAIN waiting : UpTo(waiting[s], words)
  /\ UpTo(flying, words)

\* A text that waits, and that no older one came back under, is older than the box
\* and than the texts sent after it; the last one sent is the one on disk.
Ordered ==
  /\ InPlace(box, astray)
  /\ \A s \in DOMAIN waiting : InPlace(waiting[s], astray)
  /\ \A s \in DOMAIN waiting \ overtaken :
        /\ Before(waiting[s], box, astray)
        /\ \A t \in DOMAIN waiting : s < t => Before(waiting[s], waiting[t], astray)
  /\ last \in DOMAIN waiting => flying \in {NoText, waiting[last]}

Page == BoxTypes /\ OrderTypes /\ WaitingTypes /\ OneFlies /\ Written /\ Ordered /\ TextSurvives

Kept == Page /\ OtherTypes /\ Wires
-----------------------------------------------------------------------------
\* Texts put together: their words, and their order.
LEMMA WordsOfBoth ==
    ASSUME NEW S, NEW a \in Seq(S), NEW b \in Seq(S)
    PROVE a \o b \in Seq(S) /\ ToSet(a \o b) = ToSet(a) \cup ToSet(b)
<1>1. a \o b \in Seq(S) /\ Len(a \o b) = Len(a) + Len(b)
  OBVIOUS
<1>2. \A i \in 1..Len(a) : (a \o b)[i] = a[i]
  OBVIOUS
<1>3. \A i \in 1..Len(b) : (a \o b)[Len(a) + i] = b[i] /\ Len(a) + i \in 1..Len(a \o b)
  OBVIOUS
<1>4. \A i \in 1..Len(a \o b) : i \in 1..Len(a) \/ \E j \in 1..Len(b) : i = Len(a) + j
  <2>1. TAKE i \in 1..Len(a \o b)
  <2>2. CASE i > Len(a)
    <3>1. i - Len(a) \in 1..Len(b) /\ i = Len(a) + (i - Len(a))
      BY <1>1, <2>2
    <3> QED
      BY <3>1
  <2> QED
    BY <1>1, <2>2
<1>5. ToSet(a \o b) \subseteq ToSet(a) \cup ToSet(b)
  <2>1. ASSUME NEW w \in ToSet(a \o b) PROVE w \in ToSet(a) \cup ToSet(b)
    <3>1. PICK i \in 1..Len(a \o b) : w = (a \o b)[i]
      BY <1>1 DEF ToSet
    <3>2. CASE i \in 1..Len(a)
      BY <3>1, <3>2, <1>2 DEF ToSet
    <3>3. CASE \E j \in 1..Len(b) : i = Len(a) + j
      BY <3>1, <3>3, <1>3 DEF ToSet
    <3> QED
      BY <3>2, <3>3, <1>4
  <2> QED
    BY <2>1
<1>6. ToSet(a) \subseteq ToSet(a \o b)
  BY <1>1, <1>2 DEF ToSet
<1>7. ToSet(b) \subseteq ToSet(a \o b)
  <2>1. ASSUME NEW w \in ToSet(b) PROVE w \in ToSet(a \o b)
    <3>1. PICK j \in 1..Len(b) : w = b[j]
      BY DEF ToSet
    <3>2. Len(a) + j \in DOMAIN (a \o b) /\ w = (a \o b)[Len(a) + j]
      BY <3>1, <1>1, <1>3
    <3> QED
      BY ONLY <3>2 DEF ToSet
  <2> QED
    BY <2>1
<1> QED
  BY <1>1, <1>5, <1>6, <1>7

LEMMA WordsAppended ==
    ASSUME NEW S, NEW a \in Seq(S), NEW w \in S
    PROVE Append(a, w) \in Seq(S) /\ ToSet(Append(a, w)) = ToSet(a) \cup {w}
<1>1. /\ Append(a, w) \in Seq(S) /\ Len(Append(a, w)) = Len(a) + 1
      /\ Append(a, w)[Len(a) + 1] = w /\ \A i \in 1..Len(a) : Append(a, w)[i] = a[i]
  OBVIOUS
<1> QED
  BY <1>1 DEF ToSet

LEMMA BothUpTo ==
    ASSUME NEW a \in Text, NEW b \in Text, NEW n \in Nat, UpTo(a, n), UpTo(b, n)
    PROVE UpTo(a \o b, n)
BY ComposeBounds DEF UpTo, Text

LEMMA WordsInSet ==
    ASSUME NEW S, NEW a \in Seq(S) PROVE ToSet(a) \subseteq S
<1>1. \A i \in DOMAIN a : a[i] \in S
  OBVIOUS
<1> QED
  BY <1>1 DEF ToSet

LEMMA OneOrTwo ==
    ASSUME NEW S, NEW a \in S, NEW b \in S
    PROVE /\ <<a>> \in Seq(S) /\ \A i \in 1..Len(<<a>>) : <<a>>[i] = a
          /\ <<a, b>> \in Seq(S) /\ \A i \in 1..Len(<<a, b>>) : <<a, b>>[i] \in {a, b}
          /\ <<>> \in Seq(S) /\ Len(<<>>) = 0
OBVIOUS

\* A later word at the end keeps a text in place, and older texts before it.
LEMMA WordBehind ==
    ASSUME NEW a \in Text, NEW n \in Nat, n + 1 \in 1..MaxWords, UpTo(a, n), NEW but
    PROVE /\ UpTo(Append(a, n + 1), n + 1)
          /\ InPlace(a, but) => InPlace(Append(a, n + 1), but)
          /\ \A b \in Text : UpTo(b, n) /\ Before(b, a, but) => Before(b, Append(a, n + 1), but)
<1> USE ComposeBounds DEF UpTo, Text
<1>1. UpTo(Append(a, n + 1), n + 1)
  OBVIOUS
<1>2. InPlace(a, but) => InPlace(Append(a, n + 1), but)
  BY DEF InPlace
<1>3. ASSUME NEW b \in Text, UpTo(b, n), Before(b, a, but)
      PROVE  Before(b, Append(a, n + 1), but)
  <2>1. \A j \in 1..Len(Append(a, n + 1)) :
          \/ j \in 1..Len(a) /\ Append(a, n + 1)[j] = a[j]
          \/ Append(a, n + 1)[j] = n + 1
    OBVIOUS
  <2>2. \A i \in 1..Len(b) : b[i] \in 1..MaxWords /\ b[i] \leq n
    BY <1>3
  <2>3. \A i \in 1..Len(b) : b[i] < n + 1
    BY <2>2
  <2> HIDE DEF UpTo, Text
  <2> QED
    BY <1>3, <2>1, <2>3 DEF Before
<1> QED
  BY <1>1, <1>2, <1>3

\* An older text in front.
LEMMA TextInFront ==
    ASSUME NEW a \in Text, NEW b \in Text, NEW but,
           InPlace(a, but), InPlace(b, but), Before(a, b, but)
    PROVE  InPlace(a \o b, but)
<1>1. /\ Len(a) \in Nat /\ Len(b) \in Nat /\ Len(a \o b) = Len(a) + Len(b)
      /\ \A i \in 1..Len(a) : (a \o b)[i] = a[i]
      /\ \A i \in 1..Len(a \o b) : i > Len(a) => i - Len(a) \in 1..Len(b) /\ (a \o b)[i] = b[i - Len(a)]
  BY DEF Text
<1>2. ASSUME NEW i \in 1..Len(a \o b), NEW j \in 1..Len(a \o b), i < j
      PROVE  (a \o b)[i] < (a \o b)[j] \/ (a \o b)[i] \in but
  <2>1. CASE j \leq Len(a)
    BY <1>1, <1>2, <2>1 DEF InPlace
  <2>2. CASE i > Len(a)
    <3>1. i - Len(a) < j - Len(a) /\ j > Len(a)
      BY <1>1, <1>2, <2>2
    <3> QED
      BY <1>1, <1>2, <2>2, <3>1 DEF InPlace
  <2>3. CASE i \leq Len(a) /\ j > Len(a)
    BY <1>1, <1>2, <2>3 DEF Before
  <2> QED
    BY <1>1, <2>1, <2>2, <2>3
<1> QED
  BY <1>2 DEF InPlace

LEMMA OlderThanBoth ==
    ASSUME NEW a \in Text, NEW b \in Text, NEW c \in Text, NEW but,
           Before(c, a, but), Before(c, b, but)
    PROVE  Before(c, a \o b, but)
<1>1. /\ Len(a) \in Nat /\ Len(b) \in Nat /\ Len(a \o b) = Len(a) + Len(b)
      /\ \A i \in 1..Len(a) : (a \o b)[i] = a[i]
      /\ \A i \in 1..Len(a \o b) : i > Len(a) => i - Len(a) \in 1..Len(b) /\ (a \o b)[i] = b[i - Len(a)]
  BY DEF Text
<1>2. \A j \in 1..Len(a \o b) : j \in 1..Len(a) \/ j > Len(a)
  BY <1>1
<1> QED
  BY <1>1, <1>2 DEF Before

\* Words that may be anywhere put nothing out of place, and more of them still less.
LEMMA AnyPlace ==
    ASSUME NEW a \in Text, NEW but, ToSet(a) \subseteq but
    PROVE  InPlace(a, but) /\ \A b \in Text : Before(a, b, but)
BY DEF ToSet, InPlace, Before, Text

LEMMA MoreAstray ==
    ASSUME NEW but, NEW more, but \subseteq more
    PROVE  /\ \A a \in Text : InPlace(a, but) => InPlace(a, more)
           /\ \A a, b \in Text : Before(a, b, but) => Before(a, b, more)
BY DEF InPlace, Before

LEMMA WithoutWords ==
    ASSUME NEW a \in Text
    PROVE a \o NoText = a /\ NoText \o a = a /\ NoText \in Text /\ ToSet(NoText) = {}
          /\ \A n \in Nat : UpTo(NoText, n)
          /\ \A but : InPlace(NoText, but) /\ Before(a, NoText, but)
BY DEF NoText, Text, ToSet, InPlace, Before, UpTo

-----------------------------------------------------------------------------
\* What is under way stays true while the page only settles texts, or sends one
\* with a new number, and the pane only grows.
GoesOn ==
  /\ pasteSeq \leq pasteSeq' /\ pasteSeq' \in Nat /\ pane \subseteq pane'
  /\ \A s \in DOMAIN waiting' :
        s > pasteSeq \/ (s \in DOMAIN waiting /\ waiting'[s] = waiting[s])

LEMMA CarriesOn ==
    ASSUME NEW item \in Item, Carries(item), BoxTypes, GoesOn PROVE Carries(item)'
BY ComposeBounds DEF Carries, GoesOn, BoxTypes, Item

LEMMA ConfirmsOn ==
    ASSUME NEW reply \in Reply, Confirms(reply), BoxTypes, GoesOn PROVE Confirms(reply)'
BY ComposeBounds DEF Confirms, GoesOn, BoxTypes, Reply

LEMMA WiresOn ==
    ASSUME Wires, BoxTypes, GoesOn, uplink' = uplink,
           answers' = answers \/ (answers # <<>> /\ answers' = Tail(answers))
    PROVE  Wires'
<1>1. uplink' \in Seq(Item) /\ \A i \in 1..Len(uplink') : Carries(uplink[i])'
  <2>1. ASSUME NEW item \in Item, NEW i \in 1..Len(uplink), item = uplink[i]
        PROVE  Carries(item)'
    BY <2>1, CarriesOn DEF Wires
  <2>2. \A i \in 1..Len(uplink) : uplink[i] \in Item
    BY DEF Wires
  <2> QED
    BY <2>1, <2>2 DEF Wires, Carries
<1>2. answers' \in Seq(Reply)
  BY DEF Wires
<1>3. \A i \in 1..Len(answers') : \E j \in 1..Len(answers) : answers'[i] = answers[j]
  <2>1. CASE answers' = answers
    BY <2>1
  <2>2. CASE answers # <<>> /\ answers' = Tail(answers)
    <3>1. \A i \in 1..Len(answers') : i + 1 \in 1..Len(answers) /\ answers'[i] = answers[i + 1]
      BY <2>2 DEF Wires
    <3> QED
      BY <3>1
  <2> QED
    BY <2>1, <2>2
<1>4. ASSUME NEW reply \in Reply, NEW j \in 1..Len(answers), reply = answers[j]
      PROVE  Confirms(reply)'
  BY <1>4, ConfirmsOn DEF Wires
<1>5. \A i \in 1..Len(answers') : Confirms(answers[i])'
  BY <1>2, <1>3, <1>4 DEF Wires, Confirms
<1> QED
  BY <1>1, <1>2, <1>5 DEF Wires

\* Nothing under way is heard of any more.
LEMMA WiresLost == ASSUME Wires, SocketLost PROVE Wires'
<1>1. PICK n \in 0..Len(uplink) :
        uplink' = [i \in 1..n |-> [uplink[i] EXCEPT !.heard = FALSE]]
  BY DEF SocketLost
<1>2. \A i \in 1..n : uplink[i] \in Item
  BY <1>1 DEF Wires
<1>3. \A item \in Item : [item EXCEPT !.heard = FALSE] \in Item
                         /\ ~[item EXCEPT !.heard = FALSE].heard
  BY DEF Item
<1>4. uplink' \in Seq(Item) /\ Len(uplink') = n
  BY <1>1, <1>2, <1>3
<1>5. \A i \in 1..n : ~uplink'[i].heard
  BY <1>1, <1>2, <1>3
<1>6. answers' = <<>>
  BY DEF SocketLost
<1>7. \A i \in 1..Len(uplink') : Carries(uplink[i])'
  BY <1>4, <1>5 DEF Carries
<1>8. answers' \in Seq(Reply) /\ \A i \in 1..Len(answers') : Confirms(answers[i])'
  BY <1>6
<1> QED
  BY <1>4, <1>7, <1>8 DEF Wires

-----------------------------------------------------------------------------
LEMMA StaySafe ==
    ASSUME TextSurvives, words' = words,
           ~mixed' \/ deaths' = 0 => ~mixed \/ deaths = 0,
           \A n \in 1..words : Safe(n) => Safe(n)'
    PROVE  TextSurvives'
BY DEF TextSurvives

\* The page's part stays while nothing of it changes and the pane grows.
LEMMA PageStays ==
    ASSUME Page, UNCHANGED <<words, box, draft, flying, waiting, deaths, mixed, orderVars>>,
           pasteSeq' = pasteSeq \/ pasteSeq' \in pasteSeq..MaxSends, pane \subseteq pane'
    PROVE  Page'
<1>1. TextSurvives'
  <2>1. \A n \in 1..words : Safe(n) => Safe(n)'
    BY DEF Safe
  <2> QED
    BY <2>1, StaySafe DEF Page
<1>2. BoxTypes' /\ OrderTypes' /\ WaitingTypes'
  BY ComposeBounds DEF Page, BoxTypes, OrderTypes, WaitingTypes, orderVars
<1>3. OneFlies' /\ Written' /\ Ordered'
  BY DEF Page, OneFlies, Written, Ordered, orderVars
<1> QED
  BY <1>1, <1>2, <1>3 DEF Page

LEMMA WriteKeeps == ASSUME Kept, Write PROVE Kept'
<1>1. /\ words + 1 \in 1..MaxWords /\ words' = words + 1 /\ words \in Nat
      /\ box \in Text /\ box' = Append(box, words + 1) /\ draft' = box'
      /\ UNCHANGED <<flying, waiting, pasteSeq, locked, wireVars, pane, deaths, mixed>>
      /\ UNCHANGED <<last, overtaken, astray>>
  BY ComposeBounds DEF Kept, Page, BoxTypes, Write, orderVars
<1>2. box' \in Text /\ ToSet(box') = ToSet(box) \cup {words + 1}
  BY <1>1, WordsAppended DEF Text
<1>3. BoxTypes' /\ OrderTypes' /\ WaitingTypes' /\ OtherTypes'
  BY <1>1, <1>2 DEF Kept, Page, BoxTypes, OrderTypes, WaitingTypes, OtherTypes, wireVars
<1>4. Wires'
  <2>1. GoesOn
    BY <1>1 DEF GoesOn, Kept, Page, BoxTypes
  <2> QED
    BY <1>1, <2>1, WiresOn DEF Kept, Page, wireVars
<1>5. OneFlies'
  BY <1>1 DEF Kept, Page, OneFlies
<1>6. Written' /\ Ordered'
  <2>1. UpTo(box, words) /\ InPlace(box, astray)
    BY DEF Kept, Page, Written, Ordered
  <2>2. \A s \in DOMAIN waiting : waiting[s] \in Text /\ UpTo(waiting[s], words)
    BY DEF Kept, Page, Written, WaitingTypes
  <2>3. /\ UpTo(box', words') /\ InPlace(box', astray)
        /\ \A b \in Text : UpTo(b, words) /\ Before(b, box, astray) => Before(b, box', astray)
    BY <1>1, <2>1, WordBehind
  <2>4. \A text \in Text : UpTo(text, words) => UpTo(text, words + 1)
    BY <1>1, ComposeBounds DEF UpTo, Text
  <2>5. Written'
    BY <1>1, <2>2, <2>3, <2>4 DEF Kept, Page, Written, BoxTypes
  <2>6. \A s \in DOMAIN waiting \ overtaken : Before(waiting[s], box', astray)
    BY <2>2, <2>3 DEF Kept, Page, Ordered
  <2>7. Ordered'
    BY <1>1, <2>3, <2>6 DEF Kept, Page, Ordered
  <2> QED
    BY <2>5, <2>7
<1>7. TextSurvives'
  <2>1. \A n \in 1..words : Safe(n) => Safe(n)'
    BY <1>1, <1>2 DEF Safe
  <2>2. words + 1 \in ToSet(box')
    BY <1>2
  <2>3. \A n \in 1..words + 1 : n \in 1..words \/ n = words + 1
    BY <1>1
  <2> QED
    BY <1>1, <2>1, <2>2, <2>3 DEF Kept, Page, TextSurvives, Safe
<1> QED
  BY <1>3, <1>4, <1>5, <1>6, <1>7 DEF Kept, Page

LEMMA SendRefusedKeeps == ASSUME Kept, SendRefused PROVE Kept'
<1>1. /\ pasteSeq' = pasteSeq + 1 /\ pasteSeq' \in pasteSeq..MaxSends
      /\ UNCHANGED <<words, box, draft, flying, waiting, locked, wireVars, pane, deaths, mixed>>
      /\ UNCHANGED orderVars
  BY ComposeBounds DEF Kept, Page, BoxTypes, SendRefused
<1>2. Wires'
  <2>1. GoesOn
    BY <1>1, ComposeBounds DEF GoesOn, Kept, Page, BoxTypes
  <2> QED
    BY <1>1, <2>1, WiresOn DEF Kept, Page, wireVars
<1>3. Page' /\ OtherTypes'
  BY <1>1, PageStays DEF Kept, OtherTypes, wireVars
<1> QED
  BY <1>2, <1>3 DEF Kept

\* The text leaves the box, and is kept under a number nobody has spoken of.
LEMMA SendKeeps == ASSUME Kept, Send PROVE Kept'
<1> DEFINE n == pasteSeq + 1
<1>1. /\ n \in 1..MaxSends /\ pasteSeq \in Nat /\ pasteSeq < n /\ pasteSeq' = n
      /\ n \notin DOMAIN waiting /\ words \in Nat /\ box \in Text
      /\ DOMAIN waiting' = DOMAIN waiting \cup {n} /\ waiting'[n] = box
      /\ \A s \in DOMAIN waiting : waiting'[s] = waiting[s]
      /\ waiting' = [s \in DOMAIN waiting' |-> waiting'[s]]
      /\ flying' = box /\ box' = NoText /\ draft' = NoText /\ last' = n
      /\ mixed' = (mixed \/ waiting # Empty) /\ UNCHANGED <<overtaken, astray>>
      /\ UNCHANGED <<words, locked, link, answers, pane, deaths>>
  BY ComposeBounds DEF Kept, Page, BoxTypes, WaitingTypes, Send, TextNumber, KeptOnDisk
<1>2. BoxTypes' /\ OrderTypes' /\ WaitingTypes' /\ OtherTypes'
  BY <1>1, WithoutWords DEF Kept, Page, BoxTypes, OrderTypes, WaitingTypes, OtherTypes
<1>3. GoesOn
  BY <1>1 DEF GoesOn
<1>4. Wires'
  <2> DEFINE item == [seq |-> n, text |-> box, heard |-> TRUE]
  <2>1. item \in Item
    BY <1>1 DEF Item
  <2>2. ASSUME NEW sent \in Item, sent = item PROVE Carries(sent)'
    BY <1>1, <2>2 DEF Carries
  <2>3. uplink' = Append(uplink, item) \/ uplink' = uplink
    BY DEF Send, TextNumber
  <2>4. \A i \in 1..Len(uplink) : uplink[i] \in Item /\ Carries(uplink[i])
    BY DEF Kept, Wires
  <2>5. ASSUME NEW i \in 1..Len(uplink), NEW old \in Item, old = uplink[i]
        PROVE  Carries(old)'
    BY <2>4, <2>5, <1>3, CarriesOn DEF Kept, Page
  <2>6. uplink' \in Seq(Item)
    BY <2>1, <2>3 DEF Kept, Wires
  <2>7. \A i \in 1..Len(uplink') : uplink'[i] = item \/ \E j \in 1..Len(uplink) : uplink'[i] = uplink[j]
    BY <2>1, <2>3 DEF Kept, Wires
  <2>8. \A i \in 1..Len(uplink') : Carries(uplink[i])'
    BY <2>1, <2>2, <2>4, <2>5, <2>7 DEF Carries
  <2>9. \A i \in 1..Len(answers) : answers[i] \in Reply /\ Confirms(answers[i])
    BY DEF Kept, Wires
  <2>10. ASSUME NEW i \in 1..Len(answers), NEW old \in Reply, old = answers[i]
         PROVE  Confirms(old)'
    BY <2>9, <2>10, <1>3, ConfirmsOn DEF Kept, Page
  <2>11. \A i \in 1..Len(answers') : Confirms(answers[i])'
    BY <1>1, <2>9, <2>10 DEF Confirms
  <2> QED
    BY <1>1, <2>6, <2>8, <2>11 DEF Kept, Wires
<1>5. OneFlies' /\ (~mixed' => DOMAIN waiting = {})
  <2>1. ~mixed' => DOMAIN waiting = {}
    BY <1>1 DEF Empty
  <2> QED
    BY <1>1, <2>1 DEF OneFlies
<1>6. Written' /\ Ordered'
  <2>1. \A s \in DOMAIN waiting' : s \in DOMAIN waiting \/ s = n
    BY <1>1
  <2>2. \A s \in DOMAIN waiting : s \in 1..pasteSeq /\ waiting[s] \in Text
    BY DEF Kept, Page, WaitingTypes
  <2>3. Written'
    BY <1>1, <2>1, WithoutWords DEF Kept, Page, Written
  <2>4. InPlace(box', astray) /\ \A s \in DOMAIN waiting' : InPlace(waiting'[s], astray)
    BY <1>1, <2>1, WithoutWords DEF Kept, Page, Ordered
  <2>5. \A s \in DOMAIN waiting' : Before(waiting'[s], box', astray)
    BY <1>1, <2>1, <2>2, WithoutWords
  <2>6. ASSUME NEW s \in DOMAIN waiting' \ overtaken, NEW t \in DOMAIN waiting', s < t
        PROVE  Before(waiting'[s], waiting'[t], astray)
    <3>1. s \in DOMAIN waiting \ overtaken
      BY <1>1, <2>1, <2>2, <2>6
    <3> QED
      BY <1>1, <2>1, <2>6, <3>1 DEF Kept, Page, Ordered
  <2> QED
    BY <1>1, <2>3, <2>4, <2>5, <2>6 DEF Ordered
<1>7. TextSurvives'
  <2>1. \A w \in 1..words : Safe(w) => Safe(w)'
    BY <1>1 DEF Safe
  <2> QED
    BY <1>1, <2>1, StaySafe DEF Kept, Page
<1> QED
  BY <1>2, <1>4, <1>5, <1>6, <1>7 DEF Kept, Page

\* A text comes back in front of what was written meanwhile.
LEMMA GivenBack ==
    ASSUME Page, NEW s \in DOMAIN waiting, GiveBack(s), flying' \in {flying, NoText},
           UNCHANGED <<words, pasteSeq, pane, deaths, mixed, last>>
    PROVE  Page'
<1>1. /\ box \in Text /\ waiting[s] \in Text /\ box' = waiting[s] \o box /\ draft' = box'
      /\ DOMAIN waiting' = DOMAIN waiting \ {s} /\ words \in Nat
      /\ \A t \in DOMAIN waiting' : waiting'[t] = waiting[t]
      /\ waiting' = [t \in DOMAIN waiting' |-> waiting'[t]] /\ last' = last
      /\ overtaken' = overtaken \cup {t \in DOMAIN waiting : t > s}
      /\ astray' = IF s \in overtaken THEN astray \cup ToSet(waiting[s]) ELSE astray
  BY ComposeBounds DEF Page, BoxTypes, WaitingTypes, GiveBack, Settle, Returned
<1>2. box' \in Text /\ ToSet(box') = ToSet(waiting[s]) \cup ToSet(box)
  BY <1>1, WordsOfBoth DEF Text
<1>3. BoxTypes' /\ OrderTypes' /\ WaitingTypes'
  <2>1. ToSet(waiting[s]) \subseteq 1..MaxWords
    BY <1>1, WordsInSet DEF Text
  <2>2. \A t \in DOMAIN waiting : t \in 1..MaxSends
    BY ComposeBounds DEF Page, BoxTypes, WaitingTypes
  <2>3. OrderTypes'
    BY <1>1, <2>1, <2>2 DEF Page, OrderTypes
  <2> QED
    BY <1>1, <1>2, <2>3, WithoutWords DEF Page, BoxTypes, WaitingTypes
<1>4. OneFlies'
  BY <1>1 DEF Page, OneFlies
<1>5. Written' /\ Ordered'
  <2>1. Written'
    BY <1>1, BothUpTo, WithoutWords DEF Page, Written
  <2>2. /\ \A t \in DOMAIN waiting : waiting[t] \in Text /\ t \in 1..pasteSeq /\ pasteSeq \in Nat
        /\ astray \subseteq astray'
    BY <1>1 DEF Page, WaitingTypes, BoxTypes
  <2>3. InPlace(waiting[s], astray') /\ InPlace(box, astray')
    BY <1>1, <2>2, MoreAstray DEF Page, Ordered
  <2>4. Before(waiting[s], box, astray')
    <3>1. CASE s \in overtaken
      BY <1>1, <3>1, AnyPlace
    <3>2. CASE s \notin overtaken
      BY <1>1, <2>2, <3>2 DEF Page, Ordered
    <3> QED
      BY <3>1, <3>2
  <2>5. InPlace(box', astray') /\ \A t \in DOMAIN waiting' : InPlace(waiting'[t], astray')
    BY <1>1, <2>2, <2>3, <2>4, TextInFront, MoreAstray DEF Page, Ordered
  <2>6. ASSUME NEW t \in DOMAIN waiting' \ overtaken'
        PROVE  /\ Before(waiting'[t], box', astray')
               /\ \A u \in DOMAIN waiting' : t < u => Before(waiting'[t], waiting'[u], astray')
    <3>1. t \in DOMAIN waiting \ overtaken /\ t < s /\ waiting'[t] = waiting[t] /\ waiting[t] \in Text
      BY <1>1, <2>2, <2>6
    <3>2. Before(waiting[t], waiting[s], astray) /\ Before(waiting[t], box, astray)
      BY <3>1 DEF Page, Ordered
    <3>3. Before(waiting[t], waiting[s], astray') /\ Before(waiting[t], box, astray')
      BY <1>1, <2>2, <3>1, <3>2, MoreAstray
    <3>4. Before(waiting[t], box', astray')
      BY <1>1, <3>1, <3>3, OlderThanBoth
    <3>5. \A u \in DOMAIN waiting' : t < u => Before(waiting[t], waiting[u], astray')
      BY <1>1, <2>2, <3>1, MoreAstray DEF Page, Ordered
    <3> QED
      BY <1>1, <3>1, <3>4, <3>5
  <2>7. last' \in DOMAIN waiting' => flying' \in {NoText, waiting'[last']}
    BY <1>1 DEF Page, Ordered
  <2> QED
    BY <2>1, <2>5, <2>6, <2>7 DEF Ordered
<1>6. TextSurvives'
  <2>1. \A w \in 1..words : Safe(w) => Safe(w)'
    BY <1>1, <1>2 DEF Safe
  <2> QED
    BY <2>1, StaySafe DEF Page
<1> QED
  BY <1>3, <1>4, <1>5, <1>6 DEF Page

\* A text that is in the pane needs no keeping.
LEMMA Concluded ==
    ASSUME Page, NEW s \in DOMAIN waiting, Concludes(s), ToSet(waiting[s]) \subseteq pane,
           UNCHANGED <<words, box, draft, pasteSeq, pane, deaths, mixed, orderVars>>
    PROVE  Page'
<1>1. /\ flying' = NoText /\ DOMAIN waiting' = DOMAIN waiting \ {s}
      /\ words \in Nat /\ box \in Text
      /\ \A t \in DOMAIN waiting' : waiting'[t] = waiting[t]
      /\ waiting' = [t \in DOMAIN waiting' |-> waiting'[t]]
      /\ UNCHANGED <<last, overtaken, astray>>
  BY ComposeBounds DEF Page, BoxTypes, Concludes, Settle, orderVars
<1>2. BoxTypes' /\ OrderTypes' /\ WaitingTypes'
  BY <1>1, WithoutWords DEF Page, BoxTypes, OrderTypes, WaitingTypes
<1>3. OneFlies'
  BY <1>1 DEF Page, OneFlies
<1>4. Written' /\ Ordered'
  <2>1. UpTo(flying', words)
    BY <1>1, WithoutWords
  <2> QED
    BY <1>1, <2>1 DEF Page, Written, Ordered
<1>5. TextSurvives'
  <2>1. \A w \in 1..words : Safe(w) => Safe(w)'
    BY <1>1 DEF Safe
  <2> QED
    BY <2>1, StaySafe DEF Page
<1> QED
  BY <1>2, <1>3, <1>4, <1>5 DEF Page

-----------------------------------------------------------------------------
\* Answers: late ones, and those the page waits for.
LEMMA SettlingGoesOn ==
    ASSUME Page, NEW s, Settle(s), UNCHANGED <<pasteSeq, pane>> PROVE GoesOn
BY ComposeBounds DEF Page, BoxTypes, Settle, GoesOn

LEMMA AnswerTimesOutKeeps ==
    ASSUME Kept, NEW s \in DOMAIN waiting, AnswerTimesOut(s) PROVE Kept'
<1>1. /\ GiveBack(s) /\ flying' = flying
      /\ UNCHANGED <<words, flying, pasteSeq, locked, link, uplink, answers, pane, deaths, mixed, last>>
  BY DEF AnswerTimesOut, wireVars
<1>2. Page'
  BY <1>1, GivenBack DEF Kept
<1>3. GoesOn
  BY <1>1, SettlingGoesOn DEF Kept, GiveBack
<1>4. Wires'
  BY <1>1, <1>3, WiresOn DEF Kept, Page
<1> QED
  BY <1>1, <1>2, <1>4 DEF Kept, OtherTypes

LEMMA AnswerArrivesKeeps == ASSUME Kept, AnswerArrives PROVE Kept'
<1> DEFINE reply == Head(answers)
           s == reply.seq
<1>1. /\ answers # <<>> /\ answers' = Tail(answers)
      /\ IF reply.ok THEN Acked(s) ELSE Failed(s)
      /\ UNCHANGED <<words, pasteSeq, locked, link, uplink, pane, deaths, mixed, last>>
  BY DEF AnswerArrives
<1>2. reply \in Reply /\ Confirms(reply)
  BY <1>1 DEF Kept, Wires
<1>3. CASE s \notin DOMAIN waiting
  <2>1. UNCHANGED <<box, draft, flying, waiting, orderVars>>
    BY <1>1, <1>3 DEF Acked, Failed, orderVars
  <2>2. Page'
    BY <1>1, <2>1, PageStays DEF Kept
  <2>3. GoesOn
    BY <1>1, <2>1, ComposeBounds DEF GoesOn, Kept, Page, BoxTypes
  <2> QED
    BY <1>1, <2>2, <2>3, WiresOn DEF Kept, Page, OtherTypes
<1>4. CASE s \in DOMAIN waiting
  <2>1. CASE reply.ok
    <3>1. /\ Concludes(s) /\ UNCHANGED <<box, draft, orderVars>>
          /\ ToSet(waiting[s]) \subseteq pane
      BY <1>1, <1>2, <1>4, <2>1 DEF Acked, Confirms, orderVars
    <3>2. Page'
      BY <1>1, <1>4, <3>1, Concluded DEF Kept
    <3>3. GoesOn
      BY <1>1, <3>1, SettlingGoesOn DEF Kept, Concludes
    <3> QED
      BY <1>1, <3>2, <3>3, WiresOn DEF Kept, Page, OtherTypes
  <2>2. CASE ~reply.ok
    <3>1. GiveBack(s) /\ flying' = NoText
      BY <1>1, <1>4, <2>2 DEF Failed
    <3>2. Page'
      BY <1>1, <1>4, <3>1, GivenBack DEF Kept
    <3>3. GoesOn
      BY <1>1, <3>1, SettlingGoesOn DEF Kept, GiveBack
    <3> QED
      BY <1>1, <3>2, <3>3, WiresOn DEF Kept, Page, OtherTypes
  <2> QED
    BY <2>1, <2>2
<1> QED
  BY <1>3, <1>4
-----------------------------------------------------------------------------
\* The daemon confirms only what it has put in the pane.
LEMMA DaemonPastesKeeps == ASSUME Kept, DaemonPastes PROVE Kept'
<1> DEFINE item == Head(uplink)
           Says(reply) == /\ reply.seq = item.seq
                          /\ reply.ok => ToSet(item.text) \subseteq pane'
<1>1. /\ uplink # <<>> /\ uplink' = Tail(uplink)
      /\ UNCHANGED <<words, box, draft, flying, waiting, pasteSeq, locked, link, deaths, mixed, orderVars>>
      /\ pane' = pane \/ pane' = pane \cup ToSet(item.text)
  BY DEF DaemonPastes, pageVars
<1>2. item \in Item /\ Carries(item)
  BY <1>1 DEF Kept, Wires
<1>3. /\ uplink' \in Seq(Item)
      /\ \A i \in 1..Len(uplink') : i + 1 \in 1..Len(uplink) /\ uplink'[i] = uplink[i + 1]
  BY <1>1 DEF Kept, Wires
<1>4. Page'
  BY <1>1, PageStays DEF Kept
<1>5. OtherTypes'
  <2>1. ToSet(item.text) \subseteq 1..MaxWords
    <3>1. item.text \in Seq(1..MaxWords)
      BY <1>2 DEF Item, Text
    <3> QED
      BY <3>1, WordsInSet
  <2> QED
    BY <1>1, <2>1 DEF Kept, OtherTypes
<1>6. GoesOn
  BY <1>1, ComposeBounds DEF GoesOn, Kept, Page, BoxTypes
<1>7. PICK said \in Seq(Reply) :
        /\ answers' = answers \o said
        /\ \A i \in 1..Len(said) : item.heard /\ Says(said[i])
  <2> DEFINE yes == Answer(item.seq, TRUE)
             no == Answer(item.seq, FALSE)
  <2> HIDE DEF item
  <2>1. yes \in Reply /\ no \in Reply
    BY <1>2 DEF Item, Reply, Answer
  <2>2. yes.seq = item.seq /\ no.seq = item.seq /\ ~no.ok
    BY DEF Answer
  <2>3. \/ pane' = pane \cup ToSet(item.text) /\ answers' = IF item.heard THEN answers \o <<yes>> ELSE answers
        \/ pane' = pane \cup ToSet(item.text) /\ answers' = IF item.heard THEN answers \o <<no, yes>> ELSE answers
        \/ answers' = IF item.heard THEN answers \o <<no>> ELSE answers
    BY DEF DaemonPastes, item
  <2>4. answers = answers \o <<>>
    BY DEF Kept, Wires
  <2> HIDE DEF yes, no
  <2>5. CASE ~item.heard
    <3>1. answers' = answers \o <<>> /\ <<>> \in Seq(Reply) /\ Len(<<>>) = 0
      BY <2>1, <2>3, <2>4, <2>5, OneOrTwo
    <3>2. \A i \in 1..Len(<<>>) : item.heard /\ Says(<<>>[i])
      BY ONLY <3>1
    <3> QED
      BY <3>1, <3>2
  <2>6. CASE item.heard /\ answers' = answers \o <<no>>
    <3>1. <<no>> \in Seq(Reply) /\ \A i \in 1..Len(<<no>>) : Says(<<no>>[i])
      BY <2>1, <2>2, OneOrTwo
    <3> QED
      BY <3>1, <2>6
  <2>7. CASE item.heard /\ pane' = pane \cup ToSet(item.text) /\ answers' = answers \o <<yes>>
    <3>1. <<yes>> \in Seq(Reply) /\ \A i \in 1..Len(<<yes>>) : Says(<<yes>>[i])
      BY <2>1, <2>2, <2>7, OneOrTwo
    <3> QED
      BY <3>1, <2>7
  <2>8. CASE item.heard /\ pane' = pane \cup ToSet(item.text) /\ answers' = answers \o <<no, yes>>
    <3>1. Says(yes) /\ Says(no)
      BY <2>2, <2>8
    <3>2. <<no, yes>> \in Seq(Reply) /\ \A i \in 1..Len(<<no, yes>>) : Says(<<no, yes>>[i])
      BY <2>1, <3>1, OneOrTwo
    <3> QED
      BY <3>2, <2>8
  <2> QED
    BY <2>3, <2>5, <2>6, <2>7, <2>8
<1>8. ASSUME NEW i \in 1..Len(said), NEW reply \in Reply, reply = said[i]
      PROVE  Confirms(reply)'
  <2>1. item.heard /\ Says(reply)
    BY <1>7, <1>8
  <2> QED
    BY <2>1, <1>1, <1>2 DEF Carries, Confirms
<1>9. ASSUME NEW i \in 1..Len(answers), NEW reply \in Reply, reply = answers[i]
      PROVE  Confirms(reply)'
  BY <1>6, <1>9, ConfirmsOn DEF Kept, Page, Wires
<1>10. answers' \in Seq(Reply) /\ \A i \in 1..Len(answers') : Confirms(answers[i])'
  <2>1. answers \in Seq(Reply)
    BY DEF Kept, Wires
  <2>2. answers' \in Seq(Reply)
    BY <1>7, <2>1
  <2>3. ASSUME NEW i \in 1..Len(answers')
        PROVE  answers'[i] \in Reply
               /\ ((\E j \in 1..Len(answers) : answers'[i] = answers[j])
                     \/ \E j \in 1..Len(said) : answers'[i] = said[j])
    BY <1>7, <2>1, <2>2
  <2> QED
    BY <1>8, <1>9, <2>2, <2>3 DEF Confirms
<1>11. ASSUME NEW i \in 1..Len(uplink), NEW old \in Item, old = uplink[i]
       PROVE  Carries(old)'
  BY <1>6, <1>11, CarriesOn DEF Kept, Page, Wires
<1>12. \A i \in 1..Len(uplink') : Carries(uplink[i])'
  <2>1. \A i \in 1..Len(uplink) : uplink[i] \in Item
    BY DEF Kept, Wires
  <2> QED
    BY <1>3, <1>11, <2>1 DEF Carries
<1> QED
  BY <1>3, <1>4, <1>5, <1>10, <1>12 DEF Kept, Wires
-----------------------------------------------------------------------------
\* The link's steps leave the page alone.
LEMMA LinkKeeps ==
    ASSUME Kept, LinkBreaks \/ PageNotices \/ Reconnects \/ Locks \/ Unlocks PROVE Kept'
<1>1. UNCHANGED <<words, pageVars, pane, deaths, mixed, orderVars>> /\ OtherTypes'
  BY DEF LinkBreaks, PageNotices, Reconnects, Locks, Unlocks, Kept, OtherTypes, wireVars
<1>2. Page'
  BY <1>1, PageStays DEF Kept, pageVars
<1>3. CASE SocketLost
  BY <1>1, <1>2, <1>3, WiresLost DEF Kept
<1>4. CASE UNCHANGED <<uplink, answers>>
  <2>1. GoesOn
    BY <1>1, ComposeBounds DEF GoesOn, Kept, Page, BoxTypes, pageVars
  <2> QED
    BY <1>1, <1>2, <1>4, <2>1, WiresOn DEF Kept, Page
<1> QED
  BY <1>3, <1>4 DEF LinkBreaks, PageNotices, Reconnects, Locks, Unlocks, wireVars

LEMMA EmptyTypes == ASSUME waiting' = Empty PROVE WaitingTypes'
<1>1. DOMAIN waiting' = {} /\ waiting' = [s \in DOMAIN waiting' |-> waiting'[s]]
  BY DEF Empty
<1> QED
  BY <1>1 DEF WaitingTypes

\* The new page starts from the disk, where the text that waited is.
LEMMA TabDiesKeeps == ASSUME Kept, TabDies PROVE Kept'
<1>1. /\ deaths' = deaths + 1 /\ deaths' \in 1..MaxDeaths /\ draft' = box'
      /\ flying \in Text /\ box \in Text /\ box' = flying \o box /\ words \in Nat
      /\ flying' = NoText /\ waiting' = Empty /\ pasteSeq' = 0 /\ locked' = FALSE
      /\ link' = "down" /\ SocketLost /\ UNCHANGED <<words, pane>>
      /\ mixed' = mixed /\ last' = 0 /\ overtaken' = {} /\ pasteSeq \in 0..MaxSends
      /\ astray' = IF last \in DOMAIN waiting \ overtaken THEN astray ELSE astray \cup ToSet(flying)
  BY ComposeBounds DEF Kept, Page, BoxTypes, TabDies, Restored
<1>2. box' \in Text /\ ToSet(box') = ToSet(flying) \cup ToSet(box)
  BY <1>1, WordsOfBoth DEF Text
<1>3. DOMAIN waiting' = {}
  BY <1>1 DEF Empty
<1>4. ~mixed => \A s \in DOMAIN waiting : flying = waiting[s]
  BY DEF Kept, Page, OneFlies
<1>5. BoxTypes' /\ OrderTypes' /\ WaitingTypes' /\ OtherTypes'
  <2>4. OrderTypes'
    <3>1. ToSet(flying) \subseteq 1..MaxWords
      BY <1>1, WordsInSet DEF Text
    <3>2. astray' \subseteq 1..MaxWords
      BY <1>1, <3>1 DEF Kept, Page, OrderTypes
    <3> QED
      BY <1>1, <3>2, ComposeBounds DEF OrderTypes
  <2>1. BoxTypes'
    BY <1>1, <1>2, WithoutWords, ComposeBounds DEF Kept, Page, BoxTypes
  <2>2. WaitingTypes'
    BY <1>1, EmptyTypes
  <2>3. OtherTypes'
    BY <1>1 DEF Kept, OtherTypes
  <2> QED
    BY <2>1, <2>2, <2>3, <2>4
<1>6. OneFlies'
  BY <1>3 DEF OneFlies
<1>7. Written' /\ Ordered'
  <2>1. UpTo(box', words) /\ UpTo(flying', words)
    BY <1>1, BothUpTo, WithoutWords DEF Kept, Page, Written
  <2>2. InPlace(box, astray') /\ astray \subseteq astray'
    BY <1>1, MoreAstray DEF Kept, Page, Ordered
  <2>3. InPlace(flying, astray') /\ Before(flying, box, astray')
    <3>1. CASE last \in DOMAIN waiting \ overtaken /\ flying = waiting[last]
      BY <1>1, <3>1 DEF Kept, Page, Ordered
    <3>2. CASE flying = NoText
      <4>1. ToSet(flying) = {}
        BY <3>2, <1>1, WithoutWords
      <4> QED
        BY <4>1, <1>1, AnyPlace
    <3>3. CASE last \notin DOMAIN waiting \ overtaken
      BY <1>1, <3>3, AnyPlace
    <3> QED
      BY <3>1, <3>2, <3>3 DEF Kept, Page, Ordered
  <2>4. InPlace(box', astray')
    BY <1>1, <2>2, <2>3, TextInFront
  <2> QED
    BY <1>1, <1>3, <2>1, <2>4 DEF Written, Ordered
<1>8. TextSurvives'
  <2>1. ASSUME ~mixed', NEW w \in 1..words, Safe(w) PROVE Safe(w)'
    BY <1>1, <1>2, <1>4, <2>1 DEF Safe
  <2>2. deaths' # 0
    BY <1>1
  <2> QED
    BY <1>1, <2>1, <2>2 DEF Kept, Page, TextSurvives
<1>9. Wires'
  BY <1>1, WiresLost DEF Kept
<1> QED
  BY <1>5, <1>6, <1>7, <1>8, <1>9 DEF Kept, Page
-----------------------------------------------------------------------------
LEMMA KeptStep == ASSUME Kept, [CPNext]_cpVars PROVE Kept'
<1>1. CASE \E s \in DOMAIN waiting : AnswerTimesOut(s)
  BY <1>1, AnswerTimesOutKeeps
<1>2. CASE UNCHANGED cpVars
  <2>1. UNCHANGED <<words, pageVars, wireVars, locked, pane, deaths, mixed, orderVars>>
    BY <1>2 DEF cpVars
  <2>2. Page' /\ OtherTypes'
    BY <2>1, PageStays DEF Kept, OtherTypes, pageVars, wireVars
  <2>3. GoesOn
    BY <2>1, ComposeBounds DEF GoesOn, Kept, Page, BoxTypes, pageVars
  <2> QED
    BY <2>1, <2>2, <2>3, WiresOn DEF Kept, Page, wireVars
<1> QED
  BY <1>1, <1>2, WriteKeeps, SendRefusedKeeps, SendKeeps, AnswerArrivesKeeps, DaemonPastesKeeps,
     LinkKeeps, TabDiesKeeps DEF CPNext

\* The box, its copies and what is under way agree in every state of the page
\* (term.js:640-733).
THEOREM BoxIsKept == CPSpec => []Kept
<1>1. CPInit => Kept
  <2> SUFFICES ASSUME CPInit PROVE Kept
    OBVIOUS
  <2>1. /\ words = 0 /\ box = NoText /\ draft = NoText /\ flying = NoText /\ waiting = Empty
        /\ DOMAIN waiting = {} /\ pasteSeq = 0 /\ uplink = <<>> /\ answers = <<>> /\ deaths = 0
        /\ last = 0 /\ overtaken = {} /\ astray = {}
    BY DEF CPInit, Empty
  <2>2. NoText \in Text /\ UpTo(NoText, 0) /\ InPlace(NoText, astray)
    BY DEF NoText, Text, UpTo, InPlace
  <2>3. BoxTypes /\ OrderTypes /\ WaitingTypes /\ OtherTypes
    <3>1. BoxTypes /\ OrderTypes
      BY <2>1, <2>2, ComposeBounds DEF BoxTypes, OrderTypes
    <3>2. WaitingTypes
      BY <2>1 DEF WaitingTypes, Empty
    <3>3. OtherTypes
      BY DEF CPInit, OtherTypes
    <3> QED
      BY <3>1, <3>2, <3>3
  <2>4. Wires
    BY <2>1 DEF Wires
  <2> QED
    BY <2>1, <2>2, <2>3, <2>4 DEF Kept, Page, OneFlies, Written, Ordered, TextSurvives
<1> QED
  BY <1>1, KeptStep, PTL DEF CPSpec

\* Types of the page's and the wire's state (term.js:640-733), for any number of
\* words, texts and deaths of the tab.
THEOREM ComposeTypes == CPSpec => []TypeOK
<1>1. Kept => TypeOK
  BY DEF Kept, Page, BoxTypes, OrderTypes, WaitingTypes, OtherTypes, Wires, Item, Reply, TypeOK
<1> QED
  BY <1>1, BoxIsKept, PTL

\* Every word written (term.js:650-733) is in the box, kept with a
\* text that waits, or in the pane; also across a death of the tab while texts
\* do not overlap.
THEOREM NothingWrittenIsLost == CPSpec => []TextSurvives
<1>1. Kept => TextSurvives
  BY DEF Kept, Page
<1> QED
  BY <1>1, BoxIsKept, PTL

\* Every word of the box is older than the words behind it (term.js:650-656), unless
\* it came back in a text that one sent before it had come back ahead of, or in a
\* text found on disk (707-713) that had come back before or had been overtaken.
THEOREM OrderStays == CPSpec => []OrderIsKept
<1>1. Kept => OrderIsKept
  BY DEF Kept, Page, Ordered, InPlace, OrderIsKept
<1> QED
  BY <1>1, BoxIsKept, PTL
=============================================================================
