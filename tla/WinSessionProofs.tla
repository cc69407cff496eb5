-------------------------- MODULE WinSessionProofs --------------------------
(***************************************************************************)
(* What holds of a Windows session for any number of hosts, viewers and    *)
(* screen sizes: which host the file names, which size the pty has, and    *)
(* that the copy and its viewers lose nothing of what the host printed.    *)
(***************************************************************************)
EXTENDS WinSession, SequenceTheorems, WellFoundedInduction, TLAPS

\* One host at a time listens; it is named once it serves, unless a reader
\* removed its file; and what a reader is about to remove is dead.
OneListens ==
    \A g, h \in Hosts : {host[g], host[h]} \subseteq {"listening", "serving"} => g = h

Found ==
    /\ host \in [Hosts -> HostState]
    /\ profile \in Hosts \cup {Nobody} /\ sweep \in Hosts \cup {Nobody}
    /\ OneListens
    /\ FileFindsHost
    /\ sweep # Nobody => host[sweep] = "dead"

\* Both sizes are the smallest of those declared, on a pipe that replaced another
\* the one that was declared to that; viewers that are gone declare none, and there are viewers only while there is a pipe.
Sized ==
    /\ size \in [Conns -> Sizes \cup {0}] /\ conns \subseteq Conns
    /\ khai = SmallestOf({size[c] : c \in conns} \ {0}) /\ (told = khai \/ replaced)
    /\ \A c \in Conns \ conns : size[c] = 0
    /\ conns # {} => sock # Nobody

\* The pipe leads to a host that was started, and while that host lives, the copy
\* becomes its screen: a snapshot on its way in the pipe is as good as one that
\* came, whatever the copy showed before.
CopyFollows ==
    /\ stale \in BOOLEAN
    /\ sock # Nobody => host[sock] # "none"
    /\ sock # Nobody /\ joined /\ Runs(sock)
       /\ (~stale \/ \E i \in 1 .. Len(q) : q[i].redraw) =>
           Drawn(copy, dangCho \o q) = screen[sock]

-----------------------------------------------------------------------------
\* Only the hosts' own steps and the readers of the registry touch what Found
\* speaks of.
LEMMA OthersLeaveHosts ==
    ASSUME ViewerSteps \/ PipeSteps PROVE UNCHANGED <<host, profile, sweep, overswept>>
<1>1. ASSUME ViewerSteps PROVE UNCHANGED <<host, profile, sweep, overswept>>
  BY <1>1 DEF ViewerSteps, Opens, Scrolls, ComesBack, Closes, Resizes, lifeVars
<1>2. ASSUME PipeSteps PROVE UNCHANGED <<host, profile, sweep, overswept>>
  BY <1>2 DEF PipeSteps, RetryMsPass, HostJoins, HearsFrame, WriteSettles, PipeBreaks, PipeReplaced,
              Polls, HostPrints, lifeVars
<1> QED
  BY <1>1, <1>2

LEMMA FoundStep == ASSUME Found, [Next]_vars PROVE Found'
<1> USE HostLifeAssumption DEF Found, OneListens, FileFindsHost, HoldsPipe, HostState
<1>1. ASSUME NEW h \in Hosts, Spawned(h) PROVE Found'
  BY <1>1 DEF Spawned, Becomes
<1>2. ASSUME NEW h \in Hosts, Listens(h) PROVE Found'
  BY <1>2 DEF Listens, Becomes, PipeFree
<1>3. ASSUME NEW h \in Hosts, Registers(h) PROVE Found'
  BY <1>3 DEF Registers, Becomes, FileNames
<1>4. ASSUME NEW h \in Hosts, PipeTaken(h) PROVE Found'
  BY <1>4 DEF PipeTaken, Becomes, FileNames, AfterStop, PipeFree
<1>5. ASSUME NEW h \in Hosts, Stops(h) PROVE Found'
  BY <1>5 DEF Stops, Becomes, FileNames, AfterStop
<1>6. ASSUME NEW h \in Hosts, Exits(h) PROVE Found'
  BY <1>6 DEF Exits, Becomes
<1>7. ASSUME NEW h \in Hosts, Killed(h) PROVE Found'
  BY <1>7 DEF Killed, Becomes
<1>8. CASE SweepReads
  BY <1>8 DEF SweepReads, PidAlive, Runs
<1>9. CASE SweepRemoves
  BY <1>9 DEF SweepRemoves, FileNames
<1>10. CASE UNCHANGED <<host, profile, sweep, overswept>>
  BY <1>10
<1>12. CASE PidReused \/ PidFreed
  BY <1>10, <1>12 DEF PidReused, PidFreed
<1>11. CASE Next
  BY <1>1, <1>2, <1>3, <1>4, <1>5, <1>6, <1>7, <1>8, <1>9, <1>10, <1>11, <1>12,
     OthersLeaveHosts
     DEF Next, HostSteps
<1> QED
  BY <1>10, <1>11 DEF vars, lifeVars

-----------------------------------------------------------------------------
\* Every step that speaks to the host, or makes the pipe anew, leaves the size
\* it was told the smallest one.
LEMMA SizedStep == ASSUME Sized, [Next]_vars PROVE Sized'
<1> USE ConnAssumption DEF Sized
<1>1. ASSUME UNCHANGED <<conns, size, khai, told, replaced>>, sock # Nobody => sock' # Nobody
      PROVE Sized'
  BY <1>1
<1>2. ASSUME NEW c \in Conns, Opens(c) PROVE Sized'
  <2>1. sock' # Nobody
    BY <1>2 DEF Opens, EnsurePipe, AliveNow, pipeVars
  <2>2. UNCHANGED <<size, khai, told, replaced>> /\ conns' = conns \cup {c} /\ c \notin conns
    BY <1>2 DEF Opens, sizeVars
  <2>3. {size[d] : d \in conns'} \ {0} = {size[d] : d \in conns} \ {0}
    BY <2>2
  <2> QED
    BY <2>1, <2>2, <2>3
<1>3. ASSUME NEW c \in Conns, NEW s \in Sizes, Resizes(c, s) PROVE Sized'
  <2>1. /\ c \in conns /\ sock # Nobody /\ UNCHANGED <<conns, sock>>
        /\ size' = [size EXCEPT ![c] = s] /\ Declares(conns, size', TRUE)
    BY <1>3 DEF Resizes, pipeVars
  <2> QED
    BY <2>1 DEF Declares
<1>4. ASSUME NEW c \in Conns, Closes(c) PROVE Sized'
  <2>1. /\ c \in conns /\ sock # Nobody /\ UNCHANGED sock /\ conns' = conns \ {c}
        /\ size' = [d \in Conns |-> IF d = c THEN 0 ELSE size[d]]
        /\ Declares(conns', size, TRUE)
    BY <1>4 DEF Closes, Without, pipeVars
  <2>2. {size'[d] : d \in conns'} = {size[d] : d \in conns'}
    BY <2>1
  <2> QED
    BY <2>1, <2>2 DEF Declares
<1>5. ASSUME Without(conns), khai' = 0, told' = 0 PROVE Sized'
  <2>1. conns' = {} /\ size' = [c \in Conns |-> 0]
    BY <1>5 DEF Without
  <2> QED
    BY <1>5, <2>1 DEF SmallestOf
<1>6. CASE PipeBreaks
  BY <1>5, <1>6 DEF PipeBreaks, Disconnected, LosesViewers, ShutsDown
<1>7. CASE Polls
  BY <1>5, <1>7 DEF Polls, Disconnected, ShutsDown
<1>8. CASE HostSteps /\ UNCHANGED sourceVars
  BY <1>1, <1>8 DEF sourceVars, pipeVars, viewVars, sizeVars
<1>9. CASE ViewerSteps
  <2>1. ASSUME NEW c \in Conns, Scrolls(c) \/ ComesBack(c) PROVE Sized'
    BY <1>1, <2>1 DEF Scrolls, ComesBack, pipeVars, sizeVars
  <2> QED
    BY <1>2, <1>3, <1>4, <1>9, <2>1 DEF ViewerSteps
<1>10. CASE PipeSteps
  <2>1. ASSUME RetryMsPass \/ HostJoins \/ HearsFrame \/ WriteSettles PROVE Sized'
    BY <1>1, <2>1 DEF RetryMsPass, HostJoins, HearsFrame, WriteSettles, pipeVars, viewVars,
                      sizeVars
  <2>2. ASSUME NEW h \in Hosts, HostPrints(h) PROVE Sized'
    BY <1>1, <2>2 DEF HostPrints, viewVars, sizeVars
  <2>3. CASE PipeReplaced
    <3>1. /\ UNCHANGED <<conns, size, khai>> /\ sock' = profile /\ profile # Nobody
          /\ told' = 0 /\ replaced' = (khai # 0)
      BY <2>3 DEF PipeReplaced, AliveNow, viewVars
    <3> QED
      BY <3>1
  <2> QED
    BY <1>6, <1>7, <1>10, <2>1, <2>2, <2>3 DEF PipeSteps
<1>11. CASE UNCHANGED vars
  BY <1>1, <1>11 DEF vars, sourceVars, pipeVars, viewVars, sizeVars
<1> QED
  BY <1>8, <1>9, <1>10, <1>11 DEF Next

-----------------------------------------------------------------------------
\* What is drawn: the frame fs is drawn from, and its outputs one by one.
IsFrom(fs, k) ==
    /\ k \in 0 .. Len(fs)
    /\ k = 0 \/ fs[k].redraw
    /\ \A i \in 1 .. Len(fs) : fs[i].redraw => i <= k

Base(s, fs, k) == IF k = 0 THEN s ELSE fs[k].text
After(fs, k) == [i \in 1 .. Len(fs) - k |-> fs[k + i].text[1]]

LEMMA FrameParts ==
    ASSUME NEW f \in Frame
    PROVE  /\ f.redraw \in BOOLEAN /\ f.text \in Seq(1 .. MaxOut)
           /\ ~f.redraw => f.text[1] \in 1 .. MaxOut /\ f.text = <<f.text[1]>>
<1>1. CASE f \in {Output(t) : t \in 1 .. MaxOut}
  <2>1. PICK t \in 1 .. MaxOut : f = [redraw |-> FALSE, text |-> <<t>>]
    BY <1>1 DEF Output
  <2> QED
    BY <2>1
<1>2. CASE f \in [redraw : {TRUE}, text : Seq(1 .. MaxOut)]
  BY <1>2
<1> QED
  BY <1>1, <1>2 DEF Frame

LEMMA FromIsThere == ASSUME NEW fs \in Seq(Frame) PROVE \E k : IsFrom(fs, k)
<1> DEFINE S == {n \in Nat : n <= Len(fs) /\ (n = Len(fs) \/ fs[Len(fs) - n].redraw)}
           R == {p \in Nat \X Nat : p[1] < p[2]}
<1>1. Len(fs) \in Nat
  OBVIOUS
<1>2. IsWellFoundedOn(R, Nat)
  BY NatLessThanWellFounded DEF OpToRel, IsWellFoundedOn
<1>3. S \subseteq Nat /\ Len(fs) \in S
  BY <1>1
<1>4. PICK m \in S : \A n \in S : ~(<<n, m>> \in R)
  BY <1>2, <1>3, WFMin
<1>5. ASSUME NEW i \in 1 .. Len(fs), fs[i].redraw PROVE i <= Len(fs) - m
  <2>1. Len(fs) - i \in Nat /\ Len(fs) - (Len(fs) - i) = i /\ Len(fs) - i <= Len(fs)
    BY <1>1
  <2>2. Len(fs) - i \in S
    BY <2>1, <1>5
  <2>3. ~(Len(fs) - i < m)
    BY <1>4, <2>1, <2>2, <1>3
  <2> QED
    BY <1>1, <1>3, <2>3
<1>6. Len(fs) - m \in 0 .. Len(fs) /\ (Len(fs) - m = 0 \/ fs[Len(fs) - m].redraw)
  BY <1>1, <1>4
<1> QED
  BY <1>5, <1>6 DEF IsFrom

LEMMA DrawnIs ==
    ASSUME NEW fs \in Seq(Frame), NEW s, NEW k, IsFrom(fs, k)
    PROVE  Drawn(s, fs) = Base(s, fs, k) \o After(fs, k)
<1> DEFINE S == {0} \cup {i \in 1 .. Len(fs) : fs[i].redraw}
<1>1. k \in S /\ S \subseteq Int /\ \A i \in S : k >= i
  BY DEF IsFrom
<1>2. \A m \in S : (\A i \in S : m >= i) => m = k
  BY <1>1
<1>3. Max(S) = k
  BY <1>1, <1>2 DEF Max
<1> QED
  BY <1>3 DEF Drawn, Base, After

\* The parts that are put together are texts.
LEMMA PartsAreTexts ==
    ASSUME NEW fs \in Seq(Frame), NEW s \in Seq(1 .. MaxOut), NEW k, IsFrom(fs, k)
    PROVE  /\ k \in Nat /\ Len(fs) - k \in Nat
           /\ Base(s, fs, k) \in Seq(1 .. MaxOut)
           /\ After(fs, k) \in Seq(1 .. MaxOut) /\ Len(After(fs, k)) = Len(fs) - k
<1>1. k \in Nat /\ Len(fs) - k \in Nat /\ (k # 0 => k \in 1 .. Len(fs))
  BY DEF IsFrom
<1>2. Base(s, fs, k) \in Seq(1 .. MaxOut)
  <2>1. CASE k = 0
    BY <2>1 DEF Base
  <2>2. CASE k # 0
    <3>1. fs[k] \in Frame
      BY <1>1, <2>2
    <3> QED
      BY <2>2, <3>1, FrameParts DEF Base
  <2> QED
    BY <2>1, <2>2
<1>3. ASSUME NEW i \in 1 .. Len(fs) - k PROVE fs[k + i].text[1] \in 1 .. MaxOut
  <2>1. k + i \in 1 .. Len(fs) /\ ~(k + i <= k)
    BY <1>1
  <2>2. fs[k + i] \in Frame /\ ~fs[k + i].redraw
    BY <2>1 DEF IsFrom
  <2> QED
    BY <2>2, FrameParts
<1>4. After(fs, k) \in [1 .. Len(fs) - k -> 1 .. MaxOut]
  BY <1>3 DEF After
<1>5. ASSUME NEW n \in Nat, NEW g \in [1 .. n -> 1 .. MaxOut]
      PROVE  g \in Seq(1 .. MaxOut) /\ Len(g) = n
  <2>1. g \in Seq(1 .. MaxOut)
    BY SeqDef
  <2>2. Len(g) \in Nat /\ DOMAIN g = 1 .. Len(g) /\ DOMAIN g = 1 .. n
    BY <2>1, LenProperties
  <2> QED
    BY <2>1, <2>2
<1> QED
  BY <1>1, <1>2, <1>4, <1>5

LEMMA NothingDrawn == ASSUME NEW s \in Seq(1 .. MaxOut) PROVE Drawn(s, << >>) = s
<1>1. << >> \in Seq(Frame) /\ IsFrom(<< >>, 0)
  BY DEF IsFrom
<1>2. Drawn(s, << >>) = Base(s, << >>, 0) \o After(<< >>, 0)
  BY <1>1, DrawnIs
<1>3. Base(s, << >>, 0) = s /\ After(<< >>, 0) = << >>
  BY DEF Base, After
<1> QED
  BY <1>2, <1>3, ConcatEmptySeq

LEMMA TextsJoin ==
    \A a, b, c \in Seq(1 .. MaxOut) : (a \o b) \o c = a \o (b \o c)
  BY ConcatAssociative

LEMMA TextsEqual ==
    \A a, b \in Seq(1 .. MaxOut) :
        Len(a) = Len(b) /\ (\A i \in 1 .. Len(a) : a[i] = b[i]) => a = b
  BY SeqEqual

LEMMA DrawnIsText ==
    ASSUME NEW fs \in Seq(Frame), NEW s \in Seq(1 .. MaxOut)
    PROVE  Drawn(s, fs) \in Seq(1 .. MaxOut)
<1>1. PICK k : IsFrom(fs, k)
  BY FromIsThere
<1>2. Drawn(s, fs) = Base(s, fs, k) \o After(fs, k)
  BY <1>1, DrawnIs
<1> QED
  BY <1>1, <1>2, PartsAreTexts, ConcatProperties

LEMMA AppendConcats ==
    ASSUME NEW S, NEW a \in Seq(S), NEW b \in Seq(S), NEW f \in S
    PROVE  a \o Append(b, f) = Append(a \o b, f)
<1>1. <<f>> \in Seq(S) /\ a \o b \in Seq(S)
  BY ConcatProperties
<1>2. Append(b, f) = b \o <<f>> /\ Append(a \o b, f) = (a \o b) \o <<f>>
  BY <1>1, AppendIsConcat
<1>3. (a \o b) \o <<f>> = a \o (b \o <<f>>)
  BY <1>1, ConcatAssociative
<1> QED
  BY <1>2, <1>3

LEMMA HeadTailConcat ==
    ASSUME NEW S, NEW a \in Seq(S), NEW b \in Seq(S)
    PROVE  /\ a # << >> => /\ a \o b \in Seq(S) /\ a \o b # << >>
                           /\ Head(a \o b) = Head(a) /\ Tail(a \o b) = Tail(a) \o b
           /\ b # << >> => Append(a, Head(b)) \o Tail(b) = a \o b
<1>1. ASSUME NEW h \in S, NEW t \in Seq(S)
      PROVE  <<h>> \o t \in Seq(S) /\ <<h>> \o t # << >>
             /\ Head(<<h>> \o t) = h /\ Tail(<<h>> \o t) = t
  <2> DEFINE u == <<h>> \o t
  <2>1. /\ u \in Seq(S) /\ Len(u) = 1 + Len(t) /\ Len(t) \in Nat
        /\ \A i \in 1 .. 1 + Len(t) : u[i] = IF i <= 1 THEN <<h>>[i] ELSE t[i - 1]
    BY ConcatProperties
  <2> HIDE DEF u
  <2>2. u # << >> /\ u[1] = h
    BY <2>1
  <2>3. Head(u) = h /\ Tail(u) \in Seq(S) /\ Len(Tail(u)) = Len(t)
        /\ \A i \in 1 .. Len(t) : Tail(u)[i] = t[i]
    BY <2>1, <2>2, HeadTailProperties
  <2>4. Tail(u) = t
    BY <2>3, SeqEqual
  <2> QED
    BY <2>1, <2>2, <2>3, <2>4 DEF u
<1>2. ASSUME NEW s \in Seq(S), s # << >>
      PROVE  Head(s) \in S /\ Tail(s) \in Seq(S) /\ s = <<Head(s)>> \o Tail(s)
  <2>1. /\ Head(s) \in S /\ Tail(s) \in Seq(S) /\ Head(s) = s[1] /\ Len(s) \in Nat \ {0}
        /\ Len(Tail(s)) = Len(s) - 1 /\ \A i \in 1 .. Len(Tail(s)) : Tail(s)[i] = s[i + 1]
    BY <1>2, HeadTailProperties, EmptySeq
  <2>2. PICK h \in S, t \in Seq(S) : h = Head(s) /\ t = Tail(s)
    BY <2>1
  <2>3. /\ <<h>> \o t \in Seq(S) /\ Len(<<h>> \o t) = 1 + Len(t)
        /\ \A i \in 1 .. 1 + Len(t) : (<<h>> \o t)[i] = IF i <= 1 THEN <<h>>[i] ELSE t[i - 1]
    BY ConcatProperties
  <2>4. ASSUME NEW i \in 1 .. Len(s) PROVE s[i] = (<<h>> \o t)[i]
    <3>1. i \in 1 .. 1 + Len(t) /\ (i > 1 => t[i - 1] = s[i])
      BY <2>1, <2>2
    <3> QED
      BY <2>1, <2>2, <2>3, <3>1
  <2>5. s = <<h>> \o t
    BY <2>1, <2>2, <2>3, <2>4, SeqEqual
  <2> QED
    BY <2>1, <2>2, <2>5
<1>3. ASSUME a # << >>
      PROVE  /\ a \o b \in Seq(S) /\ a \o b # << >>
             /\ Head(a \o b) = Head(a) /\ Tail(a \o b) = Tail(a) \o b
  <2>1. PICK h \in S, t \in Seq(S) : h = Head(a) /\ t = Tail(a) /\ a = <<h>> \o t
    BY <1>2, <1>3
  <2>2. t \o b \in Seq(S) /\ a \o b = <<h>> \o (t \o b)
    BY <2>1, ConcatProperties, ConcatAssociative
  <2> QED
    BY <1>1, <2>1, <2>2
<1>4. ASSUME b # << >> PROVE Append(a, Head(b)) \o Tail(b) = a \o b
  <2>1. PICK h \in S, t \in Seq(S) : h = Head(b) /\ t = Tail(b) /\ b = <<h>> \o t
    BY <1>2, <1>4
  <2>2. Append(a, h) = a \o <<h>> /\ <<h>> \in Seq(S)
    BY AppendIsConcat
  <2> QED
    BY <2>1, <2>2, ConcatAssociative
<1> QED
  BY <1>3, <1>4

\* One more frame at the end.
LEMMA DrawnNext ==
    ASSUME NEW fs \in Seq(Frame), NEW s \in Seq(1 .. MaxOut), NEW f \in Frame
    PROVE  Drawn(s, Append(fs, f)) = Draw(Drawn(s, fs), f)
<1> DEFINE gs == Append(fs, f)
           n == Len(fs)
<1>1. PICK k : IsFrom(fs, k)
  BY FromIsThere
<1>2. Drawn(s, fs) = Base(s, fs, k) \o After(fs, k)
  BY <1>1, DrawnIs
<1>3. /\ k \in Nat /\ n - k \in Nat /\ n \in Nat
      /\ Base(s, fs, k) \in Seq(1 .. MaxOut)
      /\ After(fs, k) \in Seq(1 .. MaxOut) /\ Len(After(fs, k)) = n - k
  BY <1>1, PartsAreTexts
<1>4. Drawn(s, fs) \in Seq(1 .. MaxOut)
  BY DrawnIsText
<1>5. /\ gs \in Seq(Frame) /\ Len(gs) = n + 1 /\ gs[n + 1] = f
      /\ \A i \in 1 .. n : gs[i] = fs[i]
  BY AppendProperties
<1>6. CASE f.redraw
  <2>1. IsFrom(gs, n + 1)
    BY <1>3, <1>5, <1>6 DEF IsFrom
  <2>2. Drawn(s, gs) = Base(s, gs, n + 1) \o After(gs, n + 1)
    BY <1>5, <2>1, DrawnIs
  <2>3. Base(s, gs, n + 1) = f.text
    BY <1>3, <1>5 DEF Base
  <2>4. After(gs, n + 1) = << >>
    BY <1>3, <1>5 DEF After
  <2>5. f.text \o << >> = f.text
    BY FrameParts, ConcatEmptySeq
  <2> QED
    BY <1>4, <1>6, <2>2, <2>3, <2>4, <2>5 DEF Draw
<1>7. CASE ~f.redraw
  <2>1. IsFrom(gs, k)
    <3>1. k \in 0 .. Len(gs) /\ (k = 0 \/ gs[k].redraw)
      BY <1>1, <1>3, <1>5 DEF IsFrom
    <3>2. ASSUME NEW i \in 1 .. Len(gs), gs[i].redraw PROVE i <= k
      <4>1. i # n + 1
        BY <1>5, <1>7, <3>2
      <4>2. i \in 1 .. n /\ gs[i] = fs[i]
        BY <1>3, <1>5, <4>1
      <4> QED
        BY <1>1, <3>2, <4>2 DEF IsFrom
    <3> QED
      BY <3>1, <3>2 DEF IsFrom
  <2>2. Drawn(s, gs) = Base(s, gs, k) \o After(gs, k)
    BY <1>5, <2>1, DrawnIs
  <2>3. Base(s, gs, k) = Base(s, fs, k)
    BY <1>1, <1>3, <1>5 DEF Base, IsFrom
  <2>4. After(gs, k) \in Seq(1 .. MaxOut) /\ Len(After(gs, k)) = n - k + 1
    <3>1. After(gs, k) \in Seq(1 .. MaxOut) /\ Len(After(gs, k)) = Len(gs) - k
      BY <1>5, <2>1, PartsAreTexts, Zenon
    <3> QED
      BY <1>3, <1>5, <3>1
  <2>5. f.text \in Seq(1 .. MaxOut) /\ f.text = <<f.text[1]>> /\ f.text[1] \in 1 .. MaxOut
    BY <1>7, FrameParts
  <2>6. After(gs, k) = Append(After(fs, k), f.text[1])
    <3> DEFINE h == Append(After(fs, k), f.text[1])
    <3>1. h \in Seq(1 .. MaxOut) /\ Len(h) = n - k + 1 /\ h[n - k + 1] = f.text[1]
          /\ \A i \in 1 .. n - k : h[i] = After(fs, k)[i]
      BY <1>3, <2>5, AppendProperties
    <3>2. ASSUME NEW i \in 1 .. n - k + 1 PROVE After(gs, k)[i] = h[i]
      <4>1. After(gs, k)[i] = gs[k + i].text[1]
        <5>1. i \in 1 .. Len(gs) - k
          BY <1>3, <1>5
        <5> QED
          BY <5>1, Zenon DEF After
      <4>2. CASE i = n - k + 1
        <5>1. k + i = n + 1
          BY <1>3, <4>2
        <5> QED
          BY <1>5, <3>1, <4>1, <4>2, <5>1
      <4>3. CASE i \in 1 .. n - k
        <5>1. k + i \in 1 .. n
          BY <1>3, <4>3
        <5>2. After(fs, k)[i] = fs[k + i].text[1]
          BY <4>3 DEF After
        <5> QED
          BY <1>5, <3>1, <4>1, <4>3, <5>1, <5>2
      <4> QED
        BY <1>3, <4>2, <4>3
    <3> HIDE DEF h
    <3>3. After(gs, k) = h
      BY <2>4, <3>1, <3>2, TextsEqual
    <3> QED
      BY <3>3 DEF h
  <2>7. After(gs, k) = After(fs, k) \o f.text
    BY <1>3, <2>5, <2>6, AppendIsConcat
  <2>8. (Base(s, fs, k) \o After(fs, k)) \o f.text = Base(s, fs, k) \o (After(fs, k) \o f.text)
    BY <1>3, <2>5, TextsJoin, Zenon
  <2>9. Drawn(s, gs) = Drawn(s, fs) \o f.text
    BY <1>2, <2>2, <2>3, <2>7, <2>8
  <2> QED
    BY <1>4, <1>7, <2>9 DEF Draw
<1> QED
  BY <1>6, <1>7, FrameParts

\* The first frame drawn, then the others.
LEMMA DrawnFirst ==
    ASSUME NEW fs \in Seq(Frame), NEW s \in Seq(1 .. MaxOut), fs # << >>
    PROVE  /\ Draw(s, Head(fs)) \in Seq(1 .. MaxOut)
           /\ Drawn(s, fs) = Drawn(Draw(s, Head(fs)), Tail(fs))
<1> DEFINE f == Head(fs)
           gs == Tail(fs)
           n == Len(gs)
<1>1. /\ f \in Frame /\ f = fs[1] /\ gs \in Seq(Frame) /\ n \in Nat /\ Len(fs) = n + 1
      /\ \A i \in 1 .. n : gs[i] = fs[i + 1]
  BY HeadTailProperties, LenProperties, EmptySeq
<1> HIDE DEF f, gs
<1>2. PICK k : IsFrom(fs, k)
  BY FromIsThere
<1>3. Drawn(s, fs) = Base(s, fs, k) \o After(fs, k)
  BY <1>2, DrawnIs
<1>4. /\ k \in Nat /\ n + 1 - k \in Nat
      /\ Base(s, fs, k) \in Seq(1 .. MaxOut)
      /\ After(fs, k) \in Seq(1 .. MaxOut) /\ Len(After(fs, k)) = n + 1 - k
  BY <1>1, <1>2, PartsAreTexts
<1>5. f.redraw \in BOOLEAN /\ f.text \in Seq(1 .. MaxOut)
      /\ (~f.redraw => f.text = <<f.text[1]>> /\ f.text[1] \in 1 .. MaxOut)
  BY <1>1, FrameParts
<1>6. Draw(s, f) \in Seq(1 .. MaxOut)
  BY <1>5, ConcatProperties DEF Draw
<1>7. CASE k = 0
  <2>1. ~f.redraw
    BY <1>1, <1>2, <1>7 DEF IsFrom
  <2>2. IsFrom(gs, 0)
    <3>1. ASSUME NEW i \in 1 .. n PROVE ~gs[i].redraw
      <4>1. i + 1 \in 1 .. Len(fs) /\ gs[i] = fs[i + 1] /\ ~(i + 1 <= 0)
        BY <1>1
      <4> QED
        BY <1>2, <1>7, <4>1 DEF IsFrom
    <3> QED
      BY <1>1, <3>1 DEF IsFrom
  <2>3. Drawn(Draw(s, f), gs) = Draw(s, f) \o After(gs, 0)
    BY <1>1, <2>2, DrawnIs DEF Base
  <2>4. After(gs, 0) \in Seq(1 .. MaxOut) /\ Len(After(gs, 0)) = n
    BY <1>1, <1>6, <2>2, PartsAreTexts
  <2>5. After(fs, 0) = f.text \o After(gs, 0)
    <3> DEFINE h == f.text \o After(gs, 0)
    <3>1. f.text \in Seq(1 .. MaxOut) /\ Len(f.text) = 1
      BY <1>5, <2>1
    <3>2. h \in Seq(1 .. MaxOut) /\ Len(h) = n + 1
      <4>1. h \in Seq(1 .. MaxOut) /\ Len(h) = Len(f.text) + Len(After(gs, 0))
        BY <2>4, <3>1, ConcatProperties, Zenon
      <4> QED
        BY <1>1, <2>4, <3>1, <4>1
    <3>3. ASSUME NEW i \in 1 .. n + 1 PROVE After(fs, 0)[i] = h[i]
      <4>1. After(fs, 0)[i] = fs[i].text[1]
        BY <1>1 DEF After
      <4>2. h[i] = IF i <= 1 THEN f.text[i] ELSE After(gs, 0)[i - 1]
        <5>1. i \in 1 .. Len(f.text) + Len(After(gs, 0))
          BY <1>1, <2>4, <3>1
        <5>2. h[i] = IF i <= Len(f.text) THEN f.text[i] ELSE After(gs, 0)[i - Len(f.text)]
          BY <2>4, <3>1, <5>1, ConcatProperties, Zenon
        <5> QED
          BY <3>1, <5>2
      <4>3. CASE i = 1
        <5>1. fs[i] = f /\ i <= 1 /\ f.text[i] = f.text[1]
          BY <1>1, <4>3
        <5> QED
          BY <4>1, <4>2, <5>1
      <4>4. CASE i # 1
        <5>1. i - 1 \in 1 .. n /\ ~(i <= 1) /\ gs[i - 1] = fs[i]
          BY <1>1, <4>4
        <5>2. After(gs, 0)[i - 1] = gs[i - 1].text[1]
          BY <1>1, <5>1 DEF After
        <5> QED
          BY <4>1, <4>2, <5>1, <5>2
      <4> QED
        BY <4>3, <4>4
    <3> HIDE DEF h
    <3>4. Len(After(fs, 0)) = n + 1 /\ After(fs, 0) \in Seq(1 .. MaxOut)
      BY <1>1, <1>4, <1>7
    <3>5. After(fs, 0) = h
      BY <3>2, <3>3, <3>4, SeqEqual
    <3> QED
      BY <3>5 DEF h
  <2>6. (s \o f.text) \o After(gs, 0) = s \o (f.text \o After(gs, 0))
    BY <1>5, <2>1, <2>4, TextsJoin, Zenon
  <2> QED
    BY <1>3, <1>6, <1>7, <2>1, <2>3, <2>5, <2>6 DEF Base, Draw, f, gs
<1>8. CASE k # 0
  <2>1. k - 1 \in 0 .. n /\ k \in 1 .. n + 1
    BY <1>4, <1>8
  <2>2. IsFrom(gs, k - 1)
    <3>1. k - 1 = 0 \/ gs[k - 1].redraw
      BY <1>1, <1>2, <2>1 DEF IsFrom
    <3>2. ASSUME NEW i \in 1 .. n, gs[i].redraw PROVE i <= k - 1
      <4>1. i + 1 \in 1 .. Len(fs) /\ gs[i] = fs[i + 1]
        BY <1>1
      <4>2. i + 1 <= k
        BY <1>2, <3>2, <4>1 DEF IsFrom
      <4> QED
        BY <2>1, <4>2
    <3> QED
      BY <1>1, <2>1, <3>1, <3>2 DEF IsFrom
  <2>3. Drawn(Draw(s, f), gs) = Base(Draw(s, f), gs, k - 1) \o After(gs, k - 1)
    BY <1>1, <2>2, DrawnIs
  <2>4. Base(Draw(s, f), gs, k - 1) = fs[k].text
    <3>1. CASE k = 1
      <4>1. f.redraw
        BY <1>1, <1>2, <3>1 DEF IsFrom
      <4> QED
        BY <1>1, <3>1, <4>1 DEF Base, Draw
    <3>2. CASE k # 1
      <4>1. k - 1 \in 1 .. n /\ k - 1 + 1 = k
        BY <2>1, <3>2
      <4>2. gs[k - 1] = fs[k]
        BY <1>1, <4>1
      <4> QED
        BY <4>1, <4>2 DEF Base
    <3> QED
      BY <3>1, <3>2
  <2>5. After(gs, k - 1) = After(fs, k)
    <3>1. After(gs, k - 1) \in Seq(1 .. MaxOut) /\ Len(After(gs, k - 1)) = n - (k - 1)
      BY <1>1, <1>6, <2>2, PartsAreTexts
    <3>2. Len(After(gs, k - 1)) = Len(After(fs, k))
      BY <1>1, <1>4, <2>1, <3>1
    <3>3. ASSUME NEW i \in 1 .. Len(After(fs, k)) PROVE After(gs, k - 1)[i] = After(fs, k)[i]
      <4>1. i \in 1 .. n + 1 - k /\ i \in 1 .. n - (k - 1)
        BY <1>1, <1>4, <2>1
      <4>2. k + i \in 1 .. Len(fs) /\ k - 1 + i \in 1 .. n /\ k - 1 + i + 1 = k + i
        BY <1>1, <1>4, <2>1, <4>1
      <4>3. gs[k - 1 + i] = fs[k + i]
        BY <1>1, <4>2
      <4>4. After(gs, k - 1)[i] = gs[k - 1 + i].text[1] /\ After(fs, k)[i] = fs[k + i].text[1]
        <5>1. i \in 1 .. Len(gs) - (k - 1) /\ i \in 1 .. Len(fs) - k
          BY <1>1, <1>4, <4>1
        <5> QED
          BY <5>1, Zenon DEF After
      <4> QED
        BY <4>3, <4>4
    <3> QED
      BY <1>4, <3>1, <3>2, <3>3, SeqEqual
  <2>6. Base(s, fs, k) = fs[k].text
    BY <1>8 DEF Base
  <2> QED
    BY <1>3, <1>6, <2>3, <2>4, <2>5, <2>6 DEF f, gs
<1> QED
  BY <1>7, <1>8

-----------------------------------------------------------------------------
LEMMA DrawIsText ==
    ASSUME NEW s \in Seq(1 .. MaxOut), NEW f \in Frame
    PROVE  Draw(s, f) \in Seq(1 .. MaxOut)
  BY FrameParts, ConcatProperties DEF Draw

LEMMA SnapshotIsFrame ==
    ASSUME NEW s \in Seq(1 .. MaxOut)
    PROVE  /\ Snapshot(s) \in Seq(Frame)
           /\ s # << >> => /\ Snapshot(s) = <<[redraw |-> TRUE, text |-> s]>>
                           /\ [redraw |-> TRUE, text |-> s] \in Frame
           /\ s = << >> => Snapshot(s) = << >>
<1>1. [redraw |-> TRUE, text |-> s] \in Frame
  BY DEF Frame
<1>2. PICK f \in Frame : f = [redraw |-> TRUE, text |-> s]
  BY <1>1
<1>3. <<f>> \in Seq(Frame) /\ << >> \in Seq(Frame)
  OBVIOUS
<1>4. Snapshot(s) = IF s = << >> THEN << >> ELSE <<f>>
  BY <1>2 DEF Snapshot
<1> QED
  BY <1>2, <1>3, <1>4

\* The smallest of some sizes is one of them.
LEMMA SmallestIsSize ==
    ASSUME NEW D \in SUBSET (Sizes \cup {0}) PROVE SmallestOf(D \ {0}) \in Sizes \cup {0}
<1> DEFINE S == D \ {0}
           R == {p \in Nat \X Nat : p[1] < p[2]}
<1>1. S \subseteq Nat /\ S \subseteq Sizes
  BY ConnAssumption
<1>2. CASE S = {}
  BY <1>2 DEF SmallestOf
<1>3. CASE S # {}
  <2>1. IsWellFoundedOn(R, Nat)
    BY NatLessThanWellFounded DEF OpToRel, IsWellFoundedOn
  <2>2. PICK m \in S : \A n \in S : ~(<<n, m>> \in R)
    BY <1>1, <1>3, <2>1, WFMin
  <2>3. ASSUME NEW n \in S PROVE m <= n
    <3>1. ~(n < m) /\ n \in Nat /\ m \in Nat
      BY <1>1, <2>2
    <3> QED
      BY <3>1
  <2>4. Min(S) \in S
    BY <2>3 DEF Min
  <2> QED
    BY <1>1, <1>3, <2>4 DEF SmallestOf
<1> QED
  BY <1>2, <1>3

LEMMA LifeTypes == ASSUME LifeTypeOK, [Next]_vars PROVE LifeTypeOK'
<1> USE HostLifeAssumption DEF LifeTypeOK, HostState, Becomes
<1>0. ASSUME UNCHANGED lifeVars PROVE LifeTypeOK'
  BY <1>0 DEF lifeVars
<1>1. ASSUME NEW h \in Hosts, Spawned(h) \/ Listens(h) PROVE LifeTypeOK'
  BY <1>1 DEF Spawned, Listens
<1>2. ASSUME NEW h \in Hosts, Registers(h) PROVE LifeTypeOK'
  <2>1. taken' \in BOOLEAN
    <3>1. UNCHANGED taken \/ taken' = (taken /\ h = profile)
      BY <1>2, Zenon DEF Registers, FileNames
    <3> QED
      BY <3>1
  <2>2. host' \in [Hosts -> HostState] /\ UNCHANGED <<screen, printed, sweep, overswept>>
    BY <1>2 DEF Registers
  <2>3. profile' \in Hosts \cup {Nobody} /\ faults' \in 0 .. MaxFaults
    BY <1>2 DEF Registers, FileNames, Fault
  <2> QED
    BY <2>1, <2>2, <2>3
<1>3. ASSUME NEW h \in Hosts, PipeTaken(h) \/ Stops(h) PROVE LifeTypeOK'
  BY <1>3 DEF PipeTaken, Stops, FileNames, AfterStop
<1>4. ASSUME NEW h \in Hosts, Exits(h) PROVE LifeTypeOK'
  BY <1>4 DEF Exits
<1>5. ASSUME NEW h \in Hosts, Killed(h) PROVE LifeTypeOK'
  BY <1>5 DEF Killed, Fault
<1>6. CASE SweepReads
  BY <1>6 DEF SweepReads
<1>7. CASE SweepRemoves
  BY <1>7 DEF SweepRemoves, FileNames
<1>12. CASE PidReused \/ PidFreed
  BY <1>12 DEF PidReused, PidFreed
<1>8. CASE ViewerSteps
  BY <1>0, <1>8 DEF ViewerSteps, Opens, Scrolls, ComesBack, Closes, Resizes
<1>9. CASE RetryMsPass \/ HostJoins \/ HearsFrame \/ WriteSettles \/ Polls
  BY <1>0, <1>9 DEF RetryMsPass, HostJoins, HearsFrame, WriteSettles, Polls
<1>10. CASE PipeBreaks \/ PipeReplaced
  BY <1>10 DEF PipeBreaks, PipeReplaced, PipeFails, Fault
<1>11. ASSUME NEW h \in Hosts, HostPrints(h) PROVE LifeTypeOK'
  <2>1. printed' \in 1 .. MaxOut /\ screen' = [screen EXCEPT ![h] = Append(@, printed')]
    BY <1>11 DEF HostPrints
  <2>2. Append(screen[h], printed') \in Seq(1 .. MaxOut)
    BY <2>1, AppendProperties
  <2>3. screen' \in [Hosts -> Seq(1 .. MaxOut)]
    BY <2>1, <2>2
  <2> QED
    BY <1>11, <2>1, <2>3 DEF HostPrints
<1> QED
  BY <1>0, <1>1, <1>2, <1>3, <1>4, <1>5, <1>6, <1>7, <1>8, <1>9, <1>10, <1>11, <1>12
     DEF Next, HostSteps, PipeSteps, vars

\* The parts of the daemon's state, each for itself.
LEMMA PipeTypes ==
    ASSUME TypeOK, [Next]_vars
    PROVE  /\ sock' \in Hosts \cup {Nobody} /\ joined' \in BOOLEAN
           /\ q' \in Seq(Frame) /\ dangCho' \in Seq(Frame)
           /\ rested' \in BOOLEAN /\ over' \in BOOLEAN /\ copy' \in Seq(1 .. MaxOut)
<1> DEFINE Goal == /\ sock' \in Hosts \cup {Nobody} /\ joined' \in BOOLEAN
                   /\ q' \in Seq(Frame) /\ dangCho' \in Seq(Frame)
                   /\ rested' \in BOOLEAN /\ over' \in BOOLEAN /\ copy' \in Seq(1 .. MaxOut)
<1> USE HostLifeAssumption, ConnAssumption DEF TypeOK, LifeTypeOK, SourceTypeOK
<1>1. ASSUME UNCHANGED <<sock, joined, q, dangCho, rested, over, copy>> PROVE Goal
  BY <1>1
<1>2. ASSUME NEW c \in Conns, Opens(c) PROVE Goal
  <2>1. UNCHANGED <<copy, dangCho, over>> /\ profile \in Hosts
    BY <1>2 DEF Opens, AliveNow
  <2>2. CASE UNCHANGED <<pipeVars, rested>>
    BY <2>1, <2>2 DEF pipeVars
  <2>3. CASE sock' = profile /\ joined' = FALSE /\ q' = << >> /\ rested' = FALSE
    <3>1. q' \in Seq(Frame)
      BY <2>3, EmptySeq
    <3>2. sock' \in Hosts \cup {Nobody} /\ joined' \in BOOLEAN /\ rested' \in BOOLEAN
      BY <2>1, <2>3
    <3> QED
      BY <2>1, <3>1, <3>2
  <2> QED
    BY <1>2, <2>2, <2>3 DEF Opens, EnsurePipe
<1>3. ASSUME NEW c \in Conns, Scrolls(c) \/ ComesBack(c) \/ Closes(c) PROVE Goal
  BY <1>1, <1>3 DEF Scrolls, ComesBack, Closes, pipeVars
<1>4. ASSUME NEW c \in Conns, NEW s \in Sizes, Resizes(c, s) PROVE Goal
  BY <1>1, <1>4 DEF Resizes, pipeVars
<1>5. CASE RetryMsPass
  BY <1>5 DEF RetryMsPass, pipeVars
<1>6. CASE HostJoins
  <2>1. screen[sock] \in Seq(1 .. MaxOut)
    BY <1>6 DEF HostJoins
  <2> QED
    BY <1>6, <2>1, SnapshotIsFrame DEF HostJoins
<1>7. CASE HearsFrame
  <2>1. Head(q) \in Frame /\ Tail(q) \in Seq(Frame)
    BY <1>7, HeadTailProperties DEF HearsFrame
  <2>2. Append(dangCho, Head(q)) \in Seq(Frame)
    BY <2>1, AppendProperties
  <2> QED
    BY <1>7, <2>1, <2>2 DEF HearsFrame, Nap
<1>8. CASE WriteSettles
  <2>1. Head(dangCho) \in Frame /\ Tail(dangCho) \in Seq(Frame)
    BY <1>8, HeadTailProperties DEF WriteSettles
  <2>2. Draw(copy, Head(dangCho)) \in Seq(1 .. MaxOut)
    BY <2>1, DrawIsText
  <2> QED
    BY <1>8, <2>1, <2>2 DEF WriteSettles, pipeVars
<1>9. CASE PipeBreaks \/ Polls
  <2>1. /\ sock' = Nobody /\ joined' = FALSE /\ q' = << >>
        /\ UNCHANGED <<rested, copy, dangCho>> /\ (over' = TRUE \/ UNCHANGED over)
    BY <1>9 DEF PipeBreaks, Polls, ShutsDown, Disconnected
  <2>2. q' \in Seq(Frame)
    BY <2>1, EmptySeq
  <2>3. joined' \in BOOLEAN /\ over' \in BOOLEAN
    BY <2>1
  <2> QED
    BY <2>1, <2>2, <2>3
<1>10. ASSUME NEW h \in Hosts, HostPrints(h) PROVE Goal
  <2>1. printed' \in 1 .. MaxOut
    BY <1>10 DEF HostPrints
  <2>2. Output(printed') \in Frame
    BY <2>1 DEF Frame
  <2>3. Append(q, Output(printed')) \in Seq(Frame)
    BY <2>2, AppendProperties
  <2> QED
    BY <1>10, <2>3 DEF HostPrints
<1>11. CASE UNCHANGED sourceVars
  BY <1>1, <1>11 DEF sourceVars, pipeVars
<1>12. CASE PipeReplaced
  <2>1. /\ sock' = profile /\ profile \in Hosts /\ joined' = FALSE /\ q' = << >>
        /\ rested' = FALSE /\ UNCHANGED <<copy, dangCho, over>>
    BY <1>12 DEF PipeReplaced, AliveNow
  <2>2. q' \in Seq(Frame)
    BY <2>1, EmptySeq
  <2>3. joined' \in BOOLEAN /\ rested' \in BOOLEAN
    BY <2>1
  <2> QED
    BY <2>1, <2>2, <2>3
<1> QED
  BY <1>2, <1>3, <1>4, <1>5, <1>6, <1>7, <1>8, <1>9, <1>10, <1>11, <1>12
     DEF Next, ViewerSteps, PipeSteps, vars

LEMMA ViewTypes ==
    ASSUME TypeOK, [Next]_vars
    PROVE  /\ conns' \subseteq Conns /\ back' \subseteq conns'
           /\ view' \in [Conns -> Seq(1 .. MaxOut)]
           /\ size' \in [Conns -> Sizes \cup {0}]
           /\ khai' \in Sizes \cup {0} /\ told' \in Sizes \cup {0} /\ replaced' \in BOOLEAN
<1> DEFINE Seen == /\ conns' \subseteq Conns /\ back' \subseteq conns'
                   /\ view' \in [Conns -> Seq(1 .. MaxOut)]
           Sizing == size' \in [Conns -> Sizes \cup {0}]
           Said == khai' \in Sizes \cup {0} /\ told' \in Sizes \cup {0} /\ replaced' \in BOOLEAN
           Goal == Seen /\ Sizing /\ Said
<1> USE HostLifeAssumption, ConnAssumption DEF TypeOK, LifeTypeOK, SourceTypeOK
<1>1. ASSUME UNCHANGED <<conns, back, view, size, khai, told, replaced>> PROVE Goal
  BY <1>1
<1>2. ASSUME NEW c \in Conns, Opens(c) PROVE Goal
  <2>1. Drawn(copy, dangCho) \in Seq(1 .. MaxOut)
    BY DrawnIsText
  <2> QED
    BY <1>2, <2>1 DEF Opens, Backfill, sizeVars
<1>3. ASSUME NEW c \in Conns, Scrolls(c) \/ ComesBack(c) PROVE Goal
  <2>1. CASE Scrolls(c)
    BY <2>1 DEF Scrolls, sizeVars
  <2>2. CASE ComesBack(c)
    BY <2>2 DEF ComesBack, sizeVars
  <2> QED
    BY <1>3, <2>1, <2>2
<1>4. ASSUME NEW cs \in SUBSET Conns, NEW z \in [Conns -> Sizes \cup {0}],
             Declares(cs, z, sock # Nobody)
      PROVE  Said
  <2>1. {z[c] : c \in cs} \in SUBSET (Sizes \cup {0})
    OBVIOUS
  <2>2. SmallestOf({z[c] : c \in cs} \ {0}) \in Sizes \cup {0}
    BY <2>1, SmallestIsSize
  <2> QED
    BY <1>4, <2>2 DEF Declares
<1>5. ASSUME NEW c \in Conns, NEW s \in Sizes, Resizes(c, s) PROVE Goal
  <2>1. Sizing /\ Declares(conns, size', sock # Nobody)
    BY <1>5 DEF Resizes
  <2>2. PICK z \in [Conns -> Sizes \cup {0}] : z = size'
    BY <2>1
  <2>3. Said
    BY <1>4, <2>1, <2>2
  <2> QED
    BY <1>5, <2>1, <2>3 DEF Resizes
<1>6. ASSUME NEW cs \in SUBSET Conns, Without(cs) PROVE Seen /\ Sizing
  <2>1. \A c \in Conns : (IF c \in cs THEN << >> ELSE view[c]) \in Seq(1 .. MaxOut)
    BY EmptySeq
  <2>2. view' \in [Conns -> Seq(1 .. MaxOut)]
    BY <1>6, <2>1 DEF Without
  <2>3. size' \in [Conns -> Sizes \cup {0}]
    BY <1>6 DEF Without
  <2> QED
    BY <1>6, <2>2, <2>3 DEF Without
<1>7. ASSUME NEW c \in Conns, Closes(c) PROVE Goal
  <2>1. Without({c}) /\ Declares(conns', size, sock # Nobody)
    BY <1>7 DEF Closes
  <2>2. Seen /\ Sizing
    BY <1>6, <2>1
  <2>3. PICK cs \in SUBSET Conns : cs = conns'
    BY <2>2
  <2> QED
    BY <1>4, <2>1, <2>2, <2>3
<1>8. CASE PipeBreaks \/ Polls
  BY <1>6, <1>8 DEF PipeBreaks, Polls, ShutsDown, Disconnected, LosesViewers
<1>9. CASE HearsFrame
  <2>1. Head(q) \in Frame
    BY <1>9, HeadTailProperties DEF HearsFrame
  <2>2. \A c \in Conns : Draw(view[c], Head(q)) \in Seq(1 .. MaxOut)
    BY <2>1, DrawIsText
  <2> QED
    BY <1>9, <2>2 DEF HearsFrame, Phat, sizeVars
<1>10. CASE RetryMsPass \/ HostJoins \/ WriteSettles
  BY <1>1, <1>10 DEF RetryMsPass, HostJoins, WriteSettles, viewVars, sizeVars
<1>11. ASSUME NEW h \in Hosts, HostPrints(h) PROVE Goal
  BY <1>1, <1>11 DEF HostPrints, viewVars, sizeVars
<1>12. CASE UNCHANGED sourceVars
  BY <1>1, <1>12 DEF sourceVars, viewVars, sizeVars
<1>13. CASE PipeReplaced
  <2>1. UNCHANGED <<conns, back, view, size, khai>> /\ told' = 0 /\ replaced' \in BOOLEAN
    BY <1>13 DEF PipeReplaced, viewVars
  <2> QED
    BY <2>1
<1> QED
  BY <1>2, <1>3, <1>5, <1>7, <1>8, <1>9, <1>10, <1>11, <1>12, <1>13
     DEF Next, ViewerSteps, PipeSteps, vars

LEMMA TypesStep == ASSUME TypeOK, [Next]_vars PROVE TypeOK'
<1>1. LifeTypeOK'
  BY LifeTypes DEF TypeOK
<1>2. SourceTypeOK'
  BY PipeTypes, ViewTypes DEF SourceTypeOK
<1> QED
  BY <1>1, <1>2 DEF TypeOK

-----------------------------------------------------------------------------
\* Without a snapshot heard nothing is mended, but a viewer that comes back when
\* the copy is up to date.
LEMMA NotMended ==
    ASSUME History, conns' \subseteq Conns, stale \in BOOLEAN,
           ~(HearsFrame /\ Head(q).redraw)
    PROVE  /\ \A c \in conns' : c \in cutShort => c \in cutShort' \/ (ComesBack(c) /\ dangCho = << >>)
           /\ \A c \in conns' : ComesBack(c) /\ dangCho # << >> => c \in cutShort'
           /\ ~stale' => ~stale /\ ~(HostJoins /\ q' = << >> /\ Drawn(copy, dangCho) # << >>)
<1>1. /\ cutShort' = (cutShort \cup {c \in Conns : ComesBack(c) /\ dangCho # << >>})
                     \ {c \in Conns : c \notin conns' \/ (ComesBack(c) /\ dangCho = << >>)}
      /\ stale' = (stale \/ (HostJoins /\ q' = << >> /\ Drawn(copy, dangCho) # << >>))
  BY DEF History
<1> QED
  BY <1>1

\* Who is attached, looks at the live screen and was not cut short sees what the
\* copy will show.
Shows(c) == view[c] = Drawn(copy, dangCho) \/ c \in back \cup cutShort

LEMMA ShowsStep ==
    ASSUME TypeOK, stale \in BOOLEAN, \A c \in conns : Shows(c), [Next]_vars
    PROVE  \A c \in conns' : Shows(c)'
<1> DEFINE Goal == \A c \in conns' : view'[c] = Drawn(copy', dangCho') \/ c \in back' \cup cutShort'
<1>1. conns' \subseteq Conns /\ conns \subseteq Conns
  BY TypesStep DEF TypeOK, SourceTypeOK
<1>2. \A c \in conns : view[c] = Drawn(copy, dangCho) \/ c \in back \cup cutShort
  BY DEF Shows
<1>3. ASSUME History, HearsFrame PROVE Goal
  <2>1. /\ q # << >> /\ UNCHANGED <<copy, conns, back>> /\ dangCho' = Append(dangCho, Head(q))
        /\ view' = [c \in Conns |-> IF c \in conns \ back THEN Draw(view[c], Head(q)) ELSE view[c]]
    BY <1>3 DEF HearsFrame, Nap, Phat
  <2>2. PICK f \in Frame : f = Head(q)
    BY <2>1, HeadTailProperties DEF TypeOK, SourceTypeOK
  <2>3. Drawn(copy, Append(dangCho, f)) = Draw(Drawn(copy, dangCho), f)
    BY DrawnNext DEF TypeOK, SourceTypeOK
  <2>4. ASSUME NEW c \in conns', c \notin back'
        PROVE  view'[c] = Drawn(copy', dangCho') \/ c \in cutShort'
    <3>1. c \in conns \ back /\ c \in Conns /\ view'[c] = Draw(view[c], f)
      BY <1>1, <2>1, <2>2, <2>4
    <3>2. CASE f.redraw
      BY <2>1, <2>2, <2>3, <3>1, <3>2 DEF Draw
    <3>3. CASE ~f.redraw /\ c \in cutShort
      <4>1. ~ComesBack(c)
        <5>1. dangCho' # dangCho
          BY <2>1, <2>2 DEF TypeOK, SourceTypeOK
        <5> QED
          BY <5>1 DEF ComesBack
      <4> QED
        BY <1>1, <1>3, <2>2, <2>4, <3>3, <4>1, NotMended
    <3>4. CASE view[c] = Drawn(copy, dangCho)
      BY <2>1, <2>2, <2>3, <3>1, <3>4
    <3> QED
      BY <1>2, <3>1, <3>2, <3>3, <3>4, FrameParts
  <2>5. ASSUME NEW c \in conns'
        PROVE  view'[c] = Drawn(copy', dangCho') \/ c \in back' \cup cutShort'
    BY <2>4
  <2> QED
    BY <2>5
<1>4. ASSUME History, ~HearsFrame, NEW c \in conns', ComesBack(c)
      PROVE  view'[c] = Drawn(copy', dangCho') \/ c \in back' \cup cutShort'
  <2>1. UNCHANGED <<conns, copy, dangCho>> /\ view' = [view EXCEPT ![c] = copy]
    BY <1>4 DEF ComesBack
  <2>2. CASE dangCho = << >>
    <3>1. Drawn(copy, dangCho) = copy
      BY <2>2, NothingDrawn DEF TypeOK, SourceTypeOK
    <3> QED
      BY <1>1, <2>1, <3>1 DEF TypeOK, SourceTypeOK
  <2>3. CASE dangCho # << >>
    BY <1>1, <1>4, <2>3, NotMended
  <2> QED
    BY <2>2, <2>3
<1>5. ASSUME History, ~HearsFrame, NEW c \in conns', c \in conns, view'[c] = view[c],
             c \in back => c \in back', Drawn(copy', dangCho') = Drawn(copy, dangCho)
      PROVE  view'[c] = Drawn(copy', dangCho') \/ c \in back' \cup cutShort'
  <2>1. CASE ~ComesBack(c)
    BY <1>1, <1>2, <1>5, <2>1, NotMended
  <2> QED
    BY <1>4, <1>5, <2>1
<1>6. ASSUME History, ~HearsFrame, NEW c \in Conns, Opens(c) PROVE Goal
  <2>1. /\ c \notin conns /\ conns' = conns \cup {c} /\ UNCHANGED <<copy, dangCho, back>>
        /\ view' = [view EXCEPT ![c] = Drawn(copy, dangCho)]
    BY <1>6 DEF Opens, Backfill
  <2>2. view'[c] = Drawn(copy', dangCho')
    BY <2>1 DEF TypeOK, SourceTypeOK
  <2>3. ASSUME NEW d \in conns PROVE view'[d] = Drawn(copy', dangCho') \/ d \in back' \cup cutShort'
    <3>1. view'[d] = view[d] /\ d \in conns'
      BY <2>1 DEF TypeOK, SourceTypeOK
    <3> QED
      BY <1>5, <1>6, <2>1, <3>1
  <2> QED
    BY <2>1, <2>2, <2>3
<1>7. ASSUME History, ~HearsFrame, NEW c \in Conns, ComesBack(c) PROVE Goal
  <2>1. /\ c \in conns /\ UNCHANGED <<conns, copy, dangCho>> /\ back' = back \ {c}
        /\ view' = [view EXCEPT ![c] = copy]
    BY <1>7 DEF ComesBack
  <2>2. ASSUME NEW d \in conns', d # c
        PROVE  view'[d] = Drawn(copy', dangCho') \/ d \in back' \cup cutShort'
    <3>1. view'[d] = view[d] /\ d \in conns /\ (d \in back => d \in back')
      BY <1>1, <2>1, <2>2 DEF TypeOK, SourceTypeOK
    <3> QED
      BY <1>5, <1>7, <2>1, <3>1
  <2> QED
    BY <1>4, <1>7, <2>1, <2>2
<1>8. ASSUME History, ~HearsFrame, UNCHANGED <<view, copy, dangCho, conns>>, back \subseteq back'
      PROVE  Goal
  BY <1>5, <1>8
<1>9. ASSUME History, ~HearsFrame, NEW c \in Conns, Closes(c) PROVE Goal
  <2>1. /\ UNCHANGED <<copy, dangCho>> /\ conns' = conns \ {c} /\ back' = back \ {c}
        /\ view' = [d \in Conns |-> IF d = c THEN << >> ELSE view[d]]
    BY <1>9 DEF Closes, Without
  <2>2. ASSUME NEW d \in conns'
        PROVE  d \in conns /\ view'[d] = view[d] /\ (d \in back => d \in back')
    BY <1>1, <2>1, <2>2
  <2> QED
    BY <1>5, <1>9, <2>1, <2>2
<1>10. ASSUME History, ~HearsFrame, WriteSettles PROVE Goal
  <2>1. /\ dangCho # << >> /\ UNCHANGED <<conns, view, back>>
        /\ copy' = Draw(copy, Head(dangCho)) /\ dangCho' = Tail(dangCho)
    BY <1>10 DEF WriteSettles, viewVars
  <2>2. Drawn(copy', dangCho') = Drawn(copy, dangCho)
    BY <2>1, DrawnFirst DEF TypeOK, SourceTypeOK
  <2> QED
    BY <1>5, <1>10, <2>1, <2>2
<1>11. ASSUME PipeBreaks \/ Polls PROVE Goal
  <2>1. conns' = {}
    BY <1>11 DEF PipeBreaks, Polls, ShutsDown, LosesViewers, Without
  <2> QED
    BY <2>1
<1>12. ASSUME History, ~HearsFrame, ViewerSteps PROVE Goal
  <2>1. ASSUME NEW c \in Conns, Scrolls(c) PROVE Goal
    BY <1>8, <1>12, <2>1 DEF Scrolls
  <2>2. ASSUME NEW c \in Conns, NEW z \in Sizes, Resizes(c, z) PROVE Goal
    BY <1>8, <1>12, <2>2 DEF Resizes
  <2> QED
    BY <1>6, <1>7, <1>9, <1>12, <2>1, <2>2 DEF ViewerSteps
<1>13. ASSUME History, ~HearsFrame, PipeSteps PROVE Goal
  <2>1. ASSUME RetryMsPass \/ HostJoins \/ PipeReplaced PROVE Goal
    BY <1>8, <1>13, <2>1 DEF RetryMsPass, HostJoins, PipeReplaced, viewVars
  <2>2. ASSUME NEW h \in Hosts, HostPrints(h) PROVE Goal
    BY <1>8, <1>13, <2>2 DEF HostPrints, viewVars
  <2> QED
    BY <1>10, <1>11, <1>13, <2>1, <2>2 DEF PipeSteps
<1>14. ASSUME History, ~HearsFrame, UNCHANGED sourceVars PROVE Goal
  BY <1>8, <1>14 DEF sourceVars, viewVars
<1>15. ASSUME UNCHANGED vars PROVE Goal
  BY <1>2, <1>15 DEF vars, sourceVars, viewVars
<1>16. Goal
  <2>1. ASSUME Next, ~HearsFrame PROVE Goal
    BY <1>12, <1>13, <1>14, <2>1 DEF Next
  <2>2. Next => History
    BY DEF Next
  <2> QED
    BY <1>3, <1>15, <2>1, <2>2
<1> QED
  BY <1>16 DEF Shows

\* A host that ends is not alive any more; no other step of a host touches the
\* screen of one that was started.
LEMMA ScreensStay ==
    ASSUME HostSteps, NEW h \in Hosts, host \in [Hosts -> HostState],
           screen \in [Hosts -> Seq(1 .. MaxOut)], host[h] # "none"
    PROVE  /\ host'[h] # "none"
           /\ host'[h] # "dead" => host[h] # "dead" /\ screen'[h] = screen[h]
<1> DEFINE Goal == /\ host'[h] # "none"
                   /\ host'[h] # "dead" => host[h] # "dead" /\ screen'[h] = screen[h]
<1> USE DEF Becomes, HostState
<1>1. ASSUME NEW g \in Hosts, Spawned(g) \/ Listens(g) PROVE Goal
  BY <1>1 DEF Spawned, Listens
<1>2. ASSUME NEW g \in Hosts, Registers(g) PROVE Goal
  BY <1>2 DEF Registers
<1>3. ASSUME NEW g \in Hosts, PipeTaken(g) \/ Stops(g) PROVE Goal
  BY <1>3 DEF PipeTaken, Stops
<1>4. ASSUME NEW g \in Hosts, Exits(g) \/ Killed(g) PROVE Goal
  BY <1>4 DEF Exits, Killed, Runs
<1>5. ASSUME SweepReads \/ SweepRemoves \/ PidReused \/ PidFreed PROVE Goal
  BY <1>5 DEF SweepReads, SweepRemoves, PidReused, PidFreed
<1> QED
  BY <1>1, <1>2, <1>3, <1>4, <1>5 DEF HostSteps

LEMMA FollowsStep == ASSUME TypeOK, Found, CopyFollows, [Next]_vars PROVE CopyFollows'
<1> DEFINE Redraws == \E i \in 1 .. Len(q) : q[i].redraw
           Redraws1 == \E i \in 1 .. Len(q') : q'[i].redraw
           Follows1 == sock' # Nobody /\ joined' /\ host'[sock'] \notin {"none", "dead"}
                       /\ (~stale' \/ Redraws1) => Drawn(copy', dangCho' \o q') = screen'[sock']
           Started1 == sock' # Nobody => host'[sock'] # "none"
           Goal == Follows1 /\ Started1
<1>1. /\ stale \in BOOLEAN /\ (sock # Nobody => sock \in Hosts /\ host[sock] # "none")
      /\ sock # Nobody /\ joined /\ host[sock] \notin {"none", "dead"} /\ (~stale \/ Redraws) =>
             Drawn(copy, dangCho \o q) = screen[sock]
  BY DEF CopyFollows, Runs, TypeOK, SourceTypeOK
<1>2. /\ host \in [Hosts -> HostState] /\ screen \in [Hosts -> Seq(1 .. MaxOut)]
      /\ copy \in Seq(1 .. MaxOut) /\ dangCho \in Seq(Frame) /\ q \in Seq(Frame)
      /\ joined \in BOOLEAN /\ conns' \subseteq Conns
  BY TypesStep DEF TypeOK, LifeTypeOK, SourceTypeOK
<1>19. profile # Nobody => host[profile] # "none"
  BY DEF Found, FileFindsHost
<1>3. ASSUME Next, ~(HearsFrame /\ Head(q).redraw)
      PROVE  ~stale' => ~stale /\ ~(HostJoins /\ q' = << >> /\ Drawn(copy, dangCho) # << >>)
  BY <1>1, <1>2, <1>3, NotMended DEF Next
<1>4. ASSUME ~HearsFrame, Next, UNCHANGED <<pipeVars, copy, dangCho>>,
             sock # Nobody => /\ host'[sock] # "none"
                              /\ host'[sock] # "dead" => /\ host[sock] # "dead"
                                                         /\ screen'[sock] = screen[sock]
      PROVE  Goal
  <2>1. UNCHANGED <<sock, joined, q, copy, dangCho>>
    BY <1>4 DEF pipeVars
  <2>2. ~stale' => ~stale
    BY <1>3, <1>4
  <2>3. Redraws1 => Redraws
    BY <2>1
  <2>4. Drawn(copy', dangCho' \o q') = Drawn(copy, dangCho \o q)
    BY <2>1
  <2> QED
    BY <1>1, <1>4, <2>1, <2>2, <2>3, <2>4
<1>5. ASSUME ~HearsFrame, Next, UNCHANGED <<pipeVars, copy, dangCho, host, screen>> PROVE Goal
  BY <1>1, <1>4, <1>5
<1>6. ASSUME sock' = Nobody PROVE Goal
  BY <1>6
<1>7. ASSUME ~HearsFrame, Next, HostSteps, UNCHANGED sourceVars PROVE Goal
  BY <1>1, <1>2, <1>4, <1>7, ScreensStay DEF sourceVars
<1>8. ASSUME ~HearsFrame, Next, NEW c \in Conns, Opens(c) PROVE Goal
  <2>1. /\ UNCHANGED <<host, screen, copy, dangCho>> /\ host[profile] # "none" /\ EnsurePipe
    BY <1>8, <1>19 DEF Opens, lifeVars, AliveNow
  <2>2. CASE UNCHANGED pipeVars
    BY <1>5, <1>8, <2>1, <2>2
  <2>3. CASE sock' = profile /\ joined' = FALSE
    BY <2>1, <2>3
  <2> QED
    BY <2>1, <2>2, <2>3 DEF EnsurePipe
<1>9. ASSUME ~HearsFrame, Next, ViewerSteps PROVE Goal
  <2>1. ASSUME NEW c \in Conns, Scrolls(c) \/ ComesBack(c) \/ Closes(c) PROVE Goal
    BY <1>5, <1>9, <2>1 DEF Scrolls, ComesBack, Closes, lifeVars
  <2>2. ASSUME NEW c \in Conns, NEW z \in Sizes, Resizes(c, z) PROVE Goal
    BY <1>5, <1>9, <2>2 DEF Resizes, lifeVars
  <2> QED
    BY <1>8, <1>9, <2>1, <2>2 DEF ViewerSteps
<1>10. ASSUME ~HearsFrame, Next, HostJoins PROVE Goal
  <2>1. /\ sock # Nobody /\ UNCHANGED <<sock, host, screen, copy, dangCho>>
        /\ q' = Snapshot(screen[sock])
    BY <1>10 DEF HostJoins, lifeVars
  <2>2. PICK t \in Seq(1 .. MaxOut) : t = screen[sock]
    BY <1>1, <1>2, <2>1
  <2>3. CASE t = << >>
    <3>1. q' = << >> /\ dangCho \o << >> = dangCho
      BY <1>2, <2>1, <2>2, <2>3, SnapshotIsFrame, ConcatEmptySeq
    <3>2. ~Redraws1
      BY <3>1
    <3>3. ~stale' => Drawn(copy, dangCho) = << >>
      BY <1>3, <1>10, <3>1
    <3> QED
      BY <1>1, <2>1, <2>2, <2>3, <3>1, <3>2, <3>3
  <2>4. CASE t # << >>
    <3>1. PICK f \in Frame : f = [redraw |-> TRUE, text |-> t] /\ q' = <<f>>
      BY <2>1, <2>2, <2>4, SnapshotIsFrame
    <3>2. dangCho \o <<f>> = Append(dangCho, f)
      BY <1>2, AppendIsConcat
    <3>3. Drawn(copy, dangCho \o <<f>>) = t
      BY <1>2, <3>1, <3>2, DrawnNext DEF Draw
    <3>4. Drawn(copy', dangCho' \o q') = t
      BY <2>1, <3>1, <3>3
    <3> QED
      BY <1>1, <2>1, <2>2, <3>4
  <2> QED
    BY <2>3, <2>4
<1>11. ASSUME ~HearsFrame, Next, NEW h \in Hosts, HostPrints(h) PROVE Goal
  <2>1. /\ printed' \in 1 .. MaxOut /\ UNCHANGED <<host, sock, joined, copy, dangCho>>
        /\ screen' = [screen EXCEPT ![h] = Append(@, printed')]
        /\ q' = IF sock = h /\ joined THEN Append(q, Output(printed')) ELSE q
        /\ host[h] # "none"
    BY <1>11, HostLifeAssumption DEF HostPrints, TypeOK, LifeTypeOK
  <2>2. CASE ~(sock = h /\ joined)
    <3>1. q' = q /\ (sock # Nobody /\ joined => screen'[sock] = screen[sock])
      BY <1>1, <1>2, <2>1, <2>2
    <3>2. Redraws1 => Redraws
      BY <3>1
    <3>3. Drawn(copy', dangCho' \o q') = Drawn(copy, dangCho \o q)
      BY <2>1, <3>1
    <3> QED
      BY <1>1, <1>3, <1>11, <2>1, <3>1, <3>2, <3>3
  <2>3. CASE sock = h /\ joined
    <3>1. PICK m \in 1 .. MaxOut : m = printed'
      BY <2>1
    <3>2. PICK f \in Frame : f = [redraw |-> FALSE, text |-> <<m>>]
      BY DEF Frame, Output
    <3>3. q' = Append(q, f) /\ screen'[h] = Append(screen[h], m)
      BY <1>2, <2>1, <2>3, <3>1, <3>2 DEF Output
    <3>4. Redraws1 => Redraws
      <4>1. ASSUME NEW i \in 1 .. Len(Append(q, f)), Append(q, f)[i].redraw PROVE Redraws
        <5>1. /\ Len(Append(q, f)) = Len(q) + 1 /\ Append(q, f)[Len(q) + 1] = f /\ Len(q) \in Nat
              /\ \A j \in 1 .. Len(q) : Append(q, f)[j] = q[j]
          BY <1>2, AppendProperties
        <5>2. i # Len(q) + 1
          BY <3>2, <4>1, <5>1
        <5> QED
          BY <4>1, <5>1, <5>2
      <4> QED
        BY <3>3, <4>1
    <3>5. dangCho \o Append(q, f) = Append(dangCho \o q, f)
      BY <1>2, AppendConcats
    <3>6. PICK u \in Seq(1 .. MaxOut) : u = Drawn(copy, dangCho \o q)
      BY <1>2, DrawnIsText, ConcatProperties
    <3>7. Drawn(copy, Append(dangCho \o q, f)) = Append(u, m)
      <4>1. dangCho \o q \in Seq(Frame)
        BY <1>2, ConcatProperties
      <4>2. Drawn(copy, Append(dangCho \o q, f)) = Draw(u, f)
        BY <1>2, <3>6, <4>1, DrawnNext
      <4>3. u \o <<m>> = Append(u, m)
        BY AppendIsConcat
      <4> QED
        BY <3>2, <4>2, <4>3 DEF Draw
    <3>8. Drawn(copy', dangCho' \o q') = Append(u, m)
      BY <2>1, <3>3, <3>5, <3>7
    <3> QED
      BY <1>1, <1>3, <1>11, <2>1, <2>3, <3>3, <3>4, <3>6, <3>8
  <2> QED
    BY <2>2, <2>3
<1>12. ASSUME ~HearsFrame, Next, WriteSettles PROVE Goal
  <2>1. /\ dangCho # << >> /\ UNCHANGED <<host, screen, sock, joined, q>>
        /\ copy' = Draw(copy, Head(dangCho)) /\ dangCho' = Tail(dangCho)
    BY <1>12 DEF WriteSettles, lifeVars, pipeVars
  <2>2. /\ dangCho \o q \in Seq(Frame) /\ dangCho \o q # << >>
        /\ Head(dangCho \o q) = Head(dangCho) /\ Tail(dangCho \o q) = Tail(dangCho) \o q
    BY <1>2, <2>1, HeadTailConcat
  <2>3. Drawn(copy', dangCho' \o q') = Drawn(copy, dangCho \o q)
    BY <1>2, <2>1, <2>2, DrawnFirst
  <2>4. Redraws1 => Redraws
    BY <2>1
  <2> QED
    BY <1>1, <1>3, <1>12, <2>1, <2>3, <2>4
<1>13. ASSUME Next, HearsFrame PROVE Goal
  <2>1. /\ q # << >> /\ q' = Tail(q) /\ dangCho' = Append(dangCho, Head(q))
        /\ UNCHANGED <<host, screen, sock, joined, copy>>
    BY <1>13 DEF HearsFrame, Nap, lifeVars
  <2>2. Append(dangCho, Head(q)) \o Tail(q) = dangCho \o q
    BY <1>2, <2>1, HeadTailConcat
  <2>3. Drawn(copy', dangCho' \o q') = Drawn(copy, dangCho \o q)
    BY <2>1, <2>2
  <2>4. Redraws1 \/ Head(q).redraw => Redraws
    <3>1. /\ Head(q) = q[1] /\ Len(q) \in Nat \ {0} /\ Len(Tail(q)) = Len(q) - 1
          /\ \A i \in 1 .. Len(Tail(q)) : Tail(q)[i] = q[i + 1]
      BY <1>2, <2>1, HeadTailProperties, EmptySeq
    <3>2. ASSUME NEW i \in 1 .. Len(Tail(q)), Tail(q)[i].redraw PROVE Redraws
      <4>1. i + 1 \in 1 .. Len(q) /\ q[i + 1].redraw
        BY <3>1, <3>2
      <4> QED
        BY <4>1
    <3>3. 1 \in 1 .. Len(q)
      BY <3>1
    <3> QED
      BY <2>1, <3>1, <3>2, <3>3
  <2> QED
    BY <1>1, <1>3, <1>13, <2>1, <2>3, <2>4
<1>14. ASSUME PipeBreaks \/ Polls PROVE Goal
  BY <1>6, <1>14 DEF PipeBreaks, Polls, ShutsDown, Disconnected
<1>15. ASSUME ~HearsFrame, Next, RetryMsPass PROVE Goal
  BY <1>5, <1>15 DEF RetryMsPass, lifeVars
<1>20. ASSUME PipeReplaced PROVE Goal
  <2>1. sock' = profile /\ joined' = FALSE /\ UNCHANGED host /\ profile # Nobody
    BY <1>20 DEF PipeReplaced, AliveNow
  <2> QED
    BY <1>19, <2>1
<1>16. ASSUME Next PROVE Goal
  BY <1>7, <1>9, <1>10, <1>11, <1>12, <1>13, <1>14, <1>15, <1>16, <1>20 DEF Next, PipeSteps
<1>17. ASSUME UNCHANGED vars PROVE Goal
  BY <1>1, <1>17 DEF vars, lifeVars, sourceVars, pipeVars
<1>18. stale' \in BOOLEAN
  BY <1>1 DEF Next, History, vars
<1> QED
  BY <1>16, <1>17, <1>18 DEF CopyFollows, Runs

-----------------------------------------------------------------------------
\* However many hosts of the session are started, end, or are killed, one that
\* serves is named by the session's file (ccrc-host.js:378-393), unless a reader
\* of the registry removed the file of another.
THEOREM HostIsFound == Spec => []FileFindsHost
<1>1. Init => Found
  BY HostLifeAssumption DEF Init, LifeInit, Found, OneListens, FileFindsHost, HostState
<1>2. Found => FileFindsHost
  BY DEF Found
<1> QED
  BY <1>1, <1>2, FoundStep, PTL DEF Spec

\* The pty's size is never that of a viewer that has gone, whoever comes, leaves
\* or resizes, and however often the pipe is made anew
\* (pane-source-conpty.js:188-197).
THEOREM SizeIsCurrent == Spec => []SizeIsOfThePresent
<1>1. Init => Sized
  BY DEF Init, SourceInit, Sized, SmallestOf
<1>2. Sized => SizeIsOfThePresent
  BY DEF Sized, SizeIsOfThePresent
<1> QED
  BY <1>1, <1>2, SizedStep, PTL DEF Spec

-----------------------------------------------------------------------------
WsInv == TypeOK /\ Found /\ Sized /\ CopyFollows /\ \A c \in conns : Shows(c)

LEMMA WsInvariant == Spec => []WsInv
<1>1. Init => WsInv
  <2> SUFFICES ASSUME Init PROVE WsInv
    OBVIOUS
  <2>1. LifeTypeOK
    <3>1. screen \in [Hosts -> Seq(1 .. MaxOut)]
      BY EmptySeq DEF Init, LifeInit
    <3>2. host \in [Hosts -> HostState]
      BY DEF Init, LifeInit, HostState
    <3>3. printed \in 0 .. MaxOut /\ faults \in 0 .. MaxFaults
      BY HostLifeAssumption DEF Init, LifeInit
    <3>4. taken \in BOOLEAN /\ overswept \in BOOLEAN /\ profile = Nobody /\ sweep = Nobody
      BY DEF Init, LifeInit
    <3> QED
      BY <3>1, <3>2, <3>3, <3>4 DEF LifeTypeOK
  <2>2. SourceTypeOK
    <3>1. << >> \in Seq(Frame) /\ << >> \in Seq(1 .. MaxOut)
      OBVIOUS
    <3>2. view \in [Conns -> Seq(1 .. MaxOut)] /\ size \in [Conns -> Sizes \cup {0}]
      BY <3>1 DEF Init, SourceInit, NoView
    <3> QED
      BY <3>1, <3>2 DEF Init, SourceInit, SourceTypeOK
  <2>3. Sized
    BY DEF Init, SourceInit, Sized, SmallestOf
  <2>4. CopyFollows /\ \A c \in conns : Shows(c)
    BY DEF Init, SourceInit, CopyFollows
  <2>5. Found
    BY HostLifeAssumption DEF Init, LifeInit, Found, OneListens, FileFindsHost, HostState
  <2> QED
    BY <2>1, <2>2, <2>3, <2>4, <2>5 DEF WsInv, TypeOK
<1>2. WsInv /\ [Next]_vars => WsInv'
  <2> SUFFICES ASSUME WsInv, [Next]_vars PROVE WsInv'
    OBVIOUS
  <2>1. TypeOK' /\ Found' /\ Sized' /\ CopyFollows'
    BY TypesStep, FoundStep, SizedStep, FollowsStep DEF WsInv
  <2>2. \A c \in conns' : Shows(c)'
    BY ShowsStep DEF WsInv, CopyFollows
  <2> QED
    BY <2>1, <2>2 DEF WsInv
<1> QED
  BY <1>1, <1>2, PTL DEF Spec

\* Whenever a viewer comes, and however late the writes into the copy settle, it
\* is shown what the copy will show, no text lost and none twice, as long as it
\* looks at the live screen and did not come back to it in the middle of a write
\* (pane-source-conpty.js:137-150 and :518-523).
THEOREM ViewerSeesAll == Spec => []ViewerShowsAll
<1>1. WsInv => ViewerShowsAll
  BY DEF WsInv, Sized, Shows, ViewerShowsAll
<1> QED
  BY <1>1, WsInvariant, PTL

\* However often the pipe is made anew and hosts follow one another, while the
\* pipe to a living host holds, the copy becomes that host's screen, unless the
\* host joined with an empty screen and the copy has an earlier host's.
THEOREM CopyKeepsUp == Spec => []CopyFollowsHost
<1>1. WsInv => CopyFollowsHost
  BY DEF WsInv, CopyFollows, CopyFollowsHost
<1> QED
  BY <1>1, WsInvariant, PTL

\* A daemon does not tell the viewers that the session ended while a host that
\* can be found by the session's file serves it (pane-source-conpty.js:249-258).
THEOREM OverOnlyAtTheEnd ==
    Spec => [][~over /\ over' => overswept \/ \A h \in Hosts : host[h] # "serving"]_vars
<1> DEFINE Told == ~over /\ over' => overswept \/ \A h \in Hosts : host[h] # "serving"
<1>1. Init => Found
  BY HostLifeAssumption DEF Init, LifeInit, Found, OneListens, FileFindsHost, HostState
<1>2. ASSUME Found, [Next]_vars PROVE [Told]_vars
  <2>1. ~AliveNow => overswept \/ \A h \in Hosts : host[h] # "serving"
    <3>1. \A h \in Hosts : host[h] = "serving" => profile = h \/ overswept
      BY <1>2, Zenon DEF Found, FileFindsHost
    <3>2. ASSUME NEW h \in Hosts, host[h] = "serving", profile = h PROVE AliveNow
      BY <3>2, HostLifeAssumption DEF AliveNow, PidAlive, Runs
    <3> QED
      BY <3>1, <3>2, Zenon
  <2>2. ASSUME ViewerSteps PROVE UNCHANGED over
    BY <2>2 DEF ViewerSteps, Opens, Scrolls, ComesBack, Closes, Resizes
  <2>3. ASSUME PipeSteps, AliveNow PROVE UNCHANGED over
    BY <2>3 DEF PipeSteps, RetryMsPass, HostJoins, HearsFrame, WriteSettles, PipeBreaks, PipeReplaced,
                Disconnected, Polls, HostPrints
  <2> QED
    BY <1>2, <2>1, <2>2, <2>3 DEF Next, sourceVars
<1> QED
  BY <1>1, <1>2, FoundStep, PTL DEF Spec

=============================================================================
