---------------------------- MODULE ConptySource ---------------------------
(***************************************************************************)
(* The daemon's view of a Windows session: one pipe to the host for all    *)
(* its viewers, a copy of the screen that the pipe feeds, and what each    *)
(* viewer is shown (term/src/pane-source-conpty.js, with the connection    *)
(* handler of term/bin/ccrc-term.js).  The write of a frame into the copy  *)
(* settles later than its broadcast.  How the host joins a new client to   *)
(* its output is LiveStream: the screen at once, then everything printed.  *)
(***************************************************************************)
EXTENDS HostLife, FiniteSetsExt

CONSTANTS Conns,        \* connections of browsers
          Sizes,        \* screen sizes, in one dimension
          Screens       \* bound: those that the screen of each viewer may have

ASSUME ConnAssumption == Conns \cap Hosts = {} /\ Sizes \subseteq Nat \ {0}

VARIABLES sock,     \* the host at the other end of the pipe
          joined,   \* whether that host has taken the connection in
          q,        \* frames under way in the pipe
          rested,   \* RETRY_MS have passed since the last attempt
          copy,     \* the copy's screen
          dangCho,  \* frames broadcast whose write has not settled
          conns,    \* connections that are attached
          view,     \* what each connection's viewer sees
          back,     \* those that look at the history
          size,     \* what each connection declared; 0 is nothing
          khai,     \* the size declared to the host
          told,     \* the size the host was told on this pipe
          replaced, \* history: this pipe took the place of one whose end was not
                    \* heard, and the size declared before was not said again
          over      \* shutdown(): the viewers were told that the session ended

pipeVars == <<sock, joined, q>>
viewVars == <<conns, view, back, size>>
sizeVars == <<khai, told, replaced>>
sourceVars == <<pipeVars, rested, copy, dangCho, viewVars, sizeVars, over>>

\* A frame of output adds a text; a snapshot draws the screen anew.
Output(t) == [redraw |-> FALSE, text |-> <<t>>]
Frame == {Output(t) : t \in 1 .. MaxOut} \cup [redraw : {TRUE}, text : Seq(1 .. MaxOut)]
Snapshot(s) == IF s = << >> THEN << >> ELSE <<[redraw |-> TRUE, text |-> s]>>
Draw(s, f) == IF f.redraw THEN f.text ELSE s \o f.text

\* s after all frames of fs: the last snapshot, or s, and the outputs after it.
Drawn(s, fs) ==
    LET from == Max({0} \cup {i \in 1 .. Len(fs) : fs[i].redraw})
    IN (IF from = 0 THEN s ELSE fs[from].text)
       \o [i \in 1 .. Len(fs) - from |-> fs[from + i].text[1]]

SourceTypeOK ==
    /\ sock \in Hosts \cup {Nobody} /\ joined \in BOOLEAN
    /\ \A fs \in {q, dangCho} : fs \in Seq(Frame)
    /\ rested \in BOOLEAN /\ over \in BOOLEAN /\ replaced \in BOOLEAN
    /\ copy \in Seq(1 .. MaxOut)
    /\ conns \subseteq Conns /\ back \subseteq conns
    /\ view \in [Conns -> Seq(1 .. MaxOut)]
    /\ size \in [Conns -> Sizes \cup {0}]
    /\ khai \in Sizes \cup {0} /\ told \in Sizes \cup {0}

NoView == [c \in Conns |-> << >>]

SourceInit ==
    /\ sock = Nobody /\ joined = FALSE /\ q = << >>
    /\ rested = TRUE /\ over = FALSE
    /\ copy = << >> /\ dangCho = << >>
    /\ conns = {} /\ back = {} /\ view = NoView
    /\ size = [c \in Conns |-> 0]
    /\ khai = 0 /\ told = 0 /\ replaced = FALSE

\* Mutant: the file is enough.
ProfileIsThere == profile # Nobody

AliveNow == profile # Nobody /\ PidAlive(profile)

\* capNhatKichThuoc() for connections with these sizes: the smallest, 0 if none.
SmallestOf(declared) == IF declared = {} THEN 0 ELSE Min(declared)

\* Mutant: nobody left is no reason to speak.
KeepsTheLast(cs, sizes, pipe) ==
    LET declared == {sizes[c] : c \in cs} \ {0} IN
    /\ khai' = IF declared = {} THEN khai ELSE Min(declared)
    /\ told' = IF pipe /\ declared # {} THEN khai' ELSE told
    /\ replaced' = (replaced /\ khai' = khai)

Declares(cs, sizes, pipe) ==
    /\ khai' = SmallestOf({sizes[c] : c \in cs} \ {0})
    /\ told' = IF pipe /\ khai' # khai THEN khai' ELSE told
    /\ replaced' = (replaced /\ khai' = khai)

-----------------------------------------------------------------------------
\* Mutant: the new viewer gets the snapshot only.
SnapshotOnly(c) == view' = [view EXCEPT ![c] = copy]

\* 'connection': the snapshot of the copy, attach() and what it sends after.
Backfill(c) == view' = [view EXCEPT ![c] = Drawn(copy, dangCho)]

\* baoDamOng(): a new pipe, if the last attempt is long enough ago.  alive() has
\* just found the file and its process.
EnsurePipe ==
    \/ sock # Nobody /\ UNCHANGED <<pipeVars, rested>>
    \/ /\ sock = Nobody /\ rested
       /\ sock' = profile /\ joined' = FALSE /\ q' = << >>
       /\ rested' = FALSE

Opens(c) ==
    /\ ~over /\ c \notin conns /\ AliveNow
    /\ EnsurePipe
    /\ Backfill(c)
    /\ conns' = conns \cup {c}
    /\ UNCHANGED <<lifeVars, copy, dangCho, back, size, sizeVars, over>>

RetryMsPass ==
    /\ ~rested /\ rested' = TRUE
    /\ UNCHANGED <<lifeVars, pipeVars, copy, dangCho, viewVars, sizeVars, over>>

\* The host takes the connection in, by the screen it has.
HostJoins ==
    /\ ~over /\ sock # Nobody /\ ~joined /\ host[sock] \in {"listening", "serving"}
    /\ joined' = TRUE
    /\ q' = Snapshot(screen[sock])
    /\ UNCHANGED <<lifeVars, sock, rested, copy, dangCho, viewVars, sizeVars, over>>

HostPrints(h) ==
    /\ host[h] \in {"spawned", "listening", "serving"} /\ printed < MaxOut
    /\ printed' = printed + 1
    /\ screen' = [screen EXCEPT ![h] = Append(@, printed')]
    /\ q' = IF sock = h /\ joined THEN Append(q, Output(printed')) ELSE q
    /\ UNCHANGED <<host, profile, sweep, taken, faults, overswept, sock, joined, rested, copy,
                   dangCho, viewVars, sizeVars, over>>

\* Mutant: nobody looks, nothing is copied.
NapWhenWatched(f) == dangCho' = IF conns = {} THEN dangCho ELSE Append(dangCho, f)

\* napVaPhat(): the write is queued, then every viewer of the live screen is
\* sent the frame; onData drops it for those who look at the history.
Nap(f) == dangCho' = Append(dangCho, f)
Phat(f) == view' = [c \in Conns |-> IF c \in conns \ back THEN Draw(view[c], f) ELSE view[c]]

HearsFrame ==
    /\ ~over /\ sock # Nobody /\ q # << >>
    /\ q' = Tail(q)
    /\ Nap(Head(q)) /\ Phat(Head(q))
    /\ UNCHANGED <<lifeVars, sock, joined, rested, copy, conns, back, size, sizeVars, over>>

\* screen.write() settles.
WriteSettles ==
    /\ dangCho # << >>
    /\ copy' = Draw(copy, Head(dangCho))
    /\ dangCho' = Tail(dangCho)
    /\ UNCHANGED <<lifeVars, pipeVars, rested, viewVars, sizeVars, over>>

\* ccrc_scroll, into the history or deeper.
Scrolls(c) ==
    /\ c \in conns /\ copy # << >>
    /\ back' = back \cup {c}
    /\ UNCHANGED <<lifeVars, pipeVars, rested, copy, dangCho, conns, view, size, sizeVars, over>>

\* showHistory(0), by ccrc_scroll or by typing: the snapshot of the copy.
ComesBack(c) ==
    /\ c \in conns /\ copy # << >>
    /\ back' = back \ {c}
    /\ view' = [view EXCEPT ![c] = copy]
    /\ UNCHANGED <<lifeVars, pipeVars, rested, copy, dangCho, conns, size, sizeVars, over>>

Resizes(c, s) ==
    /\ c \in conns
    /\ size' = [size EXCEPT ![c] = s]
    /\ Declares(conns, size', sock # Nobody)
    /\ UNCHANGED <<lifeVars, pipeVars, rested, copy, dangCho, conns, view, back, over>>

Without(cs) ==
    /\ conns' = conns \ cs /\ back' = back \ cs
    /\ view' = [c \in Conns |-> IF c \in cs THEN << >> ELSE view[c]]
    /\ size' = [c \in Conns |-> IF c \in cs THEN 0 ELSE size[c]]

Closes(c) ==
    /\ c \in conns
    /\ Without({c})
    /\ Declares(conns', size, sock # Nobody)
    /\ UNCHANGED <<lifeVars, pipeVars, rested, copy, dangCho, over>>

Disconnected ==
    /\ sock' = Nobody /\ joined' = FALSE /\ q' = << >>
    /\ khai' = 0 /\ told' = 0 /\ replaced' = FALSE

\* shutdown(): every viewer gets 4001.
ShutsDown ==
    /\ over' = TRUE
    /\ Disconnected
    /\ Without(conns)

\* onGone without an end of the session: 1011 and close(), for each viewer.
LosesViewers == Without(conns)

\* The host is gone, or the pipe broke, the host refused the secret or gave the
\* connection up.
PipeFails ==
    /\ sock # Nobody
    /\ \/ host[sock] \notin {"listening", "serving"} /\ UNCHANGED faults
       \/ Fault

\* ongDut(): whether the session ended is settled first.  Without a viewer nobody
\* asks, and it is left to the poll.
PipeBreaks ==
    /\ PipeFails
    /\ IF AliveNow \/ conns = {}
       THEN Disconnected /\ LosesViewers /\ UNCHANGED over
       ELSE ShutsDown
    /\ UNCHANGED <<host, screen, printed, profile, sweep, taken, overswept, rested, copy, dangCho>>

\* baoDamOng() in a read, with the socket destroyed but its 'close' still to come:
\* the old socket is not heard any more, and what was declared is not said again.
PipeReplaced ==
    /\ ~over /\ rested /\ AliveNow
    /\ PipeFails
    /\ sock' = profile /\ joined' = FALSE /\ q' = << >>
    /\ rested' = FALSE
    /\ told' = 0 /\ replaced' = (khai # 0)
    /\ UNCHANGED <<host, screen, printed, profile, sweep, taken, overswept, copy, dangCho,
                   viewVars, khai, over>>

\* The poll for the pane.
Polls ==
    /\ ~over /\ ~AliveNow
    /\ ShutsDown
    /\ UNCHANGED <<lifeVars, rested, copy, dangCho>>

=============================================================================
