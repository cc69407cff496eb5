----------------------------- MODULE WinSession ----------------------------
(***************************************************************************)
(* A session on Windows: its hosts, the file that names them, and a daemon *)
(* that shows the session to browsers.                                     *)
(***************************************************************************)
EXTENDS ConptySource

VARIABLES cutShort, \* history: viewers that came back to the live screen while
                    \* frames were on their way into the copy
          stale     \* history: the copy still shows an earlier host's screen

vars == <<lifeVars, sourceVars, cutShort, stale>>

Init == LifeInit /\ SourceInit /\ cutShort = {} /\ stale = FALSE

HostSteps == \/ \E h \in Hosts : \/ Spawned(h) \/ Listens(h) \/ Registers(h) \/ PipeTaken(h)
                                 \/ Stops(h) \/ Exits(h) \/ Killed(h)
             \/ PidReused \/ PidFreed
             \/ SweepReads \/ SweepRemoves

ViewerSteps == \E c \in Conns : \/ Opens(c) \/ Scrolls(c) \/ ComesBack(c) \/ Closes(c)
                                \/ \E s \in Sizes \cap Screens[c] : Resizes(c, s)

PipeSteps == RetryMsPass \/ HostJoins \/ HearsFrame \/ WriteSettles \/ PipeBreaks \/ PipeReplaced
             \/ Polls \/ \E h \in Hosts : HostPrints(h)

\* A snapshot heard mends both.  A host with nothing on its screen sends none.
History ==
    LET redrawn == HearsFrame /\ Head(q).redraw IN
    /\ cutShort' = IF redrawn THEN {}
                   ELSE (cutShort \cup {c \in Conns : ComesBack(c) /\ dangCho # << >>})
                        \ {c \in Conns : c \notin conns' \/ (ComesBack(c) /\ dangCho = << >>)}
    /\ stale' = IF redrawn THEN FALSE
                ELSE stale \/ (HostJoins /\ q' = << >> /\ Drawn(copy, dangCho) # << >>)

Next ==
    /\ \/ HostSteps /\ UNCHANGED sourceVars
       \/ ViewerSteps
       \/ PipeSteps
    /\ History

\* The poll for the pane is a timer of the daemon.
Spec == Init /\ [][Next]_vars /\ WF_vars(Polls /\ History)

-----------------------------------------------------------------------------
TypeOK == LifeTypeOK /\ SourceTypeOK

\* A viewer is shown everything that was broadcast, whenever it came and however
\* late the copy is: the copy's screen and what is on its way into it, no text
\* lost and none twice; and it stays connected only as long as the pipe is.
ViewerShowsAll ==
    \A c \in conns :
        /\ sock # Nobody
        /\ view[c] = Drawn(copy, dangCho) \/ c \in back \cup cutShort

\* While the pipe holds, the copy becomes the host's screen, also of what was
\* printed when nobody looked.
CopyFollowsHost ==
    sock # Nobody /\ joined /\ Runs(sock) /\ ~stale =>
        Drawn(copy, dangCho \o q) = screen[sock]

\* A host that serves is found by its file, whatever other hosts of the session
\* were started beside it; and what the file names can be connected to now, or
\* has died (ccrc-host.js:378-384 and :429-431).
FileFindsHost ==
    /\ \A h \in Hosts : host[h] = "serving" => profile = h \/ overswept
    /\ profile # Nobody => host[profile] \in {"serving", "dead"}

\* The viewers are told that the session ended only if no host serves it, and
\* once the last host is gone, killed or not, they are told, also if nobody looks
\* at the registry; but not as long as the pid in its file is another process's
\* (pane-source-conpty.js:103-111, :167-170).
OverIsTold ==
    /\ [][~over /\ over' => overswept \/ \A h \in Hosts : host[h] # "serving"]_vars
    /\ (\A h \in Hosts : host[h] = "dead") ~> (over \/ taken)

\* The pty has the smallest of the sizes its viewers declared, and none that is
\* left of a viewer that has gone (pane-source-conpty.js:188-197).  A pipe that took
\* the place of one whose end was not heard waits for the next change of size.
SizeIsOfThePresent ==
    sock # Nobody /\ ~replaced => told = SmallestOf({size[c] : c \in conns} \ {0})

=============================================================================
