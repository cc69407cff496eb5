------------------------------- MODULE Remote ------------------------------
(***************************************************************************)
(* What the commands of RemoteCli promise: a daemon that serves can be     *)
(* found and stopped, "off" means off, and nobody else is hit.             *)
(***************************************************************************)
EXTENDS RemoteCli

VARIABLES crossed,  \* history: each `on` that ran beside another command on its pane
          misjudged,\* history: daemons of which a probe said there is none
          reused,   \* history: pids that had a second process
          hit       \* history: which command signalled which process

vars == <<cliVars, crossed, misjudged, reused, hit>>

Init == CliInit /\ crossed = {} /\ misjudged = {} /\ reused = {} /\ hit = {}

BusyWith(q) == {c \in Cmds : cmd[c].pc \notin {"none", "over"} /\ cmd[c].pane = q}
Crossing(c) == cmd[c].kind = "on" /\ c \in BusyWith(cmd[c].pane) /\ BusyWith(cmd[c].pane) # {c}

Misjudges(c) == /\ IsOurDaemon(cmd[c].seen.pid)
                /\ \/ Spawns(c)
                   \/ NothingToAsk(c) /\ faults' # faults
                   \/ Verdict(c) /\ StillThere(c) /\ cmd' = Reported(c)

Signals(c) == StopsBySignal(c) \/ (LastNet(c) /\ ToBeShot(cmd[c].seen.pid) /\ faults' = faults)

History ==
    /\ crossed' = crossed \cup {c \in Cmds : Crossing(c)'}
    /\ misjudged' = misjudged \cup {cmd[c].seen.session : c \in {d \in Cmds : Misjudges(d)}}
    /\ reused' = reused \cup {p \in Pids : who'[p] # who[p] /\ who'[p] # Nobody
                                           /\ \E c \in Cmds : cmd[c].kind = "on" /\ cmd[c].seen.pid = p}
    /\ hit' = hit \cup {<<cmd[c].pane, who[cmd[c].seen.pid]>> : c \in {d \in Cmds : Signals(d)}}

Next == CliNext /\ History
Spec == Init /\ [][Next]_vars

-----------------------------------------------------------------------------
RemoteTypeOK == CliTypeOK /\ crossed \cup misjudged \subseteq Cmds /\ reused \subseteq Pids

\* A daemon whose `on` gave up on it, was interrupted, or ran beside another
\* command on the same pane.
Stray(d) == cmd[d].out \in {"gaveup", "killed"} \/ d \in crossed

\* Whatever dies, hangs or is interrupted, and however the commands that stop
\* and look overlap: a daemon that serves a pane is the one its file names, so
\* the next `off` finds it, and none that a command reported as stopped.
\* Exceptions to the first are a stray one, and one whose `on` has not come to
\* the file yet; to both, one of which a failing probe said that it is not ours.
OffFindsAndStops ==
    /\ \A d \in Cmds \ misjudged :
        daemon[d] = "serving" =>
            \/ FileOf(cmd[d].pane) = cmd[d].seen
            \/ cmd[d].pc = "start" \/ Stray(d)
    /\ \A c \in Cmds : \A d \in cmd[c].done \ misjudged : daemon[d] \in {"stopping", "dead"}

\* Only daemons are signalled, however pids are handed out again meanwhile, and
\* no other pane's unless the pid had a second process.
NobodyElseIsHit ==
    \A h \in hit : /\ h[2] \in Cmds
                   /\ cmd[h[2]].pane = h[1] \/ cmd[h[2]].seen.pid \in reused

\* A daemon stops by the file of its pane only if a command asked for its own
\* end, and never by an order that was meant for the one before; a misjudged one
\* may stop by the order for the one that `on` put beside it.
OrderIsItsOwn ==
    [][\A d \in Cmds : SeesStopFile(d) => \/ \E c \in Cmds : d \in cmd[c].aimed
                                          \/ Stray(d) \/ d \in misjudged]_vars

=============================================================================
