------------------------------ MODULE RemoteCli -----------------------------
(***************************************************************************)
(* `/remote on`, `off`, `off-all` and the status commands of               *)
(* term/bin/ccrc-term-cli.js, each a process of its own, over one file per *)
(* pane that names the pane's daemon by its pid, and on Windows a second   *)
(* one that asks it to stop (term/src/win-stop-file.js).  Daemons start,   *)
(* fail, hang and die under them, and the system hands out pids again.     *)
(* A daemon goes by the `on` that spawned it.  Deadlines may pass at any   *)
(* moment.                                                                 *)
(***************************************************************************)
EXTENDS Integers, FiniteSets

CONSTANTS Panes, Pids,
          Cmds,             \* commands, in the order they are typed
          Nobody, Stranger, \* no process; a process that is none of ours
          MaxFaults         \* bound on what dies, hangs, fails, is killed or recycled

ASSUME RemoteAssumption ==
    /\ Cmds \subseteq Nat /\ MaxFaults \in Nat
    /\ Nobody # Stranger /\ {Nobody, Stranger} \cap (Cmds \cup Panes \cup Pids) = {}
    /\ Nobody \notin {"on", "gaveup", "killed"}

VARIABLES LA_WINDOWS,   \* the platform
          who,          \* the process that has a pid
          daemon,       \* the daemon an `on` spawned
          said,         \* the daemons that printed the line "[term] nghe"
          pidFile,      \* .ccrc/term-pane-<id>.pid
          stopFile,     \* the panes with a .ccrc/term-pane-<id>.stop
          cmd,
          faults

files == <<pidFile, stopFile>>
daemons == <<who, daemon, said>>
cliVars == <<LA_WINDOWS, daemons, files, cmd, faults>>

NoFile == [pid |-> Nobody, session |-> Nobody]
File == [pid : Pids, session : Cmds]
Asking == {"off", "offall", "look"}

\* todo: panes still to be dealt with; seen: the file as it was read; aimed:
\* the daemons it asked to stop; done: those it reports as stopped.
Cmd == [kind : Asking \cup {"on", Nobody}, pane : Panes \cup {Nobody}, todo : SUBSET Panes,
        pc : {"none", "next", "judge", "start", "waiting", "final", "dying", "over"},
        seen : File \cup {NoFile}, aimed : SUBSET Cmds, done : SUBSET Cmds,
        out : {Nobody, "on", "failed", "gaveup", "killed"}]

Idle == [kind |-> Nobody, pane |-> Nobody, todo |-> {}, pc |-> "none", seen |-> NoFile,
         aimed |-> {}, done |-> {}, out |-> Nobody]

CliTypeOK ==
    /\ LA_WINDOWS \in BOOLEAN
    /\ who \in [Pids -> Cmds \cup {Nobody, Stranger}]
    /\ daemon \in [Cmds -> {"none", "starting", "serving", "stopping", "dead"}]
    /\ said \subseteq Cmds
    /\ pidFile \in [Panes -> File \cup {NoFile}]
    /\ stopFile \subseteq Panes
    /\ cmd \in [Cmds -> Cmd]
    /\ faults \in 0 .. MaxFaults

CliInit ==
    /\ LA_WINDOWS \in BOOLEAN
    /\ who = [p \in Pids |-> Nobody]
    /\ daemon = [c \in Cmds |-> "none"]
    /\ said = {}
    /\ pidFile = [q \in Panes |-> NoFile]
    /\ stopFile = {}
    /\ cmd = [c \in Cmds |-> Idle]
    /\ faults = 0

Fault == faults < MaxFaults /\ faults' = faults + 1
NoFault == UNCHANGED faults

\* Mutant: one file for all panes.
OneFile(q) == CHOOSE r \in Panes : TRUE

PidFilePath(q) == q
FileOf(q) == pidFile[PidFilePath(q)]
Unlinks(q) == pidFile' = [pidFile EXCEPT ![PidFilePath(q)] = NoFile]

\* isOurDaemon() knows the script a process runs, not the pane it serves; when ps,
\* lsof or PowerShell fails or takes too long it says no, of a daemon too.
\* conSong() knows only that there is a process.
IsOurDaemon(pid) == pid # Nobody /\ who[pid] \in Cmds
SaysNotOurs(pid) == IF IsOurDaemon(pid) THEN Fault ELSE NoFault
ConSong(pid) == who[pid] # Nobody

Becomes(d, state) == daemon' = [daemon EXCEPT ![d] = state]
Frees(d) == who' = [p \in Pids |-> IF who[p] = d THEN Nobody ELSE who[p]]

-----------------------------------------------------------------------------
\* Commands.  daemonInfo() reads the file, then asks the system about the pid.
Starts(c, record) ==
    /\ cmd[c].pc = "none" /\ \A d \in Cmds : d < c => cmd[d].pc # "none"
    /\ cmd' = [cmd EXCEPT ![c] = record]

CmdOn(c, q) ==
    /\ Starts(c, [Idle EXCEPT !.kind = "on", !.pane = q, !.pc = "judge", !.seen = FileOf(q)])
    /\ UNCHANGED <<LA_WINDOWS, daemons, files, faults>>

\* cmdOff() and cmdStatus() deal with one pane, cmdOffAll() and cmdCandidates()
\* with those they find at the start.
CmdAsks(c, kind, panes) ==
    /\ Starts(c, [Idle EXCEPT !.kind = kind, !.todo = panes, !.pc = "next"])
    /\ UNCHANGED <<LA_WINDOWS, daemons, files, faults>>

Filed == {q \in Panes : FileOf(q) # NoFile}

NextPane(c) == [cmd EXCEPT ![c].pc = "next", ![c].pane = Nobody, ![c].seen = NoFile]
Reported(c) == [NextPane(c) EXCEPT ![c].done = @ \cup {cmd[c].seen.session}]

Reads(c) ==
    /\ cmd[c].pc = "next"
    /\ \/ \E q \in cmd[c].todo :
            IF FileOf(q) = NoFile THEN cmd' = [cmd EXCEPT ![c].todo = @ \ {q}]
            ELSE cmd' = [cmd EXCEPT ![c].todo = @ \ {q}, ![c].pane = q, ![c].seen = FileOf(q),
                                    ![c].pc = "judge"]
       \/ cmd[c].todo = {} /\ cmd' = [cmd EXCEPT ![c].pc = "over"]
    /\ UNCHANGED <<LA_WINDOWS, daemons, files, faults>>

\* No daemon of ours, or gone, or so it seems: the file, as it is by now, is
\* thrown away.
Found(c) == IsOurDaemon(cmd[c].seen.pid) /\ NoFault
FoundNone(c) == SaysNotOurs(cmd[c].seen.pid)
Discards(c) == IF cmd[c].seen = NoFile THEN UNCHANGED pidFile ELSE Unlinks(cmd[c].pane)

\* spawn() of `on`.
Spawns(c) ==
    /\ cmd[c].kind = "on" /\ cmd[c].pc = "judge" /\ FoundNone(c)
    /\ Discards(c)
    /\ Becomes(c, "starting")
    /\ \E p \in Pids :
        /\ who[p] = Nobody /\ who' = [who EXCEPT ![p] = c]
        /\ cmd' = [cmd EXCEPT ![c].pc = "start", ![c].seen = [pid |-> p, session |-> c]]
    /\ UNCHANGED <<LA_WINDOWS, said, stopFile>>

AlreadyOn(c) ==
    /\ cmd[c].kind = "on" /\ cmd[c].pc = "judge" /\ Found(c)
    /\ cmd' = [cmd EXCEPT ![c].pc = "over"]
    /\ UNCHANGED <<LA_WINDOWS, daemons, files>>

NothingToAsk(c) ==
    /\ cmd[c].kind \in Asking /\ cmd[c].pc = "judge"
    /\ \/ FoundNone(c) /\ Discards(c)
       \/ Found(c) /\ cmd[c].kind = "look" /\ UNCHANGED pidFile
    /\ cmd' = NextPane(c)
    /\ UNCHANGED <<LA_WINDOWS, daemons, stopFile>>

\* waitForDaemonStart(): the line is there, whatever became of the daemon since.
WritesPidFile(c) ==
    /\ cmd[c].pc = "start" /\ c \in said
    /\ pidFile' = [pidFile EXCEPT ![PidFilePath(cmd[c].pane)] = cmd[c].seen]
    /\ cmd' = [cmd EXCEPT ![c].pc = "over", ![c].out = "on"]
    /\ UNCHANGED <<LA_WINDOWS, daemons, stopFile, faults>>

\* Its 'exit' comes before the line is seen.
StartFails(c) ==
    /\ cmd[c].pc = "start" /\ daemon[c] = "dead"
    /\ cmd' = [cmd EXCEPT ![c].pc = "over", ![c].out = "failed"]
    /\ UNCHANGED <<LA_WINDOWS, daemons, files, faults>>

\* DAEMON_START_TIMEOUT_MS: the command ends, the daemon goes on starting.
StartGivesUp(c) ==
    /\ cmd[c].pc = "start" /\ c \notin said
    /\ cmd' = [cmd EXCEPT ![c].pc = "over", ![c].out = "gaveup"]
    /\ Fault
    /\ UNCHANGED <<LA_WINDOWS, daemons, files>>

\* dungDaemon() on macOS and Linux: SIGTERM, and the file is gone at once.  The
\* handler is installed before the daemon announces itself.
Terminates(p) ==
    IF who[p] \in Cmds THEN Becomes(who[p], "stopping") ELSE UNCHANGED daemon

StopsBySignal(c) ==
    /\ cmd[c].kind \in {"off", "offall"} /\ cmd[c].pc = "judge" /\ Found(c)
    /\ ~LA_WINDOWS
    /\ Terminates(cmd[c].seen.pid)
    /\ Unlinks(cmd[c].pane)
    /\ cmd' = [Reported(c) EXCEPT ![c].aimed = @ \cup {cmd[c].seen.session}]
    /\ UNCHANGED <<LA_WINDOWS, who, said, stopFile>>

\* dungDaemon() on Windows: ask by a file and wait; then terminate what is
\* still there, if it is still a daemon; then see whether it is gone.
WritesStopFile(c) ==
    /\ cmd[c].kind \in {"off", "offall"} /\ cmd[c].pc = "judge" /\ Found(c)
    /\ LA_WINDOWS
    /\ stopFile' = stopFile \cup {cmd[c].pane}
    /\ cmd' = [cmd EXCEPT ![c].pc = "waiting", ![c].aimed = @ \cup {cmd[c].seen.session}]
    /\ UNCHANGED <<LA_WINDOWS, daemons, pidFile>>

WaitsForExit(c) ==
    /\ cmd[c].pc = "waiting"
    /\ IF ConSong(cmd[c].seen.pid) THEN Fault ELSE NoFault
    /\ cmd' = [cmd EXCEPT ![c].pc = "final"]
    /\ UNCHANGED <<LA_WINDOWS, daemons, files>>

ToBeShot(pid) == ConSong(pid) /\ IsOurDaemon(pid)

\* The shot may miss, and the probe may fail before it.
LastNet(c) ==
    /\ cmd[c].pc = "final"
    /\ \/ ToBeShot(cmd[c].seen.pid) /\ Terminates(cmd[c].seen.pid) /\ NoFault
       \/ ToBeShot(cmd[c].seen.pid) /\ UNCHANGED daemon /\ Fault
       \/ ~ToBeShot(cmd[c].seen.pid) /\ UNCHANGED daemon /\ NoFault
    /\ stopFile' = stopFile \ {cmd[c].pane}
    /\ cmd' = [cmd EXCEPT ![c].pc = "dying"]
    /\ UNCHANGED <<LA_WINDOWS, who, said, pidFile>>

\* Mutant: what was shot is dead.
TakenForDead(c) == FALSE

StillThere(c) == ConSong(cmd[c].seen.pid) /\ IsOurDaemon(cmd[c].seen.pid)
FoundDead(c) == IF StillThere(c) THEN Fault ELSE NoFault

Verdict(c) ==
    /\ cmd[c].pc = "dying"
    /\ \/ /\ StillThere(c) /\ Fault
          /\ cmd' = NextPane(c)
          /\ UNCHANGED pidFile
       \/ /\ FoundDead(c)
          /\ Unlinks(cmd[c].pane)
          /\ cmd' = Reported(c)
    /\ UNCHANGED <<LA_WINDOWS, daemons, stopFile>>

\* Ctrl-C, or the terminal goes away.
Interrupted(c) ==
    /\ cmd[c].pc \notin {"none", "over"}
    /\ cmd' = [cmd EXCEPT ![c].pc = "over", ![c].out = "killed"]
    /\ Fault
    /\ UNCHANGED <<LA_WINDOWS, daemons, files>>

-----------------------------------------------------------------------------
\* Daemons.  A fresh one drops an order left by an earlier command, and listens.
\* Mutant: what lies there when a daemon starts is left alone.
OrderStays(d) == UNCHANGED stopFile

DropsOrder(d) == stopFile' = IF LA_WINDOWS THEN stopFile \ {cmd[d].pane} ELSE stopFile

Listens(d) ==
    /\ daemon[d] = "starting"
    /\ DropsOrder(d)
    /\ Becomes(d, "serving")
    /\ said' = said \cup {d}
    /\ UNCHANGED <<LA_WINDOWS, who, pidFile, cmd, faults>>

SeesStopFile(d) ==
    /\ LA_WINDOWS /\ daemon[d] = "serving" /\ cmd[d].pane \in stopFile
    /\ Becomes(d, "stopping")
    /\ UNCHANGED <<LA_WINDOWS, who, said, files, cmd, faults>>

\* shutdown() ends by itself, at the latest when the hub's answer times out.
Exits(d) ==
    /\ daemon[d] = "stopping"
    /\ Becomes(d, "dead") /\ Frees(d)
    /\ UNCHANGED <<LA_WINDOWS, said, files, cmd, faults>>

\* Prerequisites missing, the pane gone, kill -9.
Dies(d) ==
    /\ daemon[d] \in {"starting", "serving"}
    /\ Becomes(d, "dead") /\ Frees(d)
    /\ Fault
    /\ UNCHANGED <<LA_WINDOWS, said, files, cmd>>

\* The system gives a free pid to some other process.
Recycled(p) ==
    /\ who[p] = Nobody
    /\ who' = [who EXCEPT ![p] = Stranger]
    /\ Fault
    /\ UNCHANGED <<LA_WINDOWS, daemon, said, files, cmd>>

-----------------------------------------------------------------------------
Begins(c) ==
    \/ \E q \in Panes : CmdOn(c, q) \/ CmdAsks(c, "off", {q}) \/ CmdAsks(c, "look", {q})
    \/ CmdAsks(c, "offall", Filed) \/ CmdAsks(c, "look", Panes)

Proceeds(c) ==
    \/ Reads(c) \/ Spawns(c) \/ AlreadyOn(c) \/ NothingToAsk(c)
    \/ WritesPidFile(c) \/ StartFails(c) \/ StartGivesUp(c)
    \/ StopsBySignal(c) \/ WritesStopFile(c) \/ WaitsForExit(c) \/ LastNet(c) \/ Verdict(c)
    \/ Interrupted(c)

Lives(d) == Listens(d) \/ SeesStopFile(d) \/ Exits(d) \/ Dies(d)

CliNext ==
    \/ \E c \in Cmds : Begins(c) \/ Proceeds(c) \/ Lives(c)
    \/ \E p \in Pids : Recycled(p)

=============================================================================
