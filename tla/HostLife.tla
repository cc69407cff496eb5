------------------------------ MODULE HostLife -----------------------------
(***************************************************************************)
(* The hosts of one session on Windows, from start to end, and the file by *)
(* which others find the one that serves (term/bin/ccrc-host.js,           *)
(* term/src/host-registry.js).  The pipe's name follows from the session,  *)
(* so of two hosts only one can listen.  Readers of the registry remove    *)
(* the file of a host that was killed, once no process has its pid.        *)
(***************************************************************************)
EXTENDS Integers, Sequences, FiniteSets

CONSTANTS Hosts,        \* processes started for the session, one after the other
          Nobody,
          MaxOut,       \* bound on what the session prints
          MaxFaults     \* bound on what fails, is killed or cut off

ASSUME HostLifeAssumption ==
    /\ Hosts \subseteq Nat /\ Nobody \notin Hosts
    /\ MaxOut \in Nat /\ MaxFaults \in Nat

VARIABLES host,     \* the process: its state
          screen,   \* its screen, the texts on it
          printed,  \* how many texts were printed so far
          profile,  \* .ccrc/hosts/<id>.json: the host it names
          sweep,    \* what a reader of the registry found dead, and removes
          taken,    \* another process has been given the pid that it names
          faults,
          overswept \* history: a reader removed the file of another host

lifeVars == <<host, screen, printed, profile, sweep, taken, faults, overswept>>

HostState == {"none", "spawned", "listening", "serving", "leaving", "dead"}

LifeTypeOK ==
    /\ host \in [Hosts -> HostState]
    /\ screen \in [Hosts -> Seq(1 .. MaxOut)]
    /\ printed \in 0 .. MaxOut
    /\ profile \in Hosts \cup {Nobody} /\ sweep \in Hosts \cup {Nobody}
    /\ faults \in 0 .. MaxFaults
    /\ taken \in BOOLEAN /\ overswept \in BOOLEAN

LifeInit ==
    /\ host = [h \in Hosts |-> "none"]
    /\ screen = [h \in Hosts |-> << >>]
    /\ printed = 0
    /\ profile = Nobody /\ sweep = Nobody /\ taken = FALSE
    /\ faults = 0 /\ overswept = FALSE

Fault == faults < MaxFaults /\ faults' = faults + 1

Runs(h) == host[h] \notin {"none", "dead"}

\* pidSong(), defaultIsAlive(): some process has the pid.
PidAlive(h) == Runs(h) \/ (taken /\ h = profile)
HoldsPipe(h) == host[h] \in {"listening", "serving", "leaving"}
PipeFree == \A h \in Hosts : ~HoldsPipe(h)
Becomes(h, state) == host' = [host EXCEPT ![h] = state]
FileNames(h) == profile' = h /\ taken' = (taken /\ h = profile)

-----------------------------------------------------------------------------
\* The process and its pty.
Spawned(h) ==
    /\ host[h] = "none" /\ \A g \in Hosts : g < h => host[g] # "none"
    /\ Becomes(h, "spawned")
    /\ UNCHANGED <<screen, printed, profile, sweep, taken, faults, overswept>>

Listens(h) ==
    /\ host[h] = "spawned" /\ PipeFree
    /\ Becomes(h, "listening")
    /\ UNCHANGED <<screen, printed, profile, sweep, taken, faults, overswept>>

\* writeHost() in the callback of listen(); stop() follows if it fails.
Registers(h) ==
    /\ host[h] = "listening"
    /\ \/ Becomes(h, "serving") /\ FileNames(h) /\ UNCHANGED faults
       \/ Becomes(h, "leaving") /\ Fault /\ UNCHANGED <<profile, taken>>
    /\ UNCHANGED <<screen, printed, sweep, overswept>>

\* Mutant: whatever file is there is taken for its own.
TakenForOwn(h) == Nobody
\* profileWritten: stop() removes the file only if this process wrote it.
AfterStop(h) == IF host[h] = "serving" THEN Nobody ELSE profile

\* server 'error', whether by EADDRINUSE or through stop().
PipeTaken(h) ==
    /\ host[h] = "spawned" /\ ~PipeFree
    /\ Becomes(h, "leaving")
    /\ FileNames(AfterStop(h))
    /\ UNCHANGED <<screen, printed, sweep, faults, overswept>>

\* The command ends, or Ctrl-C: stop(), the file first.
Stops(h) ==
    /\ host[h] \in {"spawned", "listening", "serving"}
    /\ Becomes(h, "leaving")
    /\ FileNames(AfterStop(h))
    /\ UNCHANGED <<screen, printed, sweep, faults, overswept>>

\* The sockets, the pty and the process.
Exits(h) ==
    /\ host[h] = "leaving"
    /\ Becomes(h, "dead")
    /\ screen' = [screen EXCEPT ![h] = << >>]
    /\ UNCHANGED <<printed, profile, sweep, taken, faults, overswept>>

\* TerminateProcess: stop() does not run.
Killed(h) ==
    /\ Runs(h)
    /\ Becomes(h, "dead")
    /\ screen' = [screen EXCEPT ![h] = << >>]
    /\ Fault
    /\ UNCHANGED <<printed, profile, sweep, taken, overswept>>

\* The pid of a dead host is given to another process, which ends in its turn.
\* Only the pid that the file names is ever asked for.
PidReused ==
    /\ profile # Nobody /\ host[profile] = "dead" /\ ~taken
    /\ taken' = TRUE
    /\ UNCHANGED <<host, screen, printed, profile, sweep, faults, overswept>>

PidFreed ==
    /\ taken
    /\ taken' = FALSE
    /\ UNCHANGED <<host, screen, printed, profile, sweep, faults, overswept>>

-----------------------------------------------------------------------------
\* listHosts(), by any command: it reads the file and asks for the pid, and
\* then removes what goes by that name.
SweepReads ==
    /\ sweep = Nobody /\ profile # Nobody /\ ~PidAlive(profile)
    /\ sweep' = profile
    /\ UNCHANGED <<host, screen, printed, profile, taken, faults, overswept>>

SweepRemoves ==
    /\ sweep # Nobody
    /\ FileNames(Nobody) /\ sweep' = Nobody
    /\ overswept' = (overswept \/ profile \notin {sweep, Nobody})
    /\ UNCHANGED <<host, screen, printed, faults>>

=============================================================================
