------------------------------ MODULE PaneGroup ----------------------------
(***************************************************************************)
(* The tmux sessions behind one session of the user: every daemon that has *)
(* a phone connected keeps a session grouped with the user's own, makes it *)
(* at the first connection and kills it at the last (term/src/tmux.js and  *)
(* the group's part of term/src/pane-source.js).  Several daemons work on  *)
(* one tmux server at once, each tmux call a step; one that was killed     *)
(* leaves its group behind; the user names, makes and kills sessions too.  *)
(* Daemon and run id go by one number.                                     *)
(***************************************************************************)
EXTENDS Integers, Sequences, FiniteSets

CONSTANTS Daemons,      \* in the order they start
          Unmarked,     \* an empty GROUP_MARKER_OPTION; also whose the session is
          MaxTries,     \* candidate names of claimGroupName()
          MaxDepth,     \* bound on the suffixes of a base name
          MaxConns,     \* bound on the connections of a daemon
          MaxFaults     \* bound on kill -9 and on what the user does

ASSUME GroupAssumption ==
    /\ Daemons \subseteq Nat /\ Unmarked \notin Daemons
    /\ MaxTries \in Nat \ {0} /\ MaxConns \in Nat \ {0}
    /\ MaxDepth \in Nat /\ MaxFaults \in Nat

VARIABLES sess,     \* tmux: the sessions, by name
          run,      \* the daemons
          faults,
          disturbed,\* history: daemons somebody else's doing reached, see History
          beside,   \* history: two daemons were at work at one time
          strayMark \* history: a marker came to be on a session its run did not make

vars == <<sess, run, faults, disturbed, beside, strayMark>>

\* A name is a base name and the numbers appended to it; << >> is the user's
\* session, <<2>> its "-ccrc-web-2", <<1, 1>> its "-ccrc-web-ccrc-web".
User == << >>
Candidate(base, i) == Append(base, i)

\* n is the beginning of m: "-ccrc-web" is that of "-ccrc-web-2" as well.
Begins(n, m) ==
    /\ n # m /\ Len(n) <= Len(m)
    /\ \A k \in 1 .. Len(n) : n[k] = m[k] \/ (k = Len(n) /\ n[k] = 1)

Session == [marker : Daemons \cup {Unmarked}, owner : Daemons \cup {Unmarked}, grouped : BOOLEAN]

\* todo: what reclaimPaneSession() listed; kill: the session killGroupSession()
\* is about to check, or to kill, before the daemon goes on at pc.
Run == [pc : {"none", "idle", "reclaim", "claim", "create", "mark", "verify", "serving",
              "exit", "dead"},
        todo : SUBSET (Seq(Nat) \X Daemons), base : Seq(Nat), i : Nat, name : Seq(Nat),
        kill : {"no", "check", "kill"}, target : Seq(Nat), conns : 0 .. MaxConns]

GroupTypeOK ==
    /\ sess \in [DOMAIN sess -> Session] /\ DOMAIN sess \subseteq Seq(Nat)
    /\ run \in [Daemons -> Run]
    /\ disturbed \subseteq Daemons /\ beside \in BOOLEAN /\ strayMark \in BOOLEAN
    /\ faults \in 0 .. MaxFaults

Idle == [pc |-> "none", todo |-> {}, base |-> User, i |-> 1, name |-> User,
         kill |-> "no", target |-> User, conns |-> 0]

\* The user may already have sessions with names of that shape.
Init ==
    /\ \E own \in SUBSET {Candidate(User, i) : i \in 1 .. MaxTries} :
         sess = [n \in own \cup {User} |->
                    [marker |-> Unmarked, owner |-> Unmarked, grouped |-> n = User]]
    /\ run = [d \in Daemons |-> Idle]
    /\ faults = 0
    /\ disturbed = {} /\ beside = FALSE /\ strayMark = FALSE

Fault == faults < MaxFaults /\ faults' = faults + 1

-----------------------------------------------------------------------------
\* What tmux answers.
Exists(n) == n \in DOMAIN sess
Group == {n \in DOMAIN sess : sess[n].grouped}
GroupSize(n) == IF sess[n].grouped THEN Cardinality(Group) ELSE 0
PaneAlive == Group # {}
Without(n) == [m \in DOMAIN sess \ {n} |-> sess[m]]

Alive(d) == run[d].pc \notin {"none", "dead"}

\* Mutant: whatever carries a marker.
AnyMarker(marker, d) == marker # Unmarked

\* isReclaimableMarker(): one's own run, or one whose process is gone.
IsReclaimableMarker(marker, d) ==
    marker # Unmarked /\ (marker = d \/ run[marker].pc = "dead")

IsOurGroupSession(n) == Exists(n) /\ sess[n].marker # Unmarked

Goes(d, r) == run' = [run EXCEPT ![d] = r]
Serves(d) == run[d].pc = "serving"
Ready(d, pc) == run[d].pc = pc /\ run[d].kill = "no"

\* Mutant: the group is left.
Leaving(d, n, pc) == [run[d] EXCEPT !.pc = pc, !.target = n]

\* The record that goes on at pc once killGroupSession(n) is done.
Killing(d, n, pc) == [run[d] EXCEPT !.pc = pc, !.kill = "check", !.target = n]
Fails(d) == Goes(d, [Idle EXCEPT !.pc = "idle"])

-----------------------------------------------------------------------------
\* killGroupSession(): a look at the marker, then a kill by exact name.
KillChecks(d) ==
    /\ run[d].kill = "check"
    /\ Goes(d, [run[d] EXCEPT !.kill = IF IsOurGroupSession(run[d].target) THEN "kill" ELSE "no"])
    /\ UNCHANGED <<sess, faults>>

Kills(d) ==
    /\ run[d].kill = "kill"
    /\ sess' = Without(run[d].target)
    /\ Goes(d, [run[d] EXCEPT !.kill = "no", !.target = User])
    /\ UNCHANGED faults

DaemonStarts(d) ==
    /\ run[d].pc = "none" /\ \A e \in Daemons : e < d => run[e].pc # "none"
    /\ PaneAlive
    /\ Goes(d, [Idle EXCEPT !.pc = "idle"])
    /\ UNCHANGED <<sess, faults>>

\* Mutant: also one that alone holds the pane.
AllShadows == {<<n, sess[n].marker>> : n \in {m \in Group : sess[m].marker # Unmarked}}

\* A first connection: reclaimPaneSession() lists the sessions with the pane,
Shadows == {<<n, sess[n].marker>> : n \in {m \in Group : sess[m].marker # Unmarked
                                                         /\ GroupSize(m) >= 2}}

FirstAttach(d) ==
    /\ Ready(d, "idle")
    /\ Goes(d, [run[d] EXCEPT !.pc = "reclaim", !.todo = Shadows])
    /\ UNCHANGED <<sess, faults>>

\* removes those it may, one by one,
Reclaims(d) ==
    /\ Ready(d, "reclaim")
    /\ \E s \in run[d].todo :
         LET rest == [run[d] EXCEPT !.todo = @ \ {s}] IN
         Goes(d, IF IsReclaimableMarker(s[2], d)
                 THEN [rest EXCEPT !.kill = "check", !.target = s[1]] ELSE rest)
    /\ UNCHANGED <<sess, faults>>

\* and takes one nobody marked for the user's own.
Real == {n \in Group : sess[n].marker = Unmarked}

FindsBase(d) ==
    /\ Ready(d, "reclaim") /\ run[d].todo = {}
    /\ \/ \E b \in Real : Len(b) <= MaxDepth /\ Goes(d, [run[d] EXCEPT !.pc = "claim", !.base = b, !.i = 1])
       \/ Real = {} /\ Fails(d)
    /\ UNCHANGED <<sess, faults>>

\* A turn of claimGroupName().
Claims(d) ==
    LET n == Candidate(run[d].base, run[d].i) IN
    /\ Ready(d, "claim")
    /\ \/ ~Exists(n) /\ Goes(d, [run[d] EXCEPT !.pc = "create", !.name = n])
       \/ /\ Exists(n) /\ IsReclaimableMarker(sess[n].marker, d)
          /\ Goes(d, [Killing(d, n, "create") EXCEPT !.name = n])
       \/ /\ Exists(n) /\ ~IsReclaimableMarker(sess[n].marker, d)
          /\ IF run[d].i = MaxTries THEN Fails(d) ELSE Goes(d, [run[d] EXCEPT !.i = @ + 1])
    /\ UNCHANGED <<sess, faults>>

\* createGroupSession(): new-session, refused if the name is taken and not
\* grouped with anything if the base is gone; the marker; a look at the result.
NewSession(d) ==
    /\ Ready(d, "create")
    /\ \/ /\ ~Exists(run[d].name)
          /\ sess' = [n \in DOMAIN sess \cup {run[d].name} |->
                        IF n # run[d].name THEN sess[n]
                        ELSE [marker |-> Unmarked, owner |-> d,
                              grouped |-> Exists(run[d].base) /\ sess[run[d].base].grouped]]
          /\ Goes(d, [run[d] EXCEPT !.pc = "mark"])
       \/ Exists(run[d].name) /\ Fails(d) /\ UNCHANGED sess
    /\ UNCHANGED faults

\* set-option's target is not exact: without the session of that name, one
\* whose name begins like it will do.
Meant(n) == IF Exists(n) THEN {n} ELSE {m \in DOMAIN sess : Begins(n, m)}

Marks(d) ==
    /\ Ready(d, "mark")
    /\ \/ \E n \in Meant(run[d].name) :
            /\ sess' = [sess EXCEPT ![n].marker = d]
            /\ Goes(d, [run[d] EXCEPT !.pc = "verify"])
       \/ Meant(run[d].name) = {} /\ Fails(d) /\ UNCHANGED sess
    /\ UNCHANGED faults

Verifies(d) ==
    LET n == run[d].name IN
    /\ Ready(d, "verify")
    /\ IF Exists(n) /\ GroupSize(n) >= 2
       THEN Goes(d, [run[d] EXCEPT !.pc = "serving", !.conns = 1])
       ELSE Goes(d, Killing(d, n, "idle"))
    /\ UNCHANGED <<sess, faults>>

\* Later connections use the group that is there, and count.
Attach(d) ==
    /\ Ready(d, "serving") /\ run[d].conns < MaxConns
    /\ Goes(d, [run[d] EXCEPT !.conns = @ + 1])
    /\ UNCHANGED <<sess, faults>>

\* close(): the last one out kills the group.
LastOut(d) == run[d].conns = 1

Close(d) ==
    /\ Ready(d, "serving")
    /\ IF LastOut(d) THEN Goes(d, [Killing(d, run[d].name, "idle") EXCEPT !.conns = 0])
       ELSE Goes(d, [run[d] EXCEPT !.conns = @ - 1])
    /\ UNCHANGED <<sess, faults>>

\* shutdown() closes every connection, and the process exits.
Shutdown(d) ==
    /\ run[d].kill = "no" /\ run[d].pc \in {"idle", "serving"}
    /\ IF Serves(d) THEN Goes(d, [Killing(d, run[d].name, "exit") EXCEPT !.conns = 0])
       ELSE Goes(d, [run[d] EXCEPT !.pc = "exit"])
    /\ UNCHANGED <<sess, faults>>

Exits(d) ==
    /\ Ready(d, "exit")
    /\ Goes(d, [Idle EXCEPT !.pc = "dead"])
    /\ UNCHANGED <<sess, faults>>

\* kill -9, at any moment.
Dies(d) ==
    /\ Alive(d)
    /\ Goes(d, [Idle EXCEPT !.pc = "dead"])
    /\ Fault
    /\ UNCHANGED sess

\* The user makes a session, with whatever name, or ends one.
UserActs ==
    /\ \/ \E i \in 1 .. MaxTries :
            /\ ~Exists(Candidate(User, i))
            /\ sess' = [n \in DOMAIN sess \cup {Candidate(User, i)} |->
                          IF Exists(n) THEN sess[n]
                          ELSE [marker |-> Unmarked, owner |-> Unmarked, grouped |-> FALSE]]
       \/ \E n \in DOMAIN sess : sess' = Without(n)
    /\ Fault
    /\ UNCHANGED run

-----------------------------------------------------------------------------
SetsUp(d) == FirstAttach(d) \/ Reclaims(d) \/ FindsBase(d) \/ Claims(d) \/ NewSession(d)
             \/ Marks(d) \/ Verifies(d)

AtWork(d) == run[d].kill # "no" \/ run[d].pc \in {"reclaim", "claim", "create", "mark", "verify"}

\* A daemon is disturbed if the user, or a disturbed daemon, makes or ends a session
\* while it is at work, or ends the group it serves with.
Meddling == UserActs \/ \E e \in disturbed : Kills(e)

History ==
    /\ beside' = (beside \/ \E d, e \in Daemons : d # e /\ AtWork(d)' /\ AtWork(e)')
    /\ strayMark' = (strayMark \/ \E n \in DOMAIN sess' :
                                    sess'[n].marker \notin {Unmarked, sess'[n].owner})
    /\ disturbed' = {d \in Daemons :
                        /\ AtWork(d)' \/ Serves(d)'
                        /\ \/ d \in disturbed
                           \/ Meddling /\ (AtWork(d) \/ ~Exists(run[d].name)')}

Next ==
    /\ \/ \E d \in Daemons : \/ DaemonStarts(d) \/ SetsUp(d) \/ Attach(d) \/ Close(d)
                             \/ KillChecks(d) \/ Kills(d) \/ Shutdown(d) \/ Exits(d) \/ Dies(d)
       \/ UserActs
    /\ History

Spec == Init /\ [][Next]_vars

-----------------------------------------------------------------------------
\* Daemons were at work side by side, and one has ended; or a marker strayed.
Astray == (beside /\ \E d \in Daemons : run[d].pc = "dead") \/ strayMark

\* A daemon kills only groups of its own and of runs that are gone: never a
\* session of the user's, whatever its name, nor the group another daemon
\* serves a phone with.  Not so when two daemons were at it side by side after
\* one was killed, or the user made or ended a session just then, and for a
\* session that was given a marker meant for another.
Victim(d) == sess[run[d].target].owner

OnlyItsOwn ==
    [][\A d \in Daemons :
        Kills(d) /\ Exists(run[d].target) =>
            \/ Victim(d) \in {d} \cup {e \in Daemons : ~Alive(e)}
            \/ d \in disturbed \/ Astray]_vars

\* A daemon's group is there while a phone is connected, unless the user ended
\* it; and once the last connection is closed, none of its groups is left.
GroupIsThereForPhones ==
    \A d \in Daemons :
        /\ Serves(d) => \/ Exists(run[d].name) /\ sess[run[d].name].owner = d
                        \/ d \in disturbed \/ Astray
        /\ Ready(d, "idle") /\ ~Astray => \A n \in DOMAIN sess : sess[n].owner # d

\* Two runs were killed or have ended.  reclaimPaneSession() leaves the last session
\* that holds the pane alone, but by the sizes of its listing: of two groups that
\* are gone it kills one after the other.
TwoAreGone == \E d, e \in Daemons : d # e /\ run[d].pc = "dead" /\ run[e].pc = "dead"

\* Only the end of its last connection lets a daemon end the pane itself.  Not so
\* in the cases OnlyItsOwn excepts, and for one that clears up after two.
PaneSurvives ==
    [][\A d \in Daemons : Kills(d) /\ Group = {run[d].target} =>
            run[d].pc \in {"idle", "exit"} \/ d \in disturbed \/ Astray \/ TwoAreGone]_vars

=============================================================================
