------------------------------ MODULE PairCli ------------------------------
(***************************************************************************)
(* The machine's part in pairing: `/remote pair`, `pair xac-nhan <number>` *)
(* and `unpair` of term/bin/ccrc-term-cli.js, each command a process in    *)
(* some terminal, over the files pairing-pending.json and devices.json,    *)
(* which all of them share (term/src/pending-pair.js, devices.js).         *)
(***************************************************************************)
EXTENDS PairPage, FiniteSets

CONSTANT MaxDevices     \* MAX_DEVICES

ASSUME CommandAssumption == Nobody \notin {"pair", "adds", "differs", "unpair"}

VARIABLES cmd,
          pending,      \* pairing-pending.json
          devices, tmp  \* devices.json and devices.json.tmp

fileVars == <<pending, devices, tmp>>
cliVars == <<cmd, fileVars>>

NoPending == [pair |-> Nobody]
Pending == [pair : Ids, key : Ids, sas : Ids \X Ids \X Cmds]

\* kind: what the command turned out to be, "adds" and "differs" being the
\* confirmations with the expected number and with another.
Cmd == [kind : {Nobody, "pair", "adds", "differs", "unpair"},
        pc : {"none", "seek", "challenge", "await", "rename", "report", "over"},
        pair : Ids \cup {Nobody}, key : Ids \cup {Nobody}]

CliTypeOK ==
    /\ cmd \in [Cmds -> Cmd]
    /\ pending = NoPending \/ pending \in Pending
    /\ devices \in SUBSET Ids
    /\ tmp \in (SUBSET Ids) \cup {Nobody}

CliInit ==
    /\ cmd = [c \in Cmds |-> [kind |-> Nobody, pc |-> "none", pair |-> Nobody, key |-> Nobody]]
    /\ pending = NoPending
    /\ devices = {} /\ tmp = Nobody

Starts(c, kind, pc, pair, key) ==
    /\ cmd[c].pc = "none" /\ \A d \in Cmds : d < c => cmd[d].pc # "none"
    /\ cmd' = [cmd EXCEPT ![c] = [kind |-> kind, pc |-> pc, pair |-> pair, key |-> key]]

At(c, pc) == cmd' = [cmd EXCEPT ![c].pc = pc]
Ends(c) == At(c, "over")

\* cmdPair() first forgets what an earlier one left.
PairBegins(c) ==
    /\ Starts(c, "pair", "seek", Nobody, Nobody)
    /\ pending' = NoPending
    /\ UNCHANGED <<hubVars, pageVars, devices, tmp>>

\* Exactly one request, or none is taken.  Its key is kept from this answer.
SeesPending(c) ==
    /\ cmd[c].pc = "seek"
    /\ \/ Cardinality(PendingIds) > 1 /\ Ends(c)
       \/ \E i \in Ids :
            /\ PendingIds = {i}
            /\ cmd' = [cmd EXCEPT ![c].pc = "challenge", ![c].pair = i, ![c].key = pairs[i].key]
    /\ UNCHANGED <<hubVars, pageVars, fileVars>>

\* POST /api/pair/challenge: refused, or lost on the way there or back.
Challenges(c) ==
    /\ cmd[c].pc = "challenge"
    /\ \/ /\ HubChallenge(cmd[c].pair, c)
          /\ IF InState(cmd[c].pair, "started") THEN At(c, "await") ELSE Ends(c)
          /\ UNCHANGED faults
       \/ HubChallenge(cmd[c].pair, c) /\ Fault /\ Ends(c)
       \/ RequestLost /\ Ends(c)
    /\ UNCHANGED <<pageVars, fileVars>>

\* The loop for the phone's nonce, and what follows it without another await:
\* key and commitment as they were, the commitment opened, the number written
\* down and not shown.
Computed(c) ==
    LET i == cmd[c].pair IN
    [pair |-> i, key |-> cmd[c].key, sas |-> Sas(cmd[c].key, pairs[i].noncePhone, c)]

HearsNoncePhone(c) ==
    /\ cmd[c].pc = "await"
    /\ \/ HubGet(cmd[c].pair) \in {"revealed", "done"} /\ pending' = Computed(c)
       \/ HubGet(cmd[c].pair) \in {"aborted", Nobody} /\ UNCHANGED pending
    /\ Ends(c)
    /\ UNCHANGED <<hubVars, pageVars, devices, tmp>>

LoopGivesUp(c) ==
    /\ cmd[c].pc \in {"seek", "await"}
    /\ Ends(c)
    /\ UNCHANGED <<hubVars, pageVars, fileVars>>

\* readPending(): past its own five minutes the file is as good as gone.
PendingExpires ==
    /\ pending # NoPending
    /\ pending' = NoPending
    /\ Fault
    /\ UNCHANGED <<pairs, pageVars, cmd, devices, tmp>>

\* cmdPairConfirm() with the expected number, read off some phone's screen.
\* addDevice() replaces the entry of a key it knows and refuses a full file.
ConfirmMatches(c) ==
    /\ pending # NoPending
    /\ \E i \in Ids : run[i].shown /\ Number(i) = pending.sas
    /\ pending.key \in devices \/ Cardinality(devices) < MaxDevices
    /\ Starts(c, "adds", "rename", pending.pair, pending.key)
    /\ tmp' = devices \cup {pending.key}
    /\ UNCHANGED <<hubVars, pageVars, pending, devices>>

\* Mutant: after a wrong number one may try again.
TryAgain(c) ==
    /\ pending # NoPending
    /\ Starts(c, "differs", "report", pending.pair, pending.key)
    /\ UNCHANGED <<hubVars, pageVars, fileVars>>

\* cmdPairConfirm() with any other number.
ConfirmDiffers(c) ==
    /\ pending # NoPending
    /\ Starts(c, "differs", "report", pending.pair, pending.key)
    /\ pending' = NoPending
    /\ UNCHANGED <<hubVars, pageVars, devices, tmp>>

\* cmdUnpair(): an entry of the list, gone from the list written back.
Unpair(c) ==
    /\ \E k \in devices :
           Starts(c, "unpair", "rename", Nobody, k) /\ tmp' = devices \ {k}
    /\ UNCHANGED <<hubVars, pageVars, pending, devices>>

\* writeAll() has written the temporary file, whose name all commands share; it
\* renames what is in it by now, or fails for want of it.
Renames(c) ==
    /\ cmd[c].pc = "rename"
    /\ \/ /\ tmp # Nobody
          /\ devices' = tmp /\ tmp' = Nobody
          /\ IF cmd[c].kind = "adds" THEN pending' = NoPending /\ At(c, "report")
             ELSE UNCHANGED pending /\ Ends(c)
       \/ tmp = Nobody /\ Ends(c) /\ UNCHANGED fileVars
    /\ UNCHANGED <<hubVars, pageVars>>

\* reportPairOutcome(): whatever comes of it.
Reports(c) ==
    /\ cmd[c].pc = "report"
    /\ \/ HubFinish(cmd[c].pair, cmd[c].kind = "adds") /\ UNCHANGED faults
       \/ RequestLost
    /\ Ends(c)
    /\ UNCHANGED <<pageVars, fileVars>>

Proceeds(c) == SeesPending(c) \/ Challenges(c) \/ HearsNoncePhone(c) \/ LoopGivesUp(c)
               \/ Renames(c) \/ Reports(c)

\* Ctrl-C, or the terminal goes away.
Killed(c) ==
    /\ cmd[c].pc \notin {"none", "over"}
    /\ Ends(c)
    /\ Fault
    /\ UNCHANGED <<pairs, pageVars, fileVars>>

CliNext ==
    \/ \E c \in Cmds : \/ PairBegins(c) \/ ConfirmMatches(c) \/ ConfirmDiffers(c)
                       \/ Unpair(c) \/ Proceeds(c) \/ Killed(c)
    \/ PendingExpires

=============================================================================
