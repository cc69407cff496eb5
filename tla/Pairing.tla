------------------------------ MODULE Pairing ------------------------------
(***************************************************************************)
(* Hub, phones and machine pairing with each other: what the number says,  *)
(* what a verdict means, and when a phone that remembers a machine is      *)
(* known to it.                                                            *)
(***************************************************************************)
EXTENDS PairCli

CONSTANT MaxStarts      \* bound on taps and commands together

VARIABLES cancelled,    \* history: pairings their phone cancelled
          overlapped    \* history: two commands changed devices.json at once

vars == <<hubVars, pageVars, cliVars, cancelled, overlapped>>

Init ==
    /\ HubInit /\ PageInit /\ CliInit
    /\ cancelled = {} /\ overlapped = FALSE

Changing(c) == cmd[c].pc = "rename"

History ==
    /\ cancelled' = (cancelled \cup {cancelling[p]' : p \in Phones}) \ {Nobody}
    /\ overlapped' = (overlapped \/ \E c, d \in Cmds : c # d /\ Changing(c)' /\ Changing(d)')

Bounded ==
    Cardinality({i \in Ids : run'[i].pc # "none"})
        + Cardinality({c \in Cmds : cmd'[c].pc # "none"}) <= MaxStarts

HubSteps == (HubRestarts \/ \E i \in Ids : Expires(i)) /\ UNCHANGED <<pageVars, cliVars>>

Next ==
    /\ \/ HubSteps
       \/ PageNext /\ UNCHANGED cliVars
       \/ CliNext
    /\ Bounded /\ History

Spec == Init /\ [][Next]_vars

-----------------------------------------------------------------------------
\* Pairings for which a wrong number was typed; whether a device was unpaired.
Wrong == {cmd[c].pair : c \in {d \in Cmds : cmd[d].kind = "differs"}}
Unpaired == \E c \in Cmds : cmd[c].kind = "unpair"

\* Types; with them, that a pairing's nonces are there in the states that have
\* them, which both loops read off the hub's answer.
TypeOK ==
    /\ HubTypeOK /\ PageTypeOK /\ CliTypeOK
    /\ \A i \in DOMAIN pairs :
        /\ pairs[i].state # "started" => pairs[i].nonceMachine # Nobody
        /\ pairs[i].state \in {"revealed", "done", "aborted"} => pairs[i].noncePhone = i

\* Whoever pressed what and in which terminal, the number the machine expects
\* is the one on the screen of the phone it took the key from: a number that
\* differs then means what the program says it means (ccrc-term-cli.js:1281).
NumbersAgree ==
    pending # NoPending => run[pending.pair].key = pending.key /\ Number(pending.pair) = pending.sas

\* A wrong number ends its pairing for good: no later confirmation of the same
\* pairing gets as far as devices.json (ccrc-term-cli.js:1288-1292).
WrongNumberIsFinal ==
    [][\A c \in Cmds : ConfirmMatches(c) => pending.pair \notin Wrong]_vars

\* A phone that offers to open the machine is known to it, by the key it signs
\* with, unless the device was unpaired, two commands changed devices.json at
\* once, or two runs of one page each made a key.
MadeKeys(p) == {i \in Ids : run[i].phone = p /\ run[i].key = i}

RememberedOpens ==
    \A p \in Phones :
        machines[p] => \/ stored[p] \in devices
                       \/ Unpaired \/ overlapped \/ Cardinality(MadeKeys(p)) > 1

\* A phone tells of somebody in the middle only if a wrong number was typed on
\* the machine, or its own user pressed cancel while the answer was under way.
AlarmHasACause ==
    \A i \in Ids : run[i].heard = "aborted" => i \in Wrong \cup cancelled

=============================================================================
