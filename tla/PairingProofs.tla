---------------------------- MODULE PairingProofs ----------------------------
(***************************************************************************)
(* Theorems about Pairing, for every set of phones, pairings and commands: *)
(* the two numbers agree, a wrong one is final, the alarm has a cause, and *)
(* a phone that remembers the machine is known to it.                      *)
(***************************************************************************)
EXTENDS Pairing, FiniteSetTheorems, TLAPS

(* A run whose page knows the machine's nonce, and may show the number.    *)
Told == {"watch", "asked", "remember", "over"}
Settled == {"revealed", "done", "aborted"}

(* What the two processes have done at each place of their programs.       *)
RunsInOrder ==
    \A i \in Ids :
        /\ run[i].pc = "none" => run[i].phone = Nobody
        /\ run[i].pc # "none" => run[i].phone \in Phones
        /\ run[i].pc \in {"none", "keygen"} => run[i].key = Nobody
        /\ run[i].pc \notin {"none", "keygen", "over"} => run[i].key \in Ids
        /\ run[i].heard # Nobody => run[i].pc \in {"asked", "watch", "remember"} /\ run[i].key \in Ids

CmdsInOrder ==
    \A c \in Cmds :
        /\ cmd[c].pc = "none" => cmd[c].kind = Nobody
        /\ cmd[c].pc \in {"seek", "challenge", "await"} => cmd[c].kind = "pair"
        /\ cmd[c].pc = "rename" => cmd[c].kind \in {"adds", "unpair"}
        /\ cmd[c].pc = "report" => cmd[c].kind \in {"adds", "differs"}
        /\ cmd[c].pc \in {"challenge", "await", "report"} => cmd[c].pair \in Ids
        /\ cmd[c].kind \in {"adds", "differs"} => cmd[c].pair \in Ids /\ cmd[c].key \in Ids

(* A pairing goes by the key of the run that started it, and is started    *)
(* once.                                                                   *)
KeysAgree ==
    /\ \A i \in DOMAIN pairs : /\ run[i].pc \notin {"none", "keygen", "start"}
                               /\ run[i].key = pairs[i].key
    /\ \A c \in Cmds : cmd[c].pair \in Ids =>
           /\ run[cmd[c].pair].pc \notin {"none", "keygen", "start"}
           /\ run[cmd[c].pair].key = cmd[c].key

(* The first nonce handed in stays, and both sides heard that one.         *)
NoncesAgree ==
    /\ \A i \in DOMAIN pairs :
        /\ pairs[i].state = "started" => pairs[i].nonceMachine = Nobody
        /\ run[i].pc = "reveal" \/ pairs[i].state \in Settled
              => run[i].nonceMachine = pairs[i].nonceMachine /\ pairs[i].state # "started"
        /\ pairs[i].state \in Settled => run[i].pc \in Told
    /\ \A c \in Cmds : cmd[c].pc = "await" /\ cmd[c].pair \in DOMAIN pairs =>
           /\ pairs[cmd[c].pair].nonceMachine = c
           /\ pairs[cmd[c].pair].state # "started"

(* Once the number of a pairing was written down, no command waits for the *)
(* phone's nonce any more, so it is written down once.                     *)
WrittenDown(i) == i \in Wrong \/ (pending # NoPending /\ i = pending.pair)

WrittenOnce ==
    /\ \A i \in Ids : WrittenDown(i) =>
           /\ run[i].pc \in Told
           /\ i \in DOMAIN pairs =>
                 /\ pairs[i].state # "started"
                 /\ \A c \in Cmds : ~(cmd[c].pc = "await" /\ cmd[c].pair = i)
    /\ pending # NoPending => pending.pair \notin Wrong

PendingAgrees == pending # NoPending => run[pending.pair].pc \in Told /\ NumbersAgree

(* Who says "aborted" has it from a wrong number or a cancellation.        *)
AbortsHaveACause ==
    /\ \A i \in DOMAIN pairs : pairs[i].state = "aborted" => i \in Wrong \cup cancelled
    /\ \A p \in Phones : cancelling[p] \in Ids => cancelling[p] \in cancelled
    /\ AlarmHasACause

(* The keys of a phone are those its runs made.                            *)
KeysAreMade ==
    /\ \A i \in Ids : run[i].key \in Ids => run[i].key \in MadeKeys(run[i].phone)
    /\ \A p \in Phones : stored[p] = Nobody \/ stored[p] \in MadeKeys(p)
    /\ \A i \in Ids : run[i].key \in Ids => stored[run[i].phone] # Nobody

(* Whoever says "done" has it from a command that added the key.           *)
Known(k) == k \in devices \/ Unpaired \/ overlapped

DoneIsKnown ==
    /\ \A i \in DOMAIN pairs : pairs[i].state = "done" => Known(run[i].key)
    /\ \A i \in Ids : run[i].heard = "done" => Known(run[i].key)
    /\ \A c \in Cmds : cmd[c].pc = "report" /\ cmd[c].kind = "adds" => Known(cmd[c].key)
    /\ \A p \in Phones : machines[p] =>
          \E i \in Ids : run[i].phone = p /\ run[i].key \in Ids /\ Known(run[i].key)

(* A command that changes the file alone keeps what was in it.             *)
OneChanges ==
    ~overlapped =>
        /\ \A c, d \in Cmds : Changing(c) /\ Changing(d) => c = d
        /\ ~Unpaired => \A c \in Cmds : Changing(c) =>
                           devices \subseteq tmp /\ cmd[c].key \in tmp

(* Only so many runs were ever begun.                                      *)
Begun == {i \in Ids : run[i].pc # "none"}
FewRuns == IsFiniteSet(Begun)

PaInv ==
    /\ TypeOK /\ RunsInOrder /\ CmdsInOrder /\ KeysAgree
    /\ NoncesAgree /\ WrittenOnce /\ PendingAgrees /\ AbortsHaveACause
    /\ KeysAreMade /\ OneChanges /\ DoneIsKnown /\ FewRuns
-----------------------------------------------------------------------------
(* What a step may do to a run, a pairing, a command and the files.        *)
RunMoves(i) ==
    \/ run'[i] = run[i]
    \/ /\ run[i].pc = "none"
       /\ UNCHANGED stored
       /\ \E p \in Phones :
            run'[i] = [run[i] EXCEPT !.phone = p, !.key = stored[p],
                                     !.pc = IF stored[p] = Nobody THEN "keygen" ELSE "start"]
    \/ /\ run[i].pc = "keygen"
       /\ run'[i] = [run[i] EXCEPT !.key = i, !.pc = "start"]
       /\ stored' = [stored EXCEPT ![run[i].phone] = i]
    \/ run[i].pc = "start" /\ run'[i] = [run[i] EXCEPT !.pc = "wait"]
    \/ /\ run[i].pc = "wait" /\ i \in DOMAIN pairs /\ pairs[i].nonceMachine # Nobody
       /\ run'[i] = [run[i] EXCEPT !.pc = "reveal", !.nonceMachine = pairs[i].nonceMachine]
    \/ run[i].pc = "reveal" /\ run'[i] = [run[i] EXCEPT !.pc = "watch", !.shown = TRUE]
    \/ run[i].pc = "watch" /\ run'[i] = [run[i] EXCEPT !.pc = "asked", !.heard = HubGet(i)]
    \/ run[i].pc = "asked" /\ run'[i] = [run[i] EXCEPT !.pc = "watch"]
    \/ run[i].pc = "asked" /\ run'[i] = [run[i] EXCEPT !.pc = "remember"]
    \/ run[i].pc # "none" /\ run'[i] = [run[i] EXCEPT !.pc = "over", !.heard = Nobody]

PairMoves(i) ==
    \/ i \in DOMAIN pairs /\ pairs'[i] = pairs[i]
    \/ /\ i \notin DOMAIN pairs /\ run[i].pc = "start" /\ run'[i].pc \in {"wait", "over"}
       /\ pairs'[i] = [key |-> run[i].key, state |-> "started", nonceMachine |-> Nobody,
                       noncePhone |-> Nobody]
    \/ /\ InState(i, "started")
       /\ \E c \in Cmds :
            /\ cmd[c].pc = "challenge" /\ cmd[c].pair = i
            /\ pairs'[i] = [pairs[i] EXCEPT !.state = "challenged", !.nonceMachine = c]
    \/ /\ InState(i, "challenged") /\ run[i].pc = "reveal" /\ run'[i].pc \in {"watch", "over"}
       /\ pairs'[i] = [pairs[i] EXCEPT !.state = "revealed", !.noncePhone = i]
    \/ /\ InState(i, "revealed")
       /\ \E c \in Cmds : cmd[c].pc = "report" /\ cmd[c].kind = "adds" /\ cmd[c].pair = i
       /\ pairs'[i] = [pairs[i] EXCEPT !.state = "done"]
    \/ /\ InState(i, "revealed")
       /\ \/ \E c \in Cmds : cmd[c].pc = "report" /\ cmd[c].kind # "adds" /\ cmd[c].pair = i
          \/ \E p \in Phones : cancelling'[p] = i
       /\ pairs'[i] = [pairs[i] EXCEPT !.state = "aborted"]

CmdMoves(c) ==
    \/ cmd'[c] = cmd[c]
    \/ /\ cmd[c].pc = "none"
       /\ cmd'[c] = [kind |-> "pair", pc |-> "seek", pair |-> Nobody, key |-> Nobody]
    \/ /\ cmd[c].pc = "none" /\ pending # NoPending
       /\ cmd'[c] = [kind |-> "adds", pc |-> "rename", pair |-> pending.pair, key |-> pending.key]
       /\ tmp' = devices \cup {pending.key} /\ UNCHANGED devices
    \/ /\ cmd[c].pc = "none" /\ pending # NoPending
       /\ cmd'[c] = [kind |-> "differs", pc |-> "report", pair |-> pending.pair,
                     key |-> pending.key]
       /\ pending' = NoPending
    \/ /\ cmd[c].pc = "none"
       /\ \E k \in devices :
            cmd'[c] = [kind |-> "unpair", pc |-> "rename", pair |-> Nobody, key |-> k]
    \/ /\ cmd[c].pc = "seek"
       /\ \E i \in DOMAIN pairs :
            /\ pairs[i].state = "started"
            /\ cmd'[c] = [cmd[c] EXCEPT !.pc = "challenge", !.pair = i, !.key = pairs[i].key]
    \/ /\ cmd[c].pc = "challenge" /\ InState(cmd[c].pair, "started")
       /\ pairs' = [pairs EXCEPT ![cmd[c].pair] =
                       [pairs[cmd[c].pair] EXCEPT !.state = "challenged", !.nonceMachine = c]]
       /\ cmd'[c] = [cmd[c] EXCEPT !.pc = "await"]
    \/ /\ Changing(c) /\ cmd[c].kind = "adds" /\ tmp # Nobody /\ devices' = tmp
       /\ cmd'[c] = [cmd[c] EXCEPT !.pc = "report"]
    \/ cmd[c].pc # "none" /\ cmd'[c] = [cmd[c] EXCEPT !.pc = "over"]

PendingMoves ==
    \/ UNCHANGED pending
    \/ pending' = NoPending
    \/ \E c \in Cmds :
         /\ cmd[c].pc = "await" /\ cmd'[c].pc = "over"
         /\ cmd[c].pair \in DOMAIN pairs /\ pairs[cmd[c].pair].state \in {"revealed", "done"}
         /\ pending' = Computed(c)

FilesMove ==
    \/ UNCHANGED <<devices, tmp>>
    \/ /\ UNCHANGED devices
       /\ \E c \in Cmds : ~Changing(c) /\ Changing(c)'
       /\ \E k \in Ids : tmp' = devices \cup {k} \/ tmp' = devices \ {k}
    \/ /\ tmp # Nobody /\ devices' = tmp /\ tmp' = Nobody
       /\ \E c \in Cmds : Changing(c) /\ ~Changing(c)'
-----------------------------------------------------------------------------
(* What the actions do, one at a time.                                     *)
LEMMA TypedRuns ==
    ASSUME TypeOK, NEW i \in Ids
    PROVE  /\ run \in [Ids -> Run] /\ run[i] \in Run
           /\ run[i].phone \in Phones \cup {Nobody} /\ run[i].key \in Ids \cup {Nobody}
           /\ run[i].pc \in {"none", "keygen", "start", "wait", "reveal", "watch", "asked",
                            "remember", "over"}
           /\ run[i].heard \in {Nobody, "started", "challenged", "revealed", "done", "aborted"}
           /\ run[i].shown \in BOOLEAN /\ run[i].nonceMachine \in Cmds \cup {Nobody}
  BY DEF TypeOK, PageTypeOK, Run

LEMMA TypedPairs ==
    ASSUME TypeOK, NEW i \in DOMAIN pairs
    PROVE  /\ i \in Ids /\ pairs[i] \in Pair /\ pairs[i].key \in Ids
           /\ pairs[i].state \in {"started", "challenged", "revealed", "done", "aborted"}
           /\ pairs[i].nonceMachine \in Cmds \cup {Nobody}
           /\ pairs[i].noncePhone \in Ids \cup {Nobody}
           /\ pairs[i].state # "started" => pairs[i].nonceMachine # Nobody
           /\ pairs[i].state \in Settled => pairs[i].noncePhone = i
  BY DEF TypeOK, HubTypeOK, Pair, Settled

LEMMA TypedCmds ==
    ASSUME TypeOK, NEW c \in Cmds
    PROVE  /\ cmd \in [Cmds -> Cmd] /\ cmd[c] \in Cmd
           /\ cmd[c].kind \in {Nobody, "pair", "adds", "differs", "unpair"}
           /\ cmd[c].pc \in {"none", "seek", "challenge", "await", "rename", "report", "over"}
           /\ cmd[c].pair \in Ids \cup {Nobody} /\ cmd[c].key \in Ids \cup {Nobody}
  BY DEF TypeOK, CliTypeOK, Cmd

LEMMA TypedPending ==
    ASSUME TypeOK, pending # NoPending
    PROVE  /\ pending \in Pending /\ pending.pair \in Ids /\ pending.key \in Ids
  BY DEF TypeOK, CliTypeOK, Pending

(* A step of the page moves one run, or ends all runs of one phone.        *)
LEMMA RunStep ==
    ASSUME TypeOK, RunsInOrder, Next
    PROVE  run' \in [Ids -> Run] /\ \A j \in Ids : RunMoves(j)
<1>. DEFINE Goal == run' \in [Ids -> Run] /\ \A j \in Ids : RunMoves(j)
<1>1. run \in [Ids -> Run] /\ stored \in [Phones -> Ids \cup {Nobody}]
  BY DEF TypeOK, PageTypeOK
<1>2. ASSUME NEW i \in Ids, run' \in [Ids -> Run], RunMoves(i),
             \A j \in Ids \ {i} : run'[j] = run[j]
      PROVE  Goal
  BY <1>2 DEF RunMoves
<1>3. CASE UNCHANGED run
  BY <1>1, <1>3 DEF RunMoves
<1>4. ASSUME NEW i \in Ids, run[i].pc # "none", IsOver(i) PROVE Goal
  <2>1. /\ run' \in [Ids -> Run] /\ run'[i] = [run[i] EXCEPT !.pc = "over", !.heard = Nobody]
        /\ \A j \in Ids \ {i} : run'[j] = run[j]
    BY <1>1, <1>4 DEF IsOver, Run
  <2>2. RunMoves(i)
    BY <1>4, <2>1 DEF RunMoves
  <2>. QED
    BY <1>2, <2>1, <2>2
<1>5. ASSUME NEW p \in Phones, NEW i \in Ids, TapPair(p, i) PROVE Goal
  <2>1. /\ run[i].pc = "none" /\ UNCHANGED stored
        /\ run' = [run EXCEPT ![i].phone = p, ![i].key = stored[p],
                              ![i].pc = IF stored[p] = Nobody THEN "keygen" ELSE "start"]
    BY <1>5 DEF TapPair
  <2>2. /\ run'[i] = [run[i] EXCEPT !.phone = p, !.key = stored[p],
                                    !.pc = IF stored[p] = Nobody THEN "keygen" ELSE "start"]
        /\ \A j \in Ids \ {i} : run'[j] = run[j]
    BY <1>1, <2>1
  <2>3. run' \in [Ids -> Run]
    BY <1>1, <2>1 DEF Run
  <2>4. RunMoves(i)
    BY <2>1, <2>2 DEF RunMoves
  <2>. QED
    BY <1>2, <2>2, <2>3, <2>4
<1>6. ASSUME NEW i \in Ids, StoresKey(i) PROVE Goal
  <2>1. /\ run[i].pc = "keygen" /\ run'[i] = [run[i] EXCEPT !.key = i, !.pc = "start"]
        /\ stored' = [stored EXCEPT ![run[i].phone] = i]
        /\ run' \in [Ids -> Run] /\ \A j \in Ids \ {i} : run'[j] = run[j]
    BY <1>1, <1>6 DEF StoresKey, Run
  <2>2. RunMoves(i)
    BY <2>1 DEF RunMoves
  <2>. QED
    BY <1>2, <2>1, <2>2
<1>7. ASSUME NEW i \in Ids, StartSent(i) PROVE Goal
  <2>1. CASE run' = [run EXCEPT ![i].pc = "wait"]
    <3>1. /\ run[i].pc = "start" /\ run'[i] = [run[i] EXCEPT !.pc = "wait"]
          /\ run' \in [Ids -> Run] /\ \A j \in Ids \ {i} : run'[j] = run[j]
      BY <1>1, <1>7, <2>1 DEF StartSent, Run
    <3>. QED
      BY <1>2, <3>1 DEF RunMoves
  <2>. QED
    BY <1>4, <1>7, <2>1 DEF StartSent
<1>8. ASSUME NEW i \in Ids, HearsNonce(i) PROVE Goal
  <2>1. pairs[i].nonceMachine \in Cmds \cup {Nobody}
    BY <1>8, TypedPairs DEF HearsNonce, Live
  <2>2. /\ run[i].pc = "wait" /\ i \in DOMAIN pairs /\ pairs[i].nonceMachine # Nobody
        /\ run'[i] = [run[i] EXCEPT !.pc = "reveal", !.nonceMachine = pairs[i].nonceMachine]
        /\ run' \in [Ids -> Run] /\ \A j \in Ids \ {i} : run'[j] = run[j]
    BY <1>1, <1>8, <2>1 DEF HearsNonce, Live, Run
  <2>3. RunMoves(i)
    BY <2>2 DEF RunMoves
  <2>. QED
    BY <1>2, <2>2, <2>3
<1>9. ASSUME NEW i \in Ids, Reveals(i) PROVE Goal
  <2>1. CASE run' = [run EXCEPT ![i].pc = "watch", ![i].shown = TRUE]
    <3>1. /\ run[i].pc = "reveal" /\ run'[i] = [run[i] EXCEPT !.pc = "watch", !.shown = TRUE]
          /\ run' \in [Ids -> Run] /\ \A j \in Ids \ {i} : run'[j] = run[j]
      BY <1>1, <1>9, <2>1 DEF Reveals, Run
    <3>. QED
      BY <1>2, <3>1 DEF RunMoves
  <2>. QED
    BY <1>4, <1>9, <2>1 DEF Reveals
<1>10. ASSUME NEW i \in Ids, AsksVerdict(i) PROVE Goal
  <2>1. CASE run' = [run EXCEPT ![i].pc = "asked", ![i].heard = HubGet(i)]
    <3>1. HubGet(i) \in {Nobody, "started", "challenged", "revealed", "done", "aborted"}
      BY TypedPairs DEF HubGet, Live
    <3>2. /\ run[i].pc = "watch" /\ run'[i] = [run[i] EXCEPT !.pc = "asked", !.heard = HubGet(i)]
          /\ run' \in [Ids -> Run] /\ \A j \in Ids \ {i} : run'[j] = run[j]
      BY <1>1, <1>10, <2>1, <3>1 DEF AsksVerdict, Run
    <3>3. RunMoves(i)
      BY <3>2 DEF RunMoves
    <3>. QED
      BY <1>2, <3>2, <3>3
  <2>. QED
    BY <1>4, <1>10, <2>1 DEF AsksVerdict
<1>11. ASSUME NEW i \in Ids, HearsVerdict(i) PROVE Goal
  <2>1. ASSUME NEW pc \in {"remember", "watch"}, Goes(i, pc) PROVE Goal
    <3>1. /\ run[i].pc = "asked" /\ run'[i] = [run[i] EXCEPT !.pc = pc]
          /\ run' \in [Ids -> Run] /\ \A j \in Ids \ {i} : run'[j] = run[j]
      BY <1>1, <1>11, <2>1 DEF HearsVerdict, Goes, Run
    <3>2. RunMoves(i)
      BY <3>1 DEF RunMoves
    <3>. QED
      BY <1>2, <3>1, <3>2
  <2>. QED
    BY <1>4, <1>11, <2>1 DEF HearsVerdict
<1>12. ASSUME NEW i \in Ids, WaitGivesUp(i) \/ Remembered(i) \/ WatchGivesUp(i) \/ WatchFails(i)
       PROVE  Goal
  BY <1>4, <1>12 DEF WaitGivesUp, Remembered, WatchGivesUp, WatchFails
<1>13. ASSUME NEW p \in Phones, PageReloads(p) PROVE Goal
  <2>1. run' = [i \in Ids |-> IF run[i].phone = p
                             THEN [run[i] EXCEPT !.pc = "over", !.heard = Nobody] ELSE run[i]]
    BY <1>13 DEF PageReloads
  <2>2. ASSUME NEW j \in Ids PROVE run'[j] \in Run /\ RunMoves(j)
    <3>1. CASE run[j].phone = p
      <4>1. run[j].pc # "none"
        BY <3>1, PhoneAssumption DEF RunsInOrder
      <4>2. run'[j] = [run[j] EXCEPT !.pc = "over", !.heard = Nobody] /\ run[j] \in Run
        BY <1>1, <2>1, <3>1
      <4>. QED
        BY <4>1, <4>2 DEF RunMoves, Run
    <3>2. CASE run[j].phone # p
      BY <1>1, <2>1, <3>2 DEF RunMoves
    <3>. QED
      BY <3>1, <3>2
  <2>. QED
    BY <2>1, <2>2
<1>14. CASE PageNext
  <2>1. ASSUME NEW i \in Ids, Continues(i) PROVE Goal
    BY <2>1, <1>6, <1>7, <1>8, <1>9, <1>10, <1>11, <1>12 DEF Continues
  <2>2. ASSUME NEW p \in Phones, Cancels(p) \/ Cancelled(p) PROVE Goal
    BY <2>2, <1>3 DEF Cancels, Cancelled
  <2>. QED
    BY <1>14, <2>1, <2>2, <1>5, <1>12, <1>13 DEF PageNext
<1>15. CASE CliNext \/ HubSteps
  <2>1. UNCHANGED run
    BY <1>15 DEF CliNext, HubSteps, pageVars, PairBegins, ConfirmMatches, ConfirmDiffers, Unpair,
         Proceeds, Killed, SeesPending, Challenges, HearsNoncePhone, LoopGivesUp, Renames, Reports,
         PendingExpires
  <2>. QED
    BY <2>1, <1>3
<1>. QED
  BY <1>14, <1>15 DEF Next

(* The hub keeps or changes one pairing.                                   *)
LEMMA OnePair ==
    ASSUME NEW STATE i, NEW state, NEW STATE changed, InOrder(i, state, changed)
    PROVE  /\ DOMAIN pairs' = DOMAIN pairs
           /\ \A j \in DOMAIN pairs :
                \/ pairs'[j] = pairs[j]
                \/ j = i /\ InState(i, state) /\ pairs'[j] = changed
<1>1. CASE InState(i, state)
  <2>1. pairs' = [pairs EXCEPT ![i] = changed]
    BY <1>1 DEF InOrder
  <2>. QED
    BY <1>1, <2>1
<1>2. CASE ~InState(i, state)
  BY <1>2 DEF InOrder
<1>. QED
  BY <1>1, <1>2

LEMMA PairStep ==
    ASSUME TypeOK, RunsInOrder, CmdsInOrder, KeysAgree, Next
    PROVE  DOMAIN pairs' \subseteq Ids /\ \A j \in DOMAIN pairs' : PairMoves(j)
<1>. DEFINE Goal == DOMAIN pairs' \subseteq Ids /\ \A j \in DOMAIN pairs' : PairMoves(j)
<1>1. DOMAIN pairs \subseteq Ids /\ run \in [Ids -> Run]
  BY DEF TypeOK, HubTypeOK, PageTypeOK
<1>2. CASE UNCHANGED pairs
  BY <1>1, <1>2 DEF PairMoves
<1>3. ASSUME NEW i \in Ids, NEW k, HubStart(i, k), run[i].pc = "start", run[i].key = k,
             run'[i].pc \in {"wait", "over"}
      PROVE  Goal
  <2>1. i \notin DOMAIN pairs
    BY <1>3 DEF KeysAgree
  <2>2. /\ DOMAIN pairs' = DOMAIN pairs \cup {i}
        /\ \A j \in DOMAIN pairs : pairs'[j] = pairs[j]
        /\ pairs'[i] = [key |-> k, state |-> "started", nonceMachine |-> Nobody,
                        noncePhone |-> Nobody]
    BY <1>3, <2>1 DEF HubStart, Live
  <2>. QED
    BY <1>1, <1>3, <2>1, <2>2 DEF PairMoves
<1>4. ASSUME NEW i \in Ids, StartSent(i) PROVE Goal
  <2>1. CASE HubStart(i, run[i].key)
    <3>1. run[i].pc = "start" /\ run'[i].pc \in {"wait", "over"}
      BY <1>1, <1>4 DEF StartSent, IsOver, Run
    <3>. QED
      BY <1>3, <2>1, <3>1
  <2>2. CASE UNCHANGED pairs
    BY <1>2, <2>2
  <2>. QED
    BY <1>4, <2>1, <2>2 DEF StartSent, RequestLost
<1>5. ASSUME NEW i \in Ids, Reveals(i) PROVE Goal
  <2>1. run[i].pc = "reveal" /\ run'[i].pc \in {"watch", "over"}
    BY <1>1, <1>5 DEF Reveals, IsOver, Run
  <2>2. CASE HubReveal(i)
    <3>1. /\ DOMAIN pairs' = DOMAIN pairs
          /\ \A j \in DOMAIN pairs :
                \/ pairs'[j] = pairs[j]
                \/ j = i /\ InState(i, "challenged")
                   /\ pairs'[j] = [pairs[i] EXCEPT !.state = "revealed", !.noncePhone = i]
      BY <2>2, OnePair DEF HubReveal
    <3>. QED
      BY <1>1, <2>1, <3>1 DEF PairMoves
  <2>3. CASE UNCHANGED pairs
    BY <1>2, <2>3
  <2>. QED
    BY <1>5, <2>2, <2>3 DEF Reveals, RequestLost
<1>6. ASSUME NEW p \in Phones, Cancels(p) PROVE Goal
  <2>1. CASE HubFinish(pendingPair[p], FALSE)
    <3>1. /\ DOMAIN pairs' = DOMAIN pairs
          /\ \A j \in DOMAIN pairs :
                \/ pairs'[j] = pairs[j]
                \/ j = pendingPair[p] /\ InState(j, "revealed")
                   /\ pairs'[j] = [pairs[j] EXCEPT !.state = "aborted"]
      BY <2>1, OnePair DEF HubFinish
    <3>2. cancelling'[p] = pendingPair[p]
      BY <1>6 DEF Cancels, TypeOK, PageTypeOK
    <3>. QED
      BY <1>1, <3>1, <3>2 DEF PairMoves
  <2>2. CASE UNCHANGED pairs
    BY <1>2, <2>2
  <2>. QED
    BY <1>6, <2>1, <2>2 DEF Cancels, RequestLost
<1>7. ASSUME NEW c \in Cmds, Challenges(c) PROVE Goal
  <2>1. CASE HubChallenge(cmd[c].pair, c)
    <3>. DEFINE i == cmd[c].pair
    <3>1. /\ DOMAIN pairs' = DOMAIN pairs
          /\ \A j \in DOMAIN pairs :
                \/ pairs'[j] = pairs[j]
                \/ j = i /\ InState(j, "started")
                   /\ pairs'[j] = [pairs[j] EXCEPT !.state = "challenged", !.nonceMachine = c]
      <4>1. InOrder(i, "started", [pairs[i] EXCEPT !.state = "challenged", !.nonceMachine = c])
        BY <2>1 DEF HubChallenge
      <4>2. /\ DOMAIN pairs' = DOMAIN pairs
            /\ \A j \in DOMAIN pairs :
                  \/ pairs'[j] = pairs[j]
                  \/ /\ j = i /\ InState(i, "started")
                     /\ pairs'[j] = [pairs[i] EXCEPT !.state = "challenged", !.nonceMachine = c]
        BY <4>1, OnePair
      <4>. QED
        BY <4>2
    <3>2. cmd[c].pc = "challenge"
      BY <1>7 DEF Challenges
    <3>. QED
      BY <1>1, <3>1, <3>2 DEF PairMoves
  <2>2. CASE UNCHANGED pairs
    BY <1>2, <2>2
  <2>. QED
    BY <1>7, <2>1, <2>2 DEF Challenges, RequestLost
<1>8. ASSUME NEW c \in Cmds, Reports(c) PROVE Goal
  <2>1. CASE HubFinish(cmd[c].pair, cmd[c].kind = "adds")
    <3>. DEFINE i == cmd[c].pair
    <3>1. /\ DOMAIN pairs' = DOMAIN pairs
          /\ \A j \in DOMAIN pairs :
                \/ pairs'[j] = pairs[j]
                \/ j = i /\ InState(j, "revealed")
                   /\ pairs'[j] = [pairs[j] EXCEPT !.state =
                                     IF cmd[c].kind = "adds" THEN "done" ELSE "aborted"]
      BY <2>1, OnePair DEF HubFinish
    <3>2. cmd[c].pc = "report"
      BY <1>8 DEF Reports
    <3>3. CASE cmd[c].kind = "adds"
      BY <1>1, <3>1, <3>2, <3>3 DEF PairMoves
    <3>4. CASE cmd[c].kind # "adds"
      BY <1>1, <3>1, <3>2, <3>4 DEF PairMoves
    <3>. QED
      BY <3>3, <3>4
  <2>2. CASE UNCHANGED pairs
    BY <1>2, <2>2
  <2>. QED
    BY <1>8, <2>1, <2>2 DEF Reports, RequestLost
<1>9. ASSUME HubRestarts \/ \E i \in Ids : Expires(i) PROVE Goal
  BY <1>1, <1>9 DEF HubRestarts, Expires, Live, PairMoves
<1>10. CASE PageNext
  <2>1. ASSUME NEW i \in Ids, Continues(i) \/ WatchGivesUp(i) \/ WatchFails(i) PROVE Goal
    BY <2>1, <1>2, <1>4, <1>5 DEF Continues, StoresKey, HearsNonce, WaitGivesUp, AsksVerdict,
       HearsVerdict, Remembered, WatchGivesUp, WatchFails, hubVars
  <2>2. ASSUME NEW p \in Phones,
               (\E i \in Ids : TapPair(p, i)) \/ Cancels(p) \/ Cancelled(p) \/ PageReloads(p)
        PROVE  Goal
    BY <2>2, <1>2, <1>6 DEF TapPair, Cancelled, PageReloads, hubVars
  <2>. QED
    BY <1>10, <2>1, <2>2 DEF PageNext
<1>11. CASE CliNext
  <2>1. ASSUME NEW c \in Cmds, Proceeds(c) PROVE Goal
    BY <2>1, <1>2, <1>7, <1>8 DEF Proceeds, SeesPending, HearsNoncePhone, LoopGivesUp, Renames, hubVars
  <2>2. ASSUME NEW c \in Cmds,
               PairBegins(c) \/ ConfirmMatches(c) \/ ConfirmDiffers(c) \/ Unpair(c) \/ Killed(c)
        PROVE  UNCHANGED pairs
    BY <2>2 DEF PairBegins, ConfirmMatches, ConfirmDiffers, Unpair, Killed, hubVars
  <2>3. PendingExpires => UNCHANGED pairs
    BY DEF PendingExpires
  <2>. QED
    BY <1>11, <1>2, <2>1, <2>2, <2>3 DEF CliNext
<1>. QED
  BY <1>9, <1>10, <1>11 DEF Next, HubSteps

LEMMA CmdStep ==
    ASSUME TypeOK, CmdsInOrder, Next
    PROVE  cmd' \in [Cmds -> Cmd] /\ \A d \in Cmds : CmdMoves(d)
<1>. DEFINE Goal == cmd' \in [Cmds -> Cmd] /\ \A d \in Cmds : CmdMoves(d)
<1>1. cmd \in [Cmds -> Cmd]
  BY DEF TypeOK, CliTypeOK
<1>2. ASSUME NEW c \in Cmds, cmd' \in [Cmds -> Cmd], CmdMoves(c),
             \A d \in Cmds \ {c} : cmd'[d] = cmd[d]
      PROVE  Goal
  BY <1>2 DEF CmdMoves
<1>3. CASE UNCHANGED cmd
  BY <1>1, <1>3 DEF CmdMoves
<1>4. ASSUME NEW c \in Cmds, NEW r \in Cmd, cmd' = [cmd EXCEPT ![c] = r], cmd'[c] = r => CmdMoves(c)
      PROVE  Goal
  <2>1. cmd' \in [Cmds -> Cmd] /\ cmd'[c] = r /\ \A d \in Cmds \ {c} : cmd'[d] = cmd[d]
    BY <1>1, <1>4
  <2>. QED
    BY <1>2, <1>4, <2>1
<1>5. ASSUME NEW c \in Cmds, cmd[c].pc # "none", Ends(c) PROVE Goal
  <2>1. /\ cmd' \in [Cmds -> Cmd] /\ cmd'[c] = [cmd[c] EXCEPT !.pc = "over"]
        /\ \A d \in Cmds \ {c} : cmd'[d] = cmd[d]
    BY <1>1, <1>5 DEF Ends, At, Cmd
  <2>. QED
    BY <1>2, <1>5, <2>1 DEF CmdMoves
<1>6. ASSUME NEW c \in Cmds, PairBegins(c) PROVE Goal
  <2>. DEFINE r == [kind |-> "pair", pc |-> "seek", pair |-> Nobody, key |-> Nobody]
  <2>1. cmd[c].pc = "none" /\ cmd' = [cmd EXCEPT ![c] = r] /\ r \in Cmd
    BY <1>6 DEF PairBegins, Starts, Cmd
  <2>2. cmd'[c] = r => CmdMoves(c)
    BY <2>1 DEF CmdMoves
  <2>. QED
    BY <1>4, <2>1, <2>2
<1>7. ASSUME NEW c \in Cmds, ConfirmMatches(c) PROVE Goal
  <2>. DEFINE r == [kind |-> "adds", pc |-> "rename", pair |-> pending.pair, key |-> pending.key]
  <2>1. /\ cmd[c].pc = "none" /\ cmd' = [cmd EXCEPT ![c] = r] /\ pending # NoPending
        /\ tmp' = devices \cup {pending.key} /\ UNCHANGED devices
    BY <1>7 DEF ConfirmMatches, Starts
  <2>2. r \in Cmd
    BY <2>1, TypedPending DEF Cmd
  <2>3. cmd'[c] = r => CmdMoves(c)
    BY <2>1 DEF CmdMoves
  <2>. QED
    BY <1>4, <2>1, <2>2, <2>3
<1>8. ASSUME NEW c \in Cmds, ConfirmDiffers(c) PROVE Goal
  <2>. DEFINE r == [kind |-> "differs", pc |-> "report", pair |-> pending.pair, key |-> pending.key]
  <2>1. /\ cmd[c].pc = "none" /\ cmd' = [cmd EXCEPT ![c] = r] /\ pending # NoPending
        /\ pending' = NoPending
    BY <1>8 DEF ConfirmDiffers, Starts
  <2>2. r \in Cmd
    BY <2>1, TypedPending DEF Cmd
  <2>3. cmd'[c] = r => CmdMoves(c)
    BY <2>1 DEF CmdMoves
  <2>. QED
    BY <1>4, <2>1, <2>2, <2>3
<1>9. ASSUME NEW c \in Cmds, Unpair(c) PROVE Goal
  <2>1. PICK k \in devices : Starts(c, "unpair", "rename", Nobody, k)
    BY <1>9 DEF Unpair
  <2>. DEFINE r == [kind |-> "unpair", pc |-> "rename", pair |-> Nobody, key |-> k]
  <2>2. cmd[c].pc = "none" /\ cmd' = [cmd EXCEPT ![c] = r]
    BY <2>1 DEF Starts
  <2>3. r \in Cmd
    BY DEF Cmd, TypeOK, CliTypeOK
  <2>4. cmd'[c] = r => CmdMoves(c)
    BY <2>2 DEF CmdMoves
  <2>. QED
    BY <1>4, <2>2, <2>3, <2>4
<1>10. ASSUME NEW c \in Cmds, SeesPending(c) PROVE Goal
  <2>1. cmd[c].pc = "seek"
    BY <1>10 DEF SeesPending
  <2>2. ASSUME NEW i \in Ids, PendingIds = {i},
               cmd' = [cmd EXCEPT ![c].pc = "challenge", ![c].pair = i, ![c].key = pairs[i].key]
        PROVE  Goal
    <3>1. i \in DOMAIN pairs /\ pairs[i].state = "started" /\ pairs[i].key \in Ids
      BY <2>2, TypedPairs DEF PendingIds, Live
    <3>2. /\ cmd'[c] = [cmd[c] EXCEPT !.pc = "challenge", !.pair = i, !.key = pairs[i].key]
          /\ cmd' \in [Cmds -> Cmd] /\ \A d \in Cmds \ {c} : cmd'[d] = cmd[d]
      BY <1>1, <2>2, <3>1 DEF Cmd
    <3>3. CmdMoves(c)
      BY <2>1, <3>1, <3>2 DEF CmdMoves
    <3>. QED
      BY <1>2, <3>2, <3>3
  <2>. QED
    BY <1>5, <1>10, <2>1, <2>2 DEF SeesPending
<1>11. ASSUME NEW c \in Cmds, Challenges(c) PROVE Goal
  <2>1. cmd[c].pc = "challenge"
    BY <1>11 DEF Challenges
  <2>2. CASE HubChallenge(cmd[c].pair, c) /\ InState(cmd[c].pair, "started") /\ At(c, "await")
    <3>1. pairs' = [pairs EXCEPT ![cmd[c].pair] =
                      [pairs[cmd[c].pair] EXCEPT !.state = "challenged", !.nonceMachine = c]]
      BY <2>2 DEF HubChallenge, InOrder
    <3>2. /\ cmd'[c] = [cmd[c] EXCEPT !.pc = "await"]
          /\ cmd' \in [Cmds -> Cmd] /\ \A d \in Cmds \ {c} : cmd'[d] = cmd[d]
      BY <1>1, <2>2 DEF At, Cmd
    <3>3. CmdMoves(c)
      BY <2>1, <2>2, <3>1, <3>2 DEF CmdMoves
    <3>. QED
      BY <1>2, <3>2, <3>3
  <2>. QED
    BY <1>5, <1>11, <2>1, <2>2 DEF Challenges
<1>12. ASSUME NEW c \in Cmds, Renames(c) PROVE Goal
  <2>1. cmd[c].pc = "rename"
    BY <1>12 DEF Renames
  <2>2. CASE tmp # Nobody /\ devices' = tmp /\ cmd[c].kind = "adds" /\ At(c, "report")
    <3>1. /\ cmd'[c] = [cmd[c] EXCEPT !.pc = "report"]
          /\ cmd' \in [Cmds -> Cmd] /\ \A d \in Cmds \ {c} : cmd'[d] = cmd[d]
      BY <1>1, <2>2 DEF At, Cmd
    <3>2. CmdMoves(c)
      BY <2>1, <2>2, <3>1 DEF CmdMoves, Changing
    <3>. QED
      BY <1>2, <3>1, <3>2
  <2>. QED
    BY <1>5, <1>12, <2>1, <2>2 DEF Renames
<1>13. ASSUME NEW c \in Cmds, HearsNoncePhone(c) \/ LoopGivesUp(c) \/ Reports(c) \/ Killed(c)
       PROVE  Goal
  BY <1>5, <1>13 DEF HearsNoncePhone, LoopGivesUp, Reports, Killed
<1>14. CASE CliNext
  <2>1. ASSUME NEW c \in Cmds, Proceeds(c) PROVE Goal
    BY <2>1, <1>10, <1>11, <1>12, <1>13 DEF Proceeds
  <2>2. PendingExpires => UNCHANGED cmd
    BY DEF PendingExpires
  <2>. QED
    BY <1>14, <2>1, <2>2, <1>3, <1>6, <1>7, <1>8, <1>9, <1>13 DEF CliNext
<1>15. CASE (PageNext /\ UNCHANGED cliVars) \/ HubSteps
  BY <1>3, <1>15 DEF HubSteps, cliVars
<1>. QED
  BY <1>14, <1>15 DEF Next

LEMMA PendingStep ==
    ASSUME TypeOK, CmdsInOrder, Next
    PROVE  PendingMoves
<1>1. cmd \in [Cmds -> Cmd]
  BY DEF TypeOK, CliTypeOK
<1>2. ASSUME NEW c \in Cmds, HearsNoncePhone(c) PROVE PendingMoves
  <2>1. CASE HubGet(cmd[c].pair) \in {"revealed", "done"} /\ pending' = Computed(c)
    <3>1. cmd[c].pc = "await" /\ cmd'[c].pc = "over"
      BY <1>1, <1>2 DEF HearsNoncePhone, Ends, At
    <3>2. cmd[c].pair \in DOMAIN pairs
      BY <2>1, PairAssumption DEF HubGet, Live
    <3>. QED
      BY <2>1, <3>1, <3>2 DEF PendingMoves, HubGet, Live
  <2>. QED
    BY <1>2, <2>1 DEF HearsNoncePhone, PendingMoves
<1>3. ASSUME NEW c \in Cmds, ~HearsNoncePhone(c), Proceeds(c) PROVE PendingMoves
  BY <1>3 DEF Proceeds, SeesPending, Challenges, LoopGivesUp, Renames, Reports, fileVars, PendingMoves
<1>4. ASSUME NEW c \in Cmds,
             PairBegins(c) \/ ConfirmMatches(c) \/ ConfirmDiffers(c) \/ Unpair(c) \/ Killed(c)
      PROVE  PendingMoves
  BY <1>4 DEF PairBegins, ConfirmMatches, ConfirmDiffers, Unpair, Killed, fileVars, PendingMoves
<1>5. CASE CliNext
  BY <1>2, <1>3, <1>4, <1>5 DEF CliNext, PendingExpires, PendingMoves
<1>6. CASE (PageNext /\ UNCHANGED cliVars) \/ HubSteps
  BY <1>6 DEF HubSteps, cliVars, fileVars, PendingMoves
<1>. QED
  BY <1>5, <1>6 DEF Next

LEMMA FilesStep ==
    ASSUME TypeOK, CmdsInOrder, Next
    PROVE  FilesMove
<1>1. cmd \in [Cmds -> Cmd] /\ devices \in SUBSET Ids
  BY DEF TypeOK, CliTypeOK
<1>2. ASSUME NEW c \in Cmds, ConfirmMatches(c) PROVE FilesMove
  <2>1. ~Changing(c) /\ Changing(c)'
    BY <1>1, <1>2 DEF ConfirmMatches, Starts, Changing
  <2>2. pending.key \in Ids
    BY <1>2, TypedPending DEF ConfirmMatches
  <2>. QED
    BY <1>2, <2>1, <2>2 DEF ConfirmMatches, FilesMove
<1>3. ASSUME NEW c \in Cmds, Unpair(c) PROVE FilesMove
  <2>1. PICK k \in devices : Starts(c, "unpair", "rename", Nobody, k) /\ tmp' = devices \ {k}
    BY <1>3 DEF Unpair
  <2>2. ~Changing(c) /\ Changing(c)'
    BY <1>1, <2>1 DEF Starts, Changing
  <2>. QED
    BY <1>1, <1>3, <2>1, <2>2 DEF Unpair, FilesMove
<1>4. ASSUME NEW c \in Cmds, Renames(c) PROVE FilesMove
  <2>1. CASE tmp # Nobody /\ devices' = tmp /\ tmp' = Nobody /\ (At(c, "report") \/ Ends(c))
    <3>1. Changing(c) /\ ~Changing(c)'
      BY <1>1, <1>4, <2>1 DEF Renames, At, Ends, Changing, Cmd
    <3>. QED
      BY <2>1, <3>1 DEF FilesMove
  <2>2. CASE UNCHANGED fileVars
    BY <2>2 DEF fileVars, FilesMove
  <2>. QED
    BY <1>4, <2>1, <2>2 DEF Renames
<1>5. ASSUME NEW c \in Cmds, ~Renames(c), Proceeds(c) PROVE FilesMove
  BY <1>5 DEF Proceeds, SeesPending, Challenges, HearsNoncePhone, LoopGivesUp, Reports, fileVars,
     FilesMove
<1>6. ASSUME NEW c \in Cmds, PairBegins(c) \/ ConfirmDiffers(c) \/ Killed(c) PROVE FilesMove
  BY <1>6 DEF PairBegins, ConfirmDiffers, Killed, fileVars, FilesMove
<1>7. CASE CliNext
  BY <1>2, <1>3, <1>4, <1>5, <1>6, <1>7 DEF CliNext, PendingExpires, FilesMove
<1>8. CASE (PageNext /\ UNCHANGED cliVars) \/ HubSteps
  BY <1>8 DEF HubSteps, cliVars, fileVars, FilesMove
<1>. QED
  BY <1>7, <1>8 DEF Next

(* The rest of the page's state.                                           *)
StoredMoves ==
    \/ UNCHANGED stored
    \/ \E i \in Ids : /\ run[i].pc = "keygen" /\ run[i].phone \in Phones
                      /\ stored' = [stored EXCEPT ![run[i].phone] = i]
                      /\ run'[i].key = i /\ run'[i].phone = run[i].phone

MachinesMove ==
    \/ UNCHANGED machines
    \/ \E i \in Ids : /\ run[i].pc = "asked" /\ run[i].heard = "done" /\ run[i].phone \in Phones
                      /\ machines' = [machines EXCEPT ![run[i].phone] = TRUE]

LEMMA PageStep ==
    ASSUME TypeOK, RunsInOrder, Next
    PROVE  /\ StoredMoves /\ MachinesMove
           /\ pendingPair' \in [Phones -> Ids \cup {Nobody}]
           /\ cancelling' \in [Phones -> Ids \cup {Nobody}]
<1>. DEFINE Goal == /\ StoredMoves /\ MachinesMove
                    /\ pendingPair' \in [Phones -> Ids \cup {Nobody}]
                    /\ cancelling' \in [Phones -> Ids \cup {Nobody}]
<1>1. /\ run \in [Ids -> Run] /\ pendingPair \in [Phones -> Ids \cup {Nobody}]
      /\ cancelling \in [Phones -> Ids \cup {Nobody}]
      /\ \A i \in Ids : run[i].pc # "none" => run[i].phone \in Phones
  BY DEF TypeOK, PageTypeOK, RunsInOrder
<1>2. CASE UNCHANGED <<stored, machines, pendingPair, cancelling>>
  BY <1>1, <1>2 DEF StoredMoves, MachinesMove
<1>3. ASSUME NEW i \in Ids, StoresKey(i) PROVE Goal
  <2>1. /\ run[i].pc = "keygen" /\ run[i].phone \in Phones
        /\ stored' = [stored EXCEPT ![run[i].phone] = i]
        /\ run'[i].key = i /\ run'[i].phone = run[i].phone
    BY <1>1, <1>3 DEF StoresKey, Run
  <2>. QED
    BY <1>1, <1>3, <2>1 DEF StoresKey, StoredMoves, MachinesMove
<1>4. ASSUME NEW i \in Ids, Reveals(i) \/ HearsVerdict(i) \/ Remembered(i) PROVE Goal
  <2>1. run[i].phone \in Phones
    BY <1>1, <1>4 DEF Reveals, HearsVerdict, Remembered
  <2>2. pendingPair' \in [Phones -> Ids \cup {Nobody}] /\ UNCHANGED <<stored, cancelling>>
    BY <1>1, <1>4, <2>1 DEF Reveals, HearsVerdict, Remembered
  <2>3. MachinesMove
    BY <1>4, <2>1 DEF Reveals, HearsVerdict, Remembered, MachinesMove
  <2>. QED
    BY <1>1, <2>2, <2>3 DEF StoredMoves
<1>5. ASSUME NEW p \in Phones, Cancels(p) \/ Cancelled(p) \/ PageReloads(p) PROVE Goal
  BY <1>1, <1>5 DEF Cancels, Cancelled, PageReloads, StoredMoves, MachinesMove
<1>6. ASSUME NEW i \in Ids, \/ StartSent(i) \/ HearsNonce(i) \/ WaitGivesUp(i)
                            \/ AsksVerdict(i) \/ WatchGivesUp(i) \/ WatchFails(i)
      PROVE  Goal
  BY <1>2, <1>6 DEF StartSent, HearsNonce, WaitGivesUp, AsksVerdict, WatchGivesUp, WatchFails
<1>7. ASSUME NEW p \in Phones, NEW i \in Ids, TapPair(p, i) PROVE Goal
  BY <1>2, <1>7 DEF TapPair
<1>8. CASE PageNext
  BY <1>3, <1>4, <1>5, <1>6, <1>7, <1>8 DEF PageNext, Continues
<1>9. CASE CliNext \/ HubSteps
  <2>1. UNCHANGED pageVars
    BY <1>9 DEF CliNext, HubSteps, PairBegins, ConfirmMatches, ConfirmDiffers, Unpair,
         Proceeds, Killed, SeesPending, Challenges, HearsNoncePhone, LoopGivesUp, Renames, Reports,
         PendingExpires
  <2>. QED
    BY <1>2, <2>1 DEF pageVars
<1>. QED
  BY <1>8, <1>9 DEF Next

LEMMA FaultsStep ==
    ASSUME TypeOK, Next
    PROVE  faults' \in 0 .. MaxFaults
<1>1. CASE Fault \/ UNCHANGED faults
  BY <1>1, PairAssumption DEF Fault, TypeOK, HubTypeOK
<1>2. ASSUME NEW i \in Ids, Continues(i) \/ WatchGivesUp(i) \/ WatchFails(i)
      PROVE  Fault \/ UNCHANGED faults
  BY <1>2 DEF Continues, StoresKey, StartSent, RequestLost, HearsNonce, WaitGivesUp, Reveals,
     AsksVerdict, HearsVerdict, Remembered, WatchGivesUp, WatchFails, hubVars
<1>3. ASSUME NEW p \in Phones,
             (\E i \in Ids : TapPair(p, i)) \/ Cancels(p) \/ Cancelled(p) \/ PageReloads(p)
      PROVE  Fault \/ UNCHANGED faults
  BY <1>3 DEF TapPair, Cancels, Cancelled, PageReloads, RequestLost, hubVars
<1>4. ASSUME NEW c \in Cmds, Proceeds(c)
      PROVE  Fault \/ UNCHANGED faults
  BY <1>4 DEF Proceeds, SeesPending, Challenges, HearsNoncePhone, LoopGivesUp, Renames, Reports,
     RequestLost, hubVars
<1>5. ASSUME NEW c \in Cmds,
             PairBegins(c) \/ ConfirmMatches(c) \/ ConfirmDiffers(c) \/ Unpair(c) \/ Killed(c)
      PROVE  Fault \/ UNCHANGED faults
  BY <1>5 DEF PairBegins, ConfirmMatches, ConfirmDiffers, Unpair, Killed, hubVars
<1>6. PendingExpires \/ HubSteps => Fault
  BY DEF PendingExpires, HubSteps, HubRestarts, Expires
<1>7. PageNext => Fault \/ UNCHANGED faults
  BY <1>2, <1>3 DEF PageNext
<1>8. CliNext => Fault \/ UNCHANGED faults
  BY <1>4, <1>5, <1>6 DEF CliNext
<1>. QED
  BY <1>1, <1>6, <1>7, <1>8 DEF Next

(* The conclusions above, for a step that may also stutter.                *)
Moves ==
    /\ run' \in [Ids -> Run] /\ \A i \in Ids : RunMoves(i)
    /\ DOMAIN pairs' \subseteq Ids /\ \A i \in DOMAIN pairs' : PairMoves(i)
    /\ cmd' \in [Cmds -> Cmd] /\ \A c \in Cmds : CmdMoves(c)
    /\ PendingMoves /\ FilesMove /\ StoredMoves /\ MachinesMove
    /\ pendingPair' \in [Phones -> Ids \cup {Nobody}]
    /\ cancelling' \in [Phones -> Ids \cup {Nobody}]
    /\ faults' \in 0 .. MaxFaults
    /\ cancelled \ {Nobody} \subseteq cancelled'
    /\ \A p \in Phones : cancelling'[p] \in Ids => cancelling'[p] \in cancelled' \/ UNCHANGED cancelling
    /\ overlapped => overlapped'
    /\ (\E c, d \in Cmds : c # d /\ Changing(c)' /\ Changing(d)') => overlapped' \/ UNCHANGED cmd

LEMMA StepMoves ==
    ASSUME TypeOK, RunsInOrder, CmdsInOrder, KeysAgree, [Next]_vars
    PROVE  Moves
<1>1. CASE Next
  <2>1. /\ cancelled \ {Nobody} \subseteq cancelled'
        /\ \A p \in Phones : cancelling'[p] \in Ids => cancelling'[p] \in cancelled'
        /\ overlapped => overlapped'
        /\ (\E c, d \in Cmds : c # d /\ Changing(c)' /\ Changing(d)') => overlapped'
    BY <1>1, PairAssumption DEF Next, History
  <2>. QED
    BY <1>1, <2>1, RunStep, PairStep, CmdStep, PendingStep, FilesStep, PageStep, FaultsStep DEF Moves
<1>2. CASE UNCHANGED vars
  <2>1. /\ UNCHANGED <<pairs, faults>> /\ UNCHANGED <<stored, machines, pendingPair, run, cancelling>>
        /\ UNCHANGED <<cmd, pending, devices, tmp, cancelled, overlapped>>
    BY <1>2 DEF vars, hubVars, pageVars, cliVars, fileVars
  <2>. QED
    BY <2>1 DEF Moves, RunMoves, PairMoves, CmdMoves, PendingMoves, FilesMove, StoredMoves,
       MachinesMove, TypeOK, HubTypeOK, PageTypeOK, CliTypeOK
<1>. QED
  BY <1>1, <1>2
-----------------------------------------------------------------------------
(* Each part of the invariant survives such a step.                        *)
LEMMA KeepsTypes ==
    ASSUME TypeOK, RunsInOrder, CmdsInOrder, KeysAgree, Moves
    PROVE  TypeOK'
<1>1. /\ run' \in [Ids -> Run] /\ cmd' \in [Cmds -> Cmd] /\ DOMAIN pairs' \subseteq Ids
      /\ pendingPair' \in [Phones -> Ids \cup {Nobody}]
      /\ cancelling' \in [Phones -> Ids \cup {Nobody}]
      /\ faults' \in 0 .. MaxFaults
      /\ \A i \in DOMAIN pairs' : PairMoves(i)
      /\ PendingMoves /\ FilesMove /\ StoredMoves /\ MachinesMove
  BY DEF Moves
<1>2. /\ stored \in [Phones -> Ids \cup {Nobody}] /\ machines \in [Phones -> BOOLEAN]
      /\ pending = NoPending \/ pending \in Pending
      /\ devices \in SUBSET Ids /\ tmp \in (SUBSET Ids) \cup {Nobody}
  BY DEF TypeOK, PageTypeOK, CliTypeOK
<1>3. stored' \in [Phones -> Ids \cup {Nobody}]
  BY <1>1, <1>2 DEF StoredMoves
<1>4. machines' \in [Phones -> BOOLEAN]
  BY <1>1, <1>2 DEF MachinesMove
<1>5. devices' \in SUBSET Ids /\ tmp' \in (SUBSET Ids) \cup {Nobody}
  <2>1. CASE UNCHANGED <<devices, tmp>>
    BY <1>2, <2>1
  <2>2. CASE UNCHANGED devices /\ \E k \in Ids : tmp' = devices \cup {k} \/ tmp' = devices \ {k}
    BY <1>2, <2>2
  <2>3. CASE tmp # Nobody /\ devices' = tmp /\ tmp' = Nobody
    BY <1>2, <2>3
  <2>. QED
    BY <1>1, <2>1, <2>2, <2>3 DEF FilesMove
<1>6. pending' = NoPending \/ pending' \in Pending
  <2>1. ASSUME NEW c \in Cmds, cmd[c].pair \in DOMAIN pairs, pending' = Computed(c),
               pairs[cmd[c].pair].state \in {"revealed", "done"}
        PROVE  pending' \in Pending
    <3>. DEFINE i == cmd[c].pair
    <3>1. i \in Ids /\ pairs[i].key \in Ids /\ pairs[i].noncePhone \in Ids /\ i \in DOMAIN pairs
      BY <2>1, TypedPairs DEF Settled
    <3>2. cmd[c].key \in Ids
      BY <3>1 DEF KeysAgree
    <3>3. pending' = [pair |-> i, key |-> cmd[c].key,
                      sas |-> <<cmd[c].key, pairs[i].noncePhone, c>>]
      BY <2>1 DEF Computed, Sas
    <3>4. <<cmd[c].key, pairs[i].noncePhone, c>> \in Ids \X Ids \X Cmds
      BY <3>1, <3>2
    <3>. HIDE DEF i
    <3>. QED
      BY <3>1, <3>2, <3>3, <3>4 DEF Pending
  <2>. QED
    BY <1>1, <1>2, <2>1 DEF PendingMoves
<1>7. ASSUME NEW i \in DOMAIN pairs'
      PROVE  /\ pairs'[i] \in Pair
             /\ pairs'[i].state # "started" => pairs'[i].nonceMachine # Nobody
             /\ pairs'[i].state \in {"revealed", "done", "aborted"} => pairs'[i].noncePhone = i
  <2>1. i \in Ids /\ PairMoves(i)
    BY <1>1
  <2>2. ASSUME i \in DOMAIN pairs
        PROVE  /\ pairs[i] \in Pair /\ pairs[i].key \in Ids
               /\ pairs[i].state \in {"started", "challenged", "revealed", "done", "aborted"}
               /\ pairs[i].nonceMachine \in Cmds \cup {Nobody}
               /\ pairs[i].noncePhone \in Ids \cup {Nobody}
               /\ pairs[i].state # "started" => pairs[i].nonceMachine # Nobody
               /\ pairs[i].state \in {"revealed", "done", "aborted"} => pairs[i].noncePhone = i
    BY <2>2, TypedPairs DEF Settled
  <2>3. CASE i \in DOMAIN pairs /\ pairs'[i] = pairs[i]
    BY <2>2, <2>3
  <2>4. CASE /\ i \notin DOMAIN pairs /\ run[i].pc = "start"
             /\ pairs'[i] = [key |-> run[i].key, state |-> "started", nonceMachine |-> Nobody,
                             noncePhone |-> Nobody]
    <3>1. run[i].key \in Ids
      BY <2>1, <2>4 DEF RunsInOrder
    <3>. QED
      BY <2>4, <3>1 DEF Pair
  <2>5. ASSUME InState(i, "started"),
               NEW c \in Cmds,
               pairs'[i] = [pairs[i] EXCEPT !.state = "challenged", !.nonceMachine = c]
        PROVE  /\ pairs'[i] \in Pair
               /\ pairs'[i].state = "challenged" /\ pairs'[i].nonceMachine # Nobody
    BY <2>2, <2>5, PairAssumption DEF Pair, InState, Live
  <2>6. ASSUME InState(i, "challenged"),
               pairs'[i] = [pairs[i] EXCEPT !.state = "revealed", !.noncePhone = i]
        PROVE  /\ pairs'[i] \in Pair
               /\ pairs'[i].nonceMachine # Nobody /\ pairs'[i].noncePhone = i
    BY <2>1, <2>2, <2>6 DEF Pair, InState, Live
  <2>7. ASSUME InState(i, "revealed"), NEW verdict \in {"done", "aborted"},
               pairs'[i] = [pairs[i] EXCEPT !.state = verdict]
        PROVE  /\ pairs'[i] \in Pair
               /\ pairs'[i].nonceMachine # Nobody /\ pairs'[i].noncePhone = i
    BY <2>2, <2>7 DEF Pair, InState, Live
  <2>. QED
    BY <2>1, <2>3, <2>4, <2>5, <2>6, <2>7 DEF PairMoves
<1>8. HubTypeOK' /\ PageTypeOK' /\ CliTypeOK'
  BY <1>1, <1>3, <1>4, <1>5, <1>6, <1>7 DEF HubTypeOK, PageTypeOK, CliTypeOK
<1>. QED
  BY <1>7, <1>8 DEF TypeOK

LEMMA KeepsRunsInOrder ==
    ASSUME TypeOK, RunsInOrder, Moves
    PROVE  RunsInOrder'
<1>1. ASSUME NEW i \in Ids
      PROVE  /\ run'[i].pc = "none" => run'[i].phone = Nobody
             /\ run'[i].pc # "none" => run'[i].phone \in Phones
             /\ run'[i].pc \in {"none", "keygen"} => run'[i].key = Nobody
             /\ run'[i].pc \notin {"none", "keygen", "over"} => run'[i].key \in Ids
             /\ run'[i].heard # Nobody
                  => run'[i].pc \in {"asked", "watch", "remember"} /\ run'[i].key \in Ids
  <2>1. /\ run[i].pc = "none" => run[i].phone = Nobody
        /\ run[i].pc # "none" => run[i].phone \in Phones
        /\ run[i].pc \in {"none", "keygen"} => run[i].key = Nobody
        /\ run[i].pc \notin {"none", "keygen", "over"} => run[i].key \in Ids
        /\ run[i].heard # Nobody => run[i].pc \in {"asked", "watch", "remember"} /\ run[i].key \in Ids
    BY DEF RunsInOrder
  <2>2. run[i] \in Run
    BY TypedRuns
  <2>3. RunMoves(i)
    BY DEF Moves
  <2>4. ASSUME run[i].pc = "none", NEW p \in Phones,
               run'[i] = [run[i] EXCEPT !.phone = p, !.key = stored[p],
                                        !.pc = IF stored[p] = Nobody THEN "keygen" ELSE "start"]
        PROVE  /\ run'[i].pc \in {"keygen", "start"} /\ run'[i].phone \in Phones
               /\ run'[i].pc = "start" => run'[i].key \in Ids
               /\ run'[i].pc = "keygen" => run'[i].key = Nobody
               /\ run'[i].heard = Nobody
    <3>1. stored[p] \in Ids \cup {Nobody}
      BY DEF TypeOK, PageTypeOK
    <3>2. run[i].heard = Nobody
      BY <2>1, <2>4
    <3>. QED
      BY <2>2, <2>4, <3>1, <3>2 DEF Run
  <2>. QED
    BY <2>1, <2>2, <2>3, <2>4 DEF RunMoves, Run
<1>. QED
  BY <1>1 DEF RunsInOrder

LEMMA KeepsCmdsInOrder ==
    ASSUME TypeOK, CmdsInOrder, Moves
    PROVE  CmdsInOrder'
<1>1. ASSUME NEW c \in Cmds
      PROVE  /\ cmd'[c].pc = "none" => cmd'[c].kind = Nobody
             /\ cmd'[c].pc \in {"seek", "challenge", "await"} => cmd'[c].kind = "pair"
             /\ cmd'[c].pc = "rename" => cmd'[c].kind \in {"adds", "unpair"}
             /\ cmd'[c].pc = "report" => cmd'[c].kind \in {"adds", "differs"}
             /\ cmd'[c].pc \in {"challenge", "await", "report"} => cmd'[c].pair \in Ids
             /\ cmd'[c].kind \in {"adds", "differs"} => cmd'[c].pair \in Ids /\ cmd'[c].key \in Ids
  <2>1. /\ cmd[c].pc = "none" => cmd[c].kind = Nobody
        /\ cmd[c].pc \in {"seek", "challenge", "await"} => cmd[c].kind = "pair"
        /\ cmd[c].pc = "rename" => cmd[c].kind \in {"adds", "unpair"}
        /\ cmd[c].pc = "report" => cmd[c].kind \in {"adds", "differs"}
        /\ cmd[c].pc \in {"challenge", "await", "report"} => cmd[c].pair \in Ids
        /\ cmd[c].kind \in {"adds", "differs"} => cmd[c].pair \in Ids /\ cmd[c].key \in Ids
    BY DEF CmdsInOrder
  <2>2. cmd[c] \in Cmd
    BY TypedCmds
  <2>3. CmdMoves(c)
    BY DEF Moves
  <2>4. pending # NoPending => pending.pair \in Ids /\ pending.key \in Ids
    BY TypedPending
  <2>5. ASSUME cmd[c].pc = "seek", NEW i \in DOMAIN pairs,
               cmd'[c] = [cmd[c] EXCEPT !.pc = "challenge", !.pair = i, !.key = pairs[i].key]
        PROVE  cmd'[c].pc = "challenge" /\ cmd'[c].pair \in Ids /\ cmd'[c].kind = "pair"
    BY <2>1, <2>2, <2>5, TypedPairs DEF Cmd
  <2>6. CASE cmd'[c] = cmd[c]
    BY <2>1, <2>6
  <2>7. CASE cmd'[c] = [kind |-> "pair", pc |-> "seek", pair |-> Nobody, key |-> Nobody]
    BY <2>7
  <2>8. CASE /\ pending # NoPending
             /\ cmd'[c] = [kind |-> "adds", pc |-> "rename", pair |-> pending.pair,
                           key |-> pending.key]
    BY <2>4, <2>8
  <2>9. CASE /\ pending # NoPending
             /\ cmd'[c] = [kind |-> "differs", pc |-> "report", pair |-> pending.pair,
                           key |-> pending.key]
    BY <2>4, <2>9
  <2>10. CASE \E k \in devices :
                cmd'[c] = [kind |-> "unpair", pc |-> "rename", pair |-> Nobody, key |-> k]
    BY <2>10
  <2>11. CASE cmd[c].pc = "challenge" /\ cmd'[c] = [cmd[c] EXCEPT !.pc = "await"]
    BY <2>1, <2>2, <2>11 DEF Cmd
  <2>12. CASE Changing(c) /\ cmd[c].kind = "adds" /\ cmd'[c] = [cmd[c] EXCEPT !.pc = "report"]
    BY <2>1, <2>2, <2>12 DEF Cmd
  <2>13. CASE cmd'[c] = [cmd[c] EXCEPT !.pc = "over"]
    BY <2>1, <2>2, <2>13 DEF Cmd
  <2>. QED
    BY <2>1, <2>3, <2>5, <2>6, <2>7, <2>8, <2>9, <2>10, <2>11, <2>12, <2>13, CommandAssumption
    DEF CmdMoves
<1>. QED
  BY <1>1 DEF CmdsInOrder

(* A run never goes back, and keeps its phone, its key and its nonce.      *)
LEMMA RunsGoOn ==
    ASSUME TypeOK, RunsInOrder, Moves, NEW i \in Ids
    PROVE  /\ run[i].pc # "none" => run'[i].pc # "none" /\ run'[i].phone = run[i].phone
           /\ run[i].pc \notin {"none", "keygen"} => run'[i].key = run[i].key
           /\ run[i].pc \notin {"none", "keygen", "start"}
                => run'[i].pc \notin {"none", "keygen", "start"}
           /\ run[i].pc \in Told
                => run'[i].pc \in Told /\ run'[i].nonceMachine = run[i].nonceMachine
<1>1. run[i] \in Run
  BY TypedRuns
<1>2. RunMoves(i)
  BY DEF Moves
<1>. QED
  BY <1>1, <1>2 DEF RunMoves, Run, Told

(* Neither does a pairing, which keeps its key and the first nonce.        *)
LEMMA PairsGoOn ==
    ASSUME TypeOK, RunsInOrder, Moves, NEW i \in DOMAIN pairs'
    PROVE  /\ i \in Ids
           /\ i \notin DOMAIN pairs => /\ run[i].pc = "start" /\ run'[i].pc \in {"wait", "over"}
                                       /\ pairs'[i].key = run[i].key
                                       /\ pairs'[i].state = "started"
                                       /\ pairs'[i].nonceMachine = Nobody
           /\ i \in DOMAIN pairs =>
                /\ pairs'[i].key = pairs[i].key
                /\ pairs[i].state # "started" =>
                     pairs'[i].state # "started" /\ pairs'[i].nonceMachine = pairs[i].nonceMachine
                /\ pairs'[i].state = "started" =>
                     pairs[i].state = "started" /\ pairs'[i].nonceMachine = pairs[i].nonceMachine
                /\ pairs'[i].state \in Settled =>
                     \/ pairs[i].state \in Settled
                     \/ run[i].pc = "reveal" /\ run'[i].pc \in Told /\ pairs[i].state # "started"
<1>1. i \in Ids /\ PairMoves(i)
  BY DEF Moves
<1>2. CASE i \notin DOMAIN pairs
  <2>1. /\ run[i].pc = "start" /\ run'[i].pc \in {"wait", "over"}
        /\ pairs'[i] = [key |-> run[i].key, state |-> "started", nonceMachine |-> Nobody,
                        noncePhone |-> Nobody]
    BY <1>1, <1>2 DEF PairMoves, InState, Live
  <2>. QED
    BY <1>1, <1>2, <2>1
<1>3. CASE i \in DOMAIN pairs
  <2>1. pairs[i] \in Pair
    BY <1>3, TypedPairs
  <2>. QED
    BY <1>1, <1>3, <2>1 DEF PairMoves, InState, Live, Pair, Settled, Told
<1>. QED
  BY <1>1, <1>2, <1>3

(* Nor does a command, which keeps its kind, its pairing and its key.      *)
Begins(c, kind, pc, pair, key) ==
    cmd[c].pc = "none" /\ cmd'[c] = [kind |-> kind, pc |-> pc, pair |-> pair, key |-> key]

CmdGoesOn(c) ==
    /\ cmd'[c].kind = cmd[c].kind /\ cmd'[c].pair = cmd[c].pair /\ cmd'[c].key = cmd[c].key
    /\ \/ cmd'[c].pc = cmd[c].pc
       \/ cmd'[c].pc = "over"
       \/ /\ cmd[c].pc = "challenge" /\ cmd'[c].pc = "await" /\ InState(cmd[c].pair, "started")
          /\ pairs' = [pairs EXCEPT ![cmd[c].pair] =
                        [pairs[cmd[c].pair] EXCEPT !.state = "challenged", !.nonceMachine = c]]
       \/ /\ Changing(c) /\ cmd[c].kind = "adds" /\ cmd'[c].pc = "report"
          /\ tmp # Nobody /\ devices' = tmp

CmdSees(c, i) ==
    /\ cmd[c].pc = "seek" /\ pairs[i].state = "started"
    /\ cmd'[c].kind = cmd[c].kind /\ cmd'[c].pc = "challenge"
    /\ cmd'[c].pair = i /\ cmd'[c].key = pairs[i].key

LEMMA CommandsGoOn ==
    ASSUME TypeOK, Moves, NEW c \in Cmds
    PROVE  \/ CmdGoesOn(c)
           \/ Begins(c, "pair", "seek", Nobody, Nobody)
           \/ /\ pending # NoPending /\ Begins(c, "adds", "rename", pending.pair, pending.key)
              /\ tmp' = devices \cup {pending.key} /\ UNCHANGED devices
           \/ /\ pending # NoPending /\ Begins(c, "differs", "report", pending.pair, pending.key)
              /\ pending' = NoPending
           \/ \E k \in devices : Begins(c, "unpair", "rename", Nobody, k)
           \/ \E i \in DOMAIN pairs : CmdSees(c, i)
<1>1. cmd[c] \in Cmd /\ CmdMoves(c)
  BY TypedCmds DEF Moves
<1>2. ASSUME NEW i \in DOMAIN pairs, cmd[c].pc = "seek", pairs[i].state = "started",
             cmd'[c] = [cmd[c] EXCEPT !.pc = "challenge", !.pair = i, !.key = pairs[i].key]
      PROVE  CmdSees(c, i)
  BY <1>1, <1>2 DEF CmdSees, Cmd
<1>3. ASSUME NEW pc, cmd'[c] = [cmd[c] EXCEPT !.pc = pc]
      PROVE  /\ cmd'[c].kind = cmd[c].kind /\ cmd'[c].pair = cmd[c].pair
             /\ cmd'[c].key = cmd[c].key /\ cmd'[c].pc = pc
  BY <1>1, <1>3 DEF Cmd
<1>4. CASE cmd'[c] = cmd[c]
  BY <1>4 DEF CmdGoesOn
<1>5. CASE cmd'[c] = [cmd[c] EXCEPT !.pc = "over"]
  BY <1>3, <1>5 DEF CmdGoesOn
<1>6. CASE /\ cmd[c].pc = "challenge" /\ InState(cmd[c].pair, "started")
           /\ pairs' = [pairs EXCEPT ![cmd[c].pair] =
                          [pairs[cmd[c].pair] EXCEPT !.state = "challenged", !.nonceMachine = c]]
           /\ cmd'[c] = [cmd[c] EXCEPT !.pc = "await"]
  BY <1>3, <1>6 DEF CmdGoesOn
<1>7. CASE /\ Changing(c) /\ cmd[c].kind = "adds" /\ tmp # Nobody /\ devices' = tmp
           /\ cmd'[c] = [cmd[c] EXCEPT !.pc = "report"]
  BY <1>3, <1>7 DEF CmdGoesOn
<1>. QED
  BY <1>1, <1>2, <1>4, <1>5, <1>6, <1>7 DEF CmdMoves, Begins

(* A command that does not go on has just begun, or sees a request.        *)
LEMMA CommandsBegin ==
    ASSUME TypeOK, Moves, NEW c \in Cmds, ~CmdGoesOn(c)
    PROVE  /\ cmd'[c].pc \in {"seek", "rename", "report", "challenge"}
           /\ cmd'[c].kind = "differs" =>
                \/ cmd[c].kind = "differs"
                \/ pending # NoPending /\ cmd'[c].pair = pending.pair /\ pending' = NoPending
           /\ Changing(c)' => ~Changing(c) /\ (cmd'[c].kind = "adds" \/ Unpaired')
           /\ cmd'[c].kind = "adds" /\ cmd'[c].pc # "challenge" =>
                cmd'[c].pc = "rename" /\ UNCHANGED devices /\ tmp' = devices \cup {cmd'[c].key}
<1>1. CASE Begins(c, "pair", "seek", Nobody, Nobody)
  BY <1>1 DEF Begins, Changing
<1>2. CASE /\ Begins(c, "adds", "rename", pending.pair, pending.key)
           /\ tmp' = devices \cup {pending.key} /\ UNCHANGED devices
  BY <1>2 DEF Begins, Changing
<1>3. CASE /\ pending # NoPending /\ Begins(c, "differs", "report", pending.pair, pending.key)
           /\ pending' = NoPending
  BY <1>3 DEF Begins, Changing
<1>4. ASSUME NEW k \in devices, Begins(c, "unpair", "rename", Nobody, k)
      PROVE  /\ cmd'[c].pc = "rename" /\ cmd'[c].kind = "unpair"
             /\ ~Changing(c) /\ Unpaired'
  BY <1>4 DEF Begins, Changing, Unpaired
<1>5. ASSUME NEW i \in DOMAIN pairs, CmdSees(c, i)
      PROVE  cmd'[c].pc = "challenge" /\ cmd'[c].kind = cmd[c].kind /\ ~Changing(c)'
  BY <1>5 DEF CmdSees, Changing
<1>. QED
  BY <1>1, <1>2, <1>3, <1>4, <1>5, CommandsGoOn

LEMMA KeepsKeys ==
    ASSUME TypeOK, RunsInOrder, CmdsInOrder, KeysAgree, PendingAgrees, Moves
    PROVE  KeysAgree'
<1>1. ASSUME NEW i \in DOMAIN pairs'
      PROVE  run'[i].pc \notin {"none", "keygen", "start"} /\ run'[i].key = pairs'[i].key
  <2>1. i \in Ids
    BY PairsGoOn
  <2>2. CASE i \notin DOMAIN pairs
    BY <2>1, <2>2, PairsGoOn, RunsGoOn
  <2>3. CASE i \in DOMAIN pairs
    <3>1. run[i].pc \notin {"none", "keygen", "start"} /\ run[i].key = pairs[i].key
      BY <2>3 DEF KeysAgree
    <3>. QED
      BY <2>1, <2>3, <3>1, PairsGoOn, RunsGoOn
  <2>. QED
    BY <2>2, <2>3
<1>2. ASSUME NEW c \in Cmds, cmd'[c].pair \in Ids
      PROVE  /\ run'[cmd'[c].pair].pc \notin {"none", "keygen", "start"}
             /\ run'[cmd'[c].pair].key = cmd'[c].key
  <2>2. ASSUME NEW i \in Ids, run[i].pc \notin {"none", "keygen", "start"},
               cmd'[c].pair = i, run[i].key = cmd'[c].key
        PROVE  /\ run'[cmd'[c].pair].pc \notin {"none", "keygen", "start"}
               /\ run'[cmd'[c].pair].key = cmd'[c].key
    BY <2>2, RunsGoOn
  <2>3. CASE cmd'[c].pair = cmd[c].pair /\ cmd'[c].key = cmd[c].key
    BY <1>2, <2>2, <2>3 DEF KeysAgree
  <2>4. CASE /\ pending # NoPending
             /\ cmd'[c].pair = pending.pair /\ cmd'[c].key = pending.key
    <3>1. pending.pair \in Ids /\ run[pending.pair].pc \in Told /\ run[pending.pair].key = pending.key
      BY <2>4, TypedPending DEF PendingAgrees, NumbersAgree
    <3>. QED
      BY <2>2, <2>4, <3>1 DEF Told
  <2>5. ASSUME NEW i \in DOMAIN pairs, CmdSees(c, i)
        PROVE  /\ run'[cmd'[c].pair].pc \notin {"none", "keygen", "start"}
               /\ run'[cmd'[c].pair].key = cmd'[c].key
    <3>1. i \in Ids /\ run[i].pc \notin {"none", "keygen", "start"} /\ run[i].key = pairs[i].key
      BY TypedPairs DEF KeysAgree
    <3>. QED
      BY <2>2, <2>5, <3>1 DEF CmdSees
  <2>6. CASE cmd'[c].pair = Nobody
    BY <1>2, <2>6, PairAssumption
  <2>7. CASE CmdGoesOn(c)
    BY <2>3, <2>7 DEF CmdGoesOn
  <2>8. ASSUME NEW kind, NEW STATE pair, NEW STATE key, NEW pc, Begins(c, kind, pc, pair, key)
        PROVE  cmd'[c].pair = pair /\ cmd'[c].key = key
    BY <2>8 DEF Begins
  <2>. QED
    BY <2>4, <2>5, <2>6, <2>7, <2>8, CommandsGoOn
<1>. QED
  BY <1>1, <1>2 DEF KeysAgree

LEMMA KeepsNonces ==
    ASSUME TypeOK, RunsInOrder, CmdsInOrder, KeysAgree, NoncesAgree, Moves
    PROVE  NoncesAgree'
<1>1. ASSUME NEW i \in DOMAIN pairs'
      PROVE  /\ pairs'[i].state = "started" => pairs'[i].nonceMachine = Nobody
             /\ run'[i].pc = "reveal" \/ pairs'[i].state \in Settled
                  => run'[i].nonceMachine = pairs'[i].nonceMachine /\ pairs'[i].state # "started"
             /\ pairs'[i].state \in Settled => run'[i].pc \in Told
  <2>1. i \in Ids
    BY PairsGoOn
  <2>2. CASE i \notin DOMAIN pairs
    BY <2>2, PairsGoOn DEF Settled
  <2>3. CASE i \in DOMAIN pairs
    <3>1. /\ pairs[i].state = "started" => pairs[i].nonceMachine = Nobody
          /\ run[i].pc = "reveal" \/ pairs[i].state \in Settled
               => run[i].nonceMachine = pairs[i].nonceMachine /\ pairs[i].state # "started"
          /\ pairs[i].state \in Settled => run[i].pc \in Told
      BY <2>3 DEF NoncesAgree
    <3>2. /\ pairs[i].state # "started" =>
               pairs'[i].state # "started" /\ pairs'[i].nonceMachine = pairs[i].nonceMachine
          /\ pairs'[i].state = "started" =>
               pairs[i].state = "started" /\ pairs'[i].nonceMachine = pairs[i].nonceMachine
          /\ pairs'[i].state \in Settled =>
               \/ pairs[i].state \in Settled
               \/ run[i].pc = "reveal" /\ run'[i].pc \in Told /\ pairs[i].state # "started"
      BY <2>3, PairsGoOn
    <3>3. run[i] \in Run /\ RunMoves(i)
      BY <2>1, TypedRuns DEF Moves
    <3>4. run[i].pc = "reveal" => run'[i].nonceMachine = run[i].nonceMachine
      BY <3>3 DEF RunMoves, Run
    <3>5. CASE pairs'[i].state \in Settled
      BY <2>1, <3>1, <3>2, <3>4, <3>5, RunsGoOn
    <3>6. CASE run'[i].pc = "reveal" /\ pairs'[i].state \notin Settled
      <4>1. \/ run[i].pc = "reveal"
            \/ pairs[i].nonceMachine # Nobody /\ run'[i].nonceMachine = pairs[i].nonceMachine
        BY <3>3, <3>6 DEF RunMoves, Run
      <4>. QED
        BY <3>1, <3>2, <3>4, <3>6, <4>1
    <3>7. CASE run'[i].pc # "reveal" /\ pairs'[i].state \notin Settled
      BY <3>1, <3>2, <3>7
    <3>. QED
      BY <3>5, <3>6, <3>7
  <2>. QED
    BY <2>2, <2>3
<1>2. ASSUME NEW c \in Cmds, cmd'[c].pc = "await", cmd'[c].pair \in DOMAIN pairs'
      PROVE  /\ pairs'[cmd'[c].pair].nonceMachine = c
             /\ pairs'[cmd'[c].pair].state # "started"
  <2>2. CASE cmd'[c].pc = cmd[c].pc /\ cmd'[c].pair = cmd[c].pair
    <3>1. cmd[c].pc = "await" /\ cmd[c].pair \in Ids /\ cmd[c].pair \in DOMAIN pairs'
      BY <1>2, <2>2 DEF CmdsInOrder
    <3>2. cmd[c].pair \in DOMAIN pairs
      BY <3>1, PairsGoOn DEF KeysAgree
    <3>3. pairs[cmd[c].pair].nonceMachine = c /\ pairs[cmd[c].pair].state # "started"
      BY <3>1, <3>2 DEF NoncesAgree
    <3>. QED
      BY <2>2, <3>1, <3>2, <3>3, PairsGoOn
  <2>3. CASE /\ InState(cmd[c].pair, "started")
             /\ pairs' = [pairs EXCEPT ![cmd[c].pair] =
                    [pairs[cmd[c].pair] EXCEPT !.state = "challenged", !.nonceMachine = c]]
             /\ cmd'[c].pair = cmd[c].pair
    <3>2. cmd[c].pair \in DOMAIN pairs
      BY <2>3 DEF InState, Live
    <3>3. pairs'[cmd[c].pair] = [pairs[cmd[c].pair] EXCEPT !.state = "challenged", !.nonceMachine = c]
      BY <2>3, <3>2
    <3>4. pairs[cmd[c].pair] \in Pair
      BY <3>2, TypedPairs
    <3>. QED
      <4>1. /\ pairs'[cmd[c].pair].state = "challenged"
            /\ pairs'[cmd[c].pair].nonceMachine = c
        BY <3>3, <3>4 DEF Pair
      <4>. QED
        BY <2>3, <4>1
  <2>4. CASE CmdGoesOn(c)
    BY <1>2, <2>2, <2>3, <2>4 DEF CmdGoesOn
  <2>5. ASSUME NEW kind, NEW STATE pair, NEW STATE key, NEW pc, Begins(c, kind, pc, pair, key)
        PROVE  cmd'[c].pc = pc
    BY <2>5 DEF Begins
  <2>6. ASSUME NEW i \in DOMAIN pairs, CmdSees(c, i)
        PROVE  FALSE
    BY <1>2, <2>6 DEF CmdSees
  <2>. QED
    BY <1>2, <2>4, <2>5, <2>6, CommandsGoOn
<1>. QED
  BY <1>1, <1>2 DEF NoncesAgree

(* What was typed stays typed.                                             *)
LEMMA HistoryGoesOn ==
    ASSUME TypeOK, CmdsInOrder, Moves
    PROVE  /\ Wrong \subseteq Wrong' /\ Wrong \subseteq Ids
           /\ \A i \in Wrong' \ Wrong : /\ pending # NoPending /\ i = pending.pair
                                        /\ pending' = NoPending
           /\ Unpaired => Unpaired'
<1>1. ASSUME NEW c \in Cmds, cmd[c].kind \in {"differs", "unpair"}
      PROVE  cmd'[c].kind = cmd[c].kind /\ cmd'[c].pair = cmd[c].pair
  <2>1. cmd[c].pc \notin {"none", "seek"}
    BY <1>1, CommandAssumption DEF CmdsInOrder
  <2>. QED
    BY <2>1, CommandsGoOn DEF CmdGoesOn, Begins, CmdSees
<1>2. Wrong \subseteq Wrong'
  BY <1>1 DEF Wrong
<1>3. Wrong \subseteq Ids
  BY DEF Wrong, CmdsInOrder
<1>4. ASSUME NEW c \in Cmds, cmd'[c].kind = "differs", ~(cmd[c].kind = "differs")
      PROVE  pending # NoPending /\ cmd'[c].pair = pending.pair /\ pending' = NoPending
  <2>1. ~CmdGoesOn(c)
    BY <1>4 DEF CmdGoesOn
  <2>. QED
    BY <1>4, <2>1, CommandsBegin
<1>5. ASSUME NEW i \in Wrong', i \notin Wrong
      PROVE  pending # NoPending /\ i = pending.pair /\ pending' = NoPending
  <2>1. PICK c \in Cmds : cmd'[c].kind = "differs" /\ cmd'[c].pair = i
    BY DEF Wrong
  <2>2. CASE cmd[c].kind = "differs"
    BY <1>1, <1>5, <2>1, <2>2 DEF Wrong
  <2>3. CASE ~(cmd[c].kind = "differs")
    BY <1>4, <2>1, <2>3
  <2>. QED
    BY <2>2, <2>3
<1>6. Unpaired => Unpaired'
  BY <1>1 DEF Unpaired
<1>. QED
  BY <1>2, <1>3, <1>5, <1>6

LEMMA KeepsWrittenOnce ==
    ASSUME TypeOK, RunsInOrder, CmdsInOrder, KeysAgree, NoncesAgree, WrittenOnce, Moves
    PROVE  WrittenOnce'
<1>1. ASSUME NEW c \in Cmds, cmd[c].pc = "await", cmd'[c].pc = "over",
             cmd[c].pair \in DOMAIN pairs, pairs[cmd[c].pair].state \in {"revealed", "done"}
      PROVE  /\ cmd[c].pair \notin Wrong
             /\ run[cmd[c].pair].pc \in Told
             /\ \A d \in Cmds : ~(cmd'[d].pc = "await" /\ cmd'[d].pair = cmd[c].pair)
  <2>. DEFINE i == cmd[c].pair
  <2>1. i \in Ids /\ pairs[i].nonceMachine = c /\ pairs[i].state # "started"
    BY <1>1, TypedPairs DEF NoncesAgree
  <2>2. i \notin Wrong
    BY <1>1, <2>1 DEF WrittenOnce, WrittenDown
  <2>3. run[i].pc \in Told
    BY <1>1 DEF NoncesAgree, Settled
  <2>4. ASSUME NEW d \in Cmds, cmd'[d].pc = "await", cmd'[d].pair = i PROVE FALSE
    <3>1. CASE CmdGoesOn(d) /\ cmd'[d].pc = cmd[d].pc
      <4>1. cmd[d].pc = "await" /\ cmd[d].pair = i
        BY <2>4, <3>1 DEF CmdGoesOn
      <4>2. d = c
        BY <1>1, <2>1, <4>1 DEF NoncesAgree
      <4>. QED
        BY <1>1, <2>4, <4>2
    <3>2. CASE CmdGoesOn(d) /\ cmd'[d].pc # cmd[d].pc
      BY <2>1, <2>4, <3>2 DEF CmdGoesOn, InState
    <3>3. CASE ~CmdGoesOn(d)
      BY <2>4, <3>3, CommandsBegin
    <3>. QED
      BY <3>1, <3>2, <3>3
  <2>. QED
    BY <2>2, <2>3, <2>4
<1>2. ASSUME NEW i \in Ids, WrittenDown(i)'
      PROVE  /\ run'[i].pc \in Told
             /\ i \in DOMAIN pairs' =>
                   /\ pairs'[i].state # "started"
                   /\ \A c \in Cmds : ~(cmd'[c].pc = "await" /\ cmd'[c].pair = i)
  <2>1. CASE WrittenDown(i)
    <3>1. /\ run[i].pc \in Told
          /\ i \in DOMAIN pairs =>
                /\ pairs[i].state # "started"
                /\ \A c \in Cmds : ~(cmd[c].pc = "await" /\ cmd[c].pair = i)
      BY <2>1 DEF WrittenOnce
    <3>2. run'[i].pc \in Told
      BY <3>1, RunsGoOn
    <3>3. ASSUME i \in DOMAIN pairs'
          PROVE  i \in DOMAIN pairs /\ pairs'[i].state # "started"
      BY <3>1, <3>3, PairsGoOn DEF Told
    <3>4. ASSUME i \in DOMAIN pairs', NEW c \in Cmds, cmd'[c].pc = "await", cmd'[c].pair = i
          PROVE  FALSE
      <4>1. pairs[i].state # "started" /\ ~(cmd[c].pc = "await" /\ cmd[c].pair = i)
        BY <3>1, <3>3, <3>4
      <4>2. CASE CmdGoesOn(c)
        BY <3>4, <4>1, <4>2 DEF CmdGoesOn, InState
      <4>3. CASE ~CmdGoesOn(c)
        BY <3>4, <4>3, CommandsBegin
      <4>. QED
        BY <4>2, <4>3
    <3>. QED
      BY <3>2, <3>3, <3>4
  <2>2. CASE ~WrittenDown(i)
    <3>1. i \notin Wrong'
      BY <2>2, HistoryGoesOn DEF WrittenDown
    <3>2. pending' # NoPending /\ i = pending'.pair /\ pending' # pending
      BY <1>2, <2>2, <3>1 DEF WrittenDown
    <3>3. PICK c \in Cmds :
             /\ cmd[c].pc = "await" /\ cmd'[c].pc = "over"
             /\ cmd[c].pair \in DOMAIN pairs /\ pairs[cmd[c].pair].state \in {"revealed", "done"}
             /\ pending' = Computed(c)
      BY <3>2 DEF Moves, PendingMoves
    <3>4. i = cmd[c].pair
      BY <3>2, <3>3 DEF Computed
    <3>5. run[i].pc \in Told /\ \A d \in Cmds : ~(cmd'[d].pc = "await" /\ cmd'[d].pair = i)
      BY <1>1, <3>3, <3>4
    <3>6. pairs[i].state # "started" /\ i \in DOMAIN pairs
      BY <3>3, <3>4
    <3>. QED
      BY <3>5, <3>6, RunsGoOn, PairsGoOn
  <2>. QED
    BY <2>1, <2>2
<1>3. ASSUME pending' # NoPending PROVE pending'.pair \notin Wrong'
  <2>1. Wrong' \subseteq Wrong
    BY <1>3, HistoryGoesOn
  <2>2. CASE UNCHANGED pending
    BY <1>3, <2>1, <2>2 DEF WrittenOnce
  <2>3. CASE \E c \in Cmds :
               /\ cmd[c].pc = "await" /\ cmd'[c].pc = "over"
               /\ cmd[c].pair \in DOMAIN pairs /\ pairs[cmd[c].pair].state \in {"revealed", "done"}
               /\ pending' = Computed(c)
    BY <1>1, <2>1, <2>3 DEF Computed
  <2>. QED
    BY <1>3, <2>2, <2>3 DEF Moves, PendingMoves
<1>. QED
  BY <1>2, <1>3 DEF WrittenOnce

LEMMA KeepsPending ==
    ASSUME TypeOK, RunsInOrder, KeysAgree, NoncesAgree, PendingAgrees, Moves
    PROVE  PendingAgrees'
<1>1. SUFFICES ASSUME pending' # NoPending
               PROVE  /\ run'[pending'.pair].pc \in Told
                      /\ run'[pending'.pair].key = pending'.key
                      /\ <<run'[pending'.pair].key, pending'.pair, run'[pending'.pair].nonceMachine>>
                           = pending'.sas
  BY DEF PendingAgrees, NumbersAgree, Number, Sas
<1>2. CASE UNCHANGED pending
  <2>1. /\ pending.pair \in Ids /\ run[pending.pair].pc \in Told
        /\ run[pending.pair].key = pending.key
        /\ <<run[pending.pair].key, pending.pair, run[pending.pair].nonceMachine>> = pending.sas
    BY <1>1, <1>2, TypedPending DEF PendingAgrees, NumbersAgree, Number, Sas
  <2>2. /\ run'[pending.pair].pc \in Told /\ run'[pending.pair].key = run[pending.pair].key
        /\ run'[pending.pair].nonceMachine = run[pending.pair].nonceMachine
    BY <2>1, RunsGoOn DEF Told
  <2>. QED
    BY <1>2, <2>1, <2>2
<1>3. ASSUME NEW c \in Cmds, cmd[c].pc = "await", cmd[c].pair \in DOMAIN pairs,
             pairs[cmd[c].pair].state \in {"revealed", "done"}, pending' = Computed(c)
      PROVE  /\ run'[pending'.pair].pc \in Told
             /\ run'[pending'.pair].key = pending'.key
             /\ <<run'[pending'.pair].key, pending'.pair, run'[pending'.pair].nonceMachine>>
                  = pending'.sas
  <2>. DEFINE i == cmd[c].pair
  <2>1. i \in Ids /\ pairs[i].noncePhone = i
    BY <1>3, TypedPairs DEF Settled
  <2>2. /\ pairs[i].nonceMachine = c /\ run[i].nonceMachine = pairs[i].nonceMachine
        /\ run[i].pc \in Told
    BY <1>3 DEF NoncesAgree, Settled
  <2>3. run[i].key = cmd[c].key
    BY <2>1 DEF KeysAgree
  <2>4. run'[i].pc \in Told /\ run'[i].key = cmd[c].key /\ run'[i].nonceMachine = c
    BY <2>1, <2>2, <2>3, RunsGoOn DEF Told
  <2>5. pending' = [pair |-> i, key |-> cmd[c].key, sas |-> <<cmd[c].key, i, c>>]
    BY <1>3, <2>1 DEF Computed, Sas
  <2>. HIDE DEF i
  <2>. QED
    BY <2>4, <2>5
<1>. QED
  BY <1>1, <1>2, <1>3 DEF Moves, PendingMoves

(* What a run heard is what the hub just said, or what it had heard.       *)
LEMMA HeardGoesOn ==
    ASSUME TypeOK, Moves, NEW i \in Ids
    PROVE  \/ run'[i].heard = run[i].heard /\ (run'[i].key = run[i].key \/ run[i].pc \in {"none", "keygen"})
           \/ run'[i].heard = HubGet(i) /\ run'[i].key = run[i].key
           \/ run'[i].heard = Nobody
<1>1. run[i] \in Run /\ RunMoves(i)
  BY TypedRuns DEF Moves
<1>. QED
  BY <1>1 DEF RunMoves, Run

LEMMA KeepsCauses ==
    ASSUME TypeOK, RunsInOrder, CmdsInOrder, AbortsHaveACause, Moves
    PROVE  AbortsHaveACause'
<1>1. /\ Wrong \subseteq Wrong'
      /\ \A i \in Ids : i \in cancelled => i \in cancelled'
  BY HistoryGoesOn, PairAssumption DEF Moves
<1>2. ASSUME NEW p \in Phones, cancelling'[p] \in Ids PROVE cancelling'[p] \in cancelled'
  BY <1>1, <1>2 DEF Moves, AbortsHaveACause
<1>3. ASSUME NEW i \in DOMAIN pairs, pairs[i].state = "aborted" PROVE i \in Wrong' \cup cancelled'
  BY <1>1, <1>3, TypedPairs DEF AbortsHaveACause
<1>4. ASSUME NEW i \in DOMAIN pairs', pairs'[i].state = "aborted"
      PROVE  i \in Wrong' \cup cancelled'
  <2>1. i \in Ids /\ PairMoves(i)
    BY DEF Moves
  <2>2. ASSUME i \in DOMAIN pairs PROVE pairs[i] \in Pair
    BY <2>2, TypedPairs
  <2>3. CASE i \in DOMAIN pairs /\ pairs'[i] = pairs[i]
    BY <1>3, <1>4, <2>3
  <2>4. CASE \E c \in Cmds : cmd[c].pc = "report" /\ cmd[c].kind # "adds" /\ cmd[c].pair = i
    BY <1>1, <2>4 DEF CmdsInOrder, Wrong
  <2>5. CASE \E p \in Phones : cancelling'[p] = i
    BY <1>2, <2>1, <2>5
  <2>6. i \in DOMAIN pairs
    BY <1>4, PairsGoOn
  <2>7. \/ pairs'[i] = pairs[i]
        \/ \E c \in Cmds : cmd[c].pc = "report" /\ cmd[c].kind # "adds" /\ cmd[c].pair = i
        \/ \E p \in Phones : cancelling'[p] = i
    BY <1>4, <2>1, <2>2, <2>6 DEF PairMoves, Pair
  <2>. QED
    BY <2>3, <2>4, <2>5, <2>6, <2>7
<1>5. ASSUME NEW i \in Ids, run'[i].heard = "aborted" PROVE i \in Wrong' \cup cancelled'
  <2>1. CASE run'[i].heard = run[i].heard
    BY <1>1, <1>5, <2>1 DEF AbortsHaveACause, AlarmHasACause
  <2>2. CASE run'[i].heard = HubGet(i)
    BY <1>3, <1>5, <2>2, PairAssumption DEF HubGet, Live
  <2>. QED
    BY <1>5, <2>1, <2>2, HeardGoesOn, PairAssumption
<1>. QED
  BY <1>2, <1>4, <1>5 DEF AbortsHaveACause, AlarmHasACause

LEMMA KeepsMadeKeys ==
    ASSUME TypeOK, RunsInOrder, KeysAreMade, Moves
    PROVE  KeysAreMade'
<1>1. stored \in [Phones -> Ids \cup {Nobody}] /\ StoredMoves
  BY DEF TypeOK, PageTypeOK, Moves
<1>2. ASSUME NEW i \in Ids
      PROVE  run[i] \in Run /\ RunMoves(i)
             /\ (run[i].pc = "none" => run[i].key = Nobody)
             /\ (run[i].pc # "none" => run[i].phone \in Phones)
  BY TypedRuns DEF Moves, RunsInOrder
<1>3. ASSUME NEW p, NEW j \in MadeKeys(p)
      PROVE  j \in Ids /\ run'[j].phone = p /\ run'[j].key = j
  <2>1. j \in Ids /\ run[j].phone = p /\ run[j].key = j
    BY DEF MadeKeys
  <2>2. run[j].pc # "none"
    BY <1>2, <2>1, PairAssumption
  <2>3. run'[j].phone = p
    BY <2>1, <2>2, RunsGoOn
  <2>4. run'[j].key = j
    BY <1>2, <2>1, <2>2 DEF RunMoves, Run
  <2>. QED
    BY <2>1, <2>3, <2>4
<1>4. ASSUME NEW p \in Phones, stored[p] # Nobody PROVE stored'[p] # Nobody
  BY <1>1, <1>4, PairAssumption DEF StoredMoves
<1>5. ASSUME NEW i \in Ids, run'[i].key \in Ids
      PROVE  /\ run'[run'[i].key].phone = run'[i].phone
             /\ run'[run'[i].key].key = run'[i].key
             /\ stored'[run'[i].phone] # Nobody
  <2>1. CASE run'[i].key = run[i].key /\ run'[i].phone = run[i].phone
    <3>1. run[i].key \in MadeKeys(run[i].phone) /\ stored[run[i].phone] # Nobody
      BY <1>5, <2>1 DEF KeysAreMade
    <3>2. run[i].phone \in Phones
      BY <1>2, <1>5, <2>1, PairAssumption
    <3>. QED
      BY <1>3, <1>4, <2>1, <3>1, <3>2
  <2>2. ASSUME NEW p \in Phones, UNCHANGED stored, run'[i].key = stored[p], run'[i].phone = p
        PROVE  /\ run'[run'[i].key].phone = run'[i].phone
               /\ run'[run'[i].key].key = run'[i].key
               /\ stored'[run'[i].phone] # Nobody
    <3>1. stored[p] \in MadeKeys(p) /\ stored[p] # Nobody
      BY <1>5, <2>2, PairAssumption DEF KeysAreMade
    <3>. QED
      BY <1>3, <2>2, <3>1
  <2>3. CASE /\ run[i].pc = "keygen" /\ run'[i] = [run[i] EXCEPT !.key = i, !.pc = "start"]
             /\ stored' = [stored EXCEPT ![run[i].phone] = i]
    <3>1. run[i].phone \in Phones /\ run'[i].key = i /\ run'[i].phone = run[i].phone
      BY <1>2, <2>3 DEF Run
    <3>. QED
      BY <1>1, <2>3, <3>1, PairAssumption
  <2>4. \/ run'[i].key = run[i].key /\ run'[i].phone = run[i].phone
        \/ UNCHANGED stored /\ \E p \in Phones : run'[i].key = stored[p] /\ run'[i].phone = p
        \/ /\ run[i].pc = "keygen" /\ run'[i] = [run[i] EXCEPT !.key = i, !.pc = "start"]
           /\ stored' = [stored EXCEPT ![run[i].phone] = i]
    <3>1. ASSUME NEW p \in Phones,
                 run'[i] = [run[i] EXCEPT !.phone = p, !.key = stored[p],
                                          !.pc = IF stored[p] = Nobody THEN "keygen" ELSE "start"]
          PROVE  run'[i].key = stored[p] /\ run'[i].phone = p
      BY <1>2, <3>1 DEF Run
    <3>2. CASE \/ run'[i] = run[i]
               \/ run'[i] = [run[i] EXCEPT !.pc = "wait"]
               \/ run'[i] = [run[i] EXCEPT !.pc = "reveal", !.nonceMachine = pairs[i].nonceMachine]
               \/ run'[i] = [run[i] EXCEPT !.pc = "watch", !.shown = TRUE]
               \/ run'[i] = [run[i] EXCEPT !.pc = "asked", !.heard = HubGet(i)]
               \/ run'[i] = [run[i] EXCEPT !.pc = "watch"]
               \/ run'[i] = [run[i] EXCEPT !.pc = "remember"]
               \/ run'[i] = [run[i] EXCEPT !.pc = "over", !.heard = Nobody]
      BY <1>2, <3>2 DEF Run
    <3>. QED
      BY <1>2, <3>1, <3>2 DEF RunMoves
  <2>. QED
    BY <2>1, <2>2, <2>3, <2>4
<1>6. ASSUME NEW p \in Phones, stored'[p] # Nobody
      PROVE  stored'[p] \in Ids /\ run'[stored'[p]].phone = p /\ run'[stored'[p]].key = stored'[p]
  <2>1. CASE stored'[p] = stored[p]
    BY <1>3, <1>6, <2>1 DEF KeysAreMade
  <2>2. CASE stored'[p] # stored[p]
    <3>1. PICK i \in Ids : /\ run[i].phone \in Phones
                           /\ stored' = [stored EXCEPT ![run[i].phone] = i]
                           /\ run'[i].key = i /\ run'[i].phone = run[i].phone
      BY <1>1, <2>2 DEF StoredMoves
    <3>. QED
      BY <1>1, <2>2, <3>1
  <2>. QED
    BY <2>1, <2>2
<1>. QED
  BY <1>5, <1>6 DEF KeysAreMade, MadeKeys

LEMMA KeepsOneChanges ==
    ASSUME TypeOK, CmdsInOrder, OneChanges, Moves
    PROVE  OneChanges'
<1>. SUFFICES ASSUME ~overlapped' PROVE OneChanges'
  BY DEF OneChanges
<1>1. ~overlapped /\ FilesMove
  BY DEF Moves
<1>2. \A c, d \in Cmds : Changing(c) /\ Changing(d) => c = d
  BY <1>1 DEF OneChanges
<1>3. ASSUME NEW c \in Cmds, NEW d \in Cmds, Changing(c)', Changing(d)' PROVE c = d
  <2>1. SUFFICES ASSUME c # d PROVE FALSE
    OBVIOUS
  <2>2. UNCHANGED cmd
    BY <1>3, <2>1 DEF Moves
  <2>. QED
    BY <1>2, <1>3, <2>1, <2>2 DEF Changing
<1>4. ASSUME ~Unpaired', NEW c \in Cmds, Changing(c)'
      PROVE  devices' \subseteq tmp' /\ cmd'[c].key \in tmp'
  <2>1. CASE CmdGoesOn(c)
    <3>1. Changing(c) /\ cmd'[c].key = cmd[c].key
      BY <1>4, <2>1 DEF CmdGoesOn, Changing
    <3>2. devices \subseteq tmp /\ cmd[c].key \in tmp
      BY <1>1, <1>4, <3>1, HistoryGoesOn DEF OneChanges
    <3>3. UNCHANGED <<devices, tmp>>
      BY <1>1, <1>2, <1>3, <1>4, <3>1 DEF FilesMove
    <3>. QED
      BY <3>1, <3>2, <3>3
  <2>2. CASE ~CmdGoesOn(c)
    <3>1. cmd'[c].kind = "adds" /\ cmd'[c].pc = "rename"
      BY <1>4, <2>2, CommandsBegin DEF Changing
    <3>2. devices' = devices /\ tmp' = devices \cup {cmd'[c].key}
      BY <2>2, <3>1, CommandsBegin
    <3>. QED
      BY <3>2
  <2>. QED
    BY <2>1, <2>2
<1>. QED
  BY <1>3, <1>4 DEF OneChanges

LEMMA KeepsKnown ==
    ASSUME TypeOK, CmdsInOrder, OneChanges, Moves, NEW k, k \in devices \/ Unpaired \/ overlapped
    PROVE  k \in devices' \/ Unpaired' \/ overlapped'
<1>. SUFFICES ASSUME ~Unpaired', ~overlapped' PROVE k \in devices'
  OBVIOUS
<1>1. ~Unpaired /\ ~overlapped /\ k \in devices /\ FilesMove
  BY HistoryGoesOn DEF Moves
<1>2. CASE UNCHANGED devices
  BY <1>1, <1>2
<1>3. CASE devices' = tmp /\ \E c \in Cmds : Changing(c)
  BY <1>1, <1>3 DEF OneChanges
<1>. QED
  BY <1>1, <1>2, <1>3 DEF FilesMove

LEMMA KeepsDone ==
    ASSUME TypeOK, RunsInOrder, CmdsInOrder, KeysAgree, OneChanges, DoneIsKnown, Moves
    PROVE  DoneIsKnown'
<1>. DEFINE KnownNext(k) == k \in devices' \/ Unpaired' \/ overlapped'
<1>1. ASSUME NEW k, k \in devices \/ Unpaired \/ overlapped PROVE KnownNext(k)
  BY <1>1, KeepsKnown
<1>2. ASSUME NEW i \in DOMAIN pairs, pairs[i].state = "done" PROVE KnownNext(run[i].key)
  BY <1>1, <1>2 DEF DoneIsKnown, Known
<1>3. ASSUME NEW c \in Cmds, cmd[c].pc = "report", cmd[c].kind = "adds"
      PROVE  KnownNext(cmd[c].key)
  BY <1>1, <1>3 DEF DoneIsKnown, Known
<1>4. ASSUME NEW i \in DOMAIN pairs', pairs'[i].state = "done"
      PROVE  KnownNext(run'[i].key)
  <2>1. i \in Ids /\ PairMoves(i)
    BY DEF Moves
  <2>2. i \in DOMAIN pairs
    BY <1>4, PairsGoOn
  <2>3. run'[i].key = run[i].key
    BY <2>1, <2>2, RunsGoOn DEF KeysAgree
  <2>4. CASE pairs[i].state = "done"
    BY <1>2, <2>2, <2>3, <2>4
  <2>5. CASE \E c \in Cmds : cmd[c].pc = "report" /\ cmd[c].kind = "adds" /\ cmd[c].pair = i
    <3>1. PICK c \in Cmds : cmd[c].pc = "report" /\ cmd[c].kind = "adds" /\ cmd[c].pair = i
      BY <2>5
    <3>2. run[i].key = cmd[c].key
      BY <2>1, <3>1 DEF KeysAgree
    <3>. QED
      BY <1>3, <2>3, <3>1, <3>2
  <2>6. pairs[i] \in Pair
    BY <2>2, TypedPairs
  <2>7. \/ pairs[i].state = "done"
        \/ \E c \in Cmds : cmd[c].pc = "report" /\ cmd[c].kind = "adds" /\ cmd[c].pair = i
    BY <1>4, <2>1, <2>2, <2>6 DEF PairMoves, Pair
  <2>. QED
    BY <2>4, <2>5, <2>7
<1>5. ASSUME NEW i \in Ids, run'[i].heard = "done" PROVE KnownNext(run'[i].key)
  <2>1. CASE /\ run'[i].heard = run[i].heard
             /\ run'[i].key = run[i].key \/ run[i].pc \in {"none", "keygen"}
    <3>1. run[i].pc \notin {"none", "keygen"}
      BY <1>5, <2>1, PairAssumption DEF RunsInOrder
    <3>. QED
      BY <1>1, <1>5, <2>1, <3>1 DEF DoneIsKnown, Known
  <2>2. CASE run'[i].heard = HubGet(i) /\ run'[i].key = run[i].key
    BY <1>2, <1>5, <2>2, PairAssumption DEF HubGet, Live
  <2>. QED
    BY <1>5, <2>1, <2>2, HeardGoesOn, PairAssumption
<1>6. ASSUME NEW c \in Cmds, cmd'[c].pc = "report", cmd'[c].kind = "adds"
      PROVE  KnownNext(cmd'[c].key)
  <2>1. CmdGoesOn(c)
    BY <1>6, CommandsBegin
  <2>2. CASE cmd[c].pc = "report"
    BY <1>3, <1>6, <2>1, <2>2 DEF CmdGoesOn
  <2>3. CASE Changing(c) /\ devices' = tmp
    <3>1. overlapped \/ Unpaired \/ cmd[c].key \in tmp
      BY <2>3 DEF OneChanges
    <3>. QED
      BY <2>1, <2>3, <3>1, HistoryGoesOn DEF CmdGoesOn, Moves
  <2>. QED
    BY <1>6, <2>1, <2>2, <2>3 DEF CmdGoesOn
<1>7. ASSUME NEW p \in Phones, machines'[p]
      PROVE  \E i \in Ids : run'[i].phone = p /\ run'[i].key \in Ids /\ KnownNext(run'[i].key)
  <2>1. ASSUME NEW i \in Ids, run[i].phone = p, run[i].key \in Ids,
               run[i].key \in devices \/ Unpaired \/ overlapped
        PROVE  \E j \in Ids : run'[j].phone = p /\ run'[j].key \in Ids /\ KnownNext(run'[j].key)
    <3>1. run[i].pc \notin {"none", "keygen"}
      BY <2>1, PairAssumption DEF RunsInOrder
    <3>2. run'[i].phone = p /\ run'[i].key = run[i].key
      BY <2>1, <3>1, RunsGoOn
    <3>. QED
      BY <1>1, <2>1, <3>2
  <2>2. CASE machines[p]
    BY <2>1, <2>2 DEF DoneIsKnown, Known
  <2>3. CASE ~machines[p]
    <3>1. PICK i \in Ids : /\ run[i].heard = "done"
                           /\ machines' = [machines EXCEPT ![run[i].phone] = TRUE]
      BY <1>7, <2>3 DEF Moves, MachinesMove
    <3>2. run[i].phone = p
      BY <1>7, <2>3, <3>1 DEF TypeOK, PageTypeOK
    <3>3. run[i].key \in Ids /\ (run[i].key \in devices \/ Unpaired \/ overlapped)
      BY <3>1, PairAssumption DEF RunsInOrder, DoneIsKnown, Known
    <3>. QED
      BY <2>1, <3>2, <3>3
  <2>. QED
    BY <2>2, <2>3
<1>. QED
  BY <1>4, <1>5, <1>6, <1>7 DEF DoneIsKnown, Known

(* A tap begins one run, nothing else begins any.                          *)
LEMMA OneBegins ==
    ASSUME TypeOK, RunsInOrder, [Next]_vars
    PROVE  Begun' \subseteq Begun \/ \E i \in Ids : Begun' \subseteq Begun \cup {i}
<1>1. run \in [Ids -> Run] /\ \A i \in Ids : run[i].pc = "none" => run[i].phone \notin Phones
  BY PhoneAssumption DEF TypeOK, PageTypeOK, RunsInOrder
<1>2. CASE UNCHANGED run
  BY <1>2 DEF Begun
<1>3. ASSUME NEW i \in Ids, run[i].pc # "none", \A j \in Ids \ {i} : run'[j] = run[j]
      PROVE  Begun' \subseteq Begun
  BY <1>3 DEF Begun
<1>4. ASSUME NEW i \in Ids, Continues(i) \/ WatchGivesUp(i) \/ WatchFails(i)
      PROVE  Begun' \subseteq Begun
  <2>1. run[i].pc # "none" /\ \A j \in Ids \ {i} : run'[j] = run[j]
    BY <1>1, <1>4 DEF Continues, StoresKey, StartSent, HearsNonce, WaitGivesUp, Reveals,
       AsksVerdict, HearsVerdict, Remembered, WatchGivesUp, WatchFails, IsOver, Goes
  <2>. QED
    BY <1>3, <2>1
<1>5. ASSUME NEW p \in Phones, NEW i \in Ids, TapPair(p, i)
      PROVE  Begun' \subseteq Begun \cup {i}
  <2>1. \A j \in Ids \ {i} : run'[j] = run[j]
    BY <1>1, <1>5 DEF TapPair
  <2>. QED
    BY <2>1 DEF Begun
<1>6. ASSUME NEW p \in Phones, PageReloads(p)
      PROVE  Begun' \subseteq Begun
  <2>1. ASSUME NEW j \in Ids, run[j].pc = "none" PROVE run'[j] = run[j]
    BY <1>1, <1>6, <2>1 DEF PageReloads
  <2>. QED
    BY <2>1 DEF Begun
<1>7. ASSUME NEW p \in Phones, Cancels(p) \/ Cancelled(p)
      PROVE  UNCHANGED run
  BY <1>7 DEF Cancels, Cancelled
<1>8. CASE PageNext
  BY <1>2, <1>4, <1>5, <1>6, <1>7, <1>8 DEF PageNext
<1>9. CASE CliNext \/ HubSteps
  <2>1. UNCHANGED pageVars
    BY <1>9 DEF CliNext, HubSteps, PairBegins, ConfirmMatches, ConfirmDiffers, Unpair,
         Proceeds, Killed, SeesPending, Challenges, HearsNoncePhone, LoopGivesUp, Renames, Reports,
         PendingExpires
  <2>. QED
    BY <1>2, <2>1 DEF pageVars
<1>10. CASE UNCHANGED vars
  BY <1>2, <1>10 DEF vars, pageVars
<1>. QED
  BY <1>8, <1>9, <1>10 DEF Next
-----------------------------------------------------------------------------
LEMMA FirstPairing == Init => PaInv
<1>. SUFFICES ASSUME Init PROVE PaInv
  OBVIOUS
<1>1. /\ faults = 0 /\ pairs = [i \in {} |-> Nobody]
      /\ stored = [p \in Phones |-> Nobody] /\ machines = [p \in Phones |-> FALSE]
      /\ pendingPair = [p \in Phones |-> Nobody] /\ cancelling = [p \in Phones |-> Nobody]
      /\ run = [i \in Ids |-> [phone |-> Nobody, key |-> Nobody, pc |-> "none",
                               heard |-> Nobody, shown |-> FALSE, nonceMachine |-> Nobody]]
      /\ cmd = [c \in Cmds |-> [kind |-> Nobody, pc |-> "none", pair |-> Nobody, key |-> Nobody]]
      /\ pending = NoPending /\ devices = {} /\ tmp = Nobody
      /\ cancelled = {} /\ overlapped = FALSE
  BY DEF Init, HubInit, PageInit, CliInit
<1>2. DOMAIN pairs = {}
  BY <1>1
<1>3. HubTypeOK
  BY <1>1, <1>2, PairAssumption DEF HubTypeOK
<1>4. PageTypeOK
  BY <1>1 DEF PageTypeOK, Run
<1>5. CliTypeOK
  BY <1>1 DEF CliTypeOK, Cmd
<1>6. TypeOK /\ NoncesAgree
  BY <1>1, <1>2, <1>3, <1>4, <1>5 DEF TypeOK, NoncesAgree
<1>7. RunsInOrder /\ CmdsInOrder /\ KeysAgree
  BY <1>1, <1>2, PairAssumption, CommandAssumption DEF RunsInOrder, CmdsInOrder, KeysAgree
<1>8. WrittenOnce /\ PendingAgrees
  BY <1>1, CommandAssumption DEF WrittenOnce, WrittenDown, Wrong, PendingAgrees
<1>9. AbortsHaveACause /\ KeysAreMade
  BY <1>1, <1>2, PairAssumption DEF AbortsHaveACause, AlarmHasACause, KeysAreMade
<1>10. OneChanges /\ DoneIsKnown
  BY <1>1, <1>2, PairAssumption DEF OneChanges, Changing, DoneIsKnown
<1>11. FewRuns
  <2>1. Begun = {}
    BY <1>1 DEF Begun
  <2>. QED
    BY <2>1, FS_EmptySet DEF FewRuns
<1>. QED
  BY <1>6, <1>7, <1>8, <1>9, <1>10, <1>11 DEF PaInv

LEMMA StepPairing == PaInv /\ [Next]_vars => PaInv'
<1>. SUFFICES ASSUME PaInv, [Next]_vars PROVE PaInv'
  OBVIOUS
<1>1. /\ TypeOK /\ RunsInOrder /\ CmdsInOrder /\ KeysAgree
      /\ NoncesAgree /\ WrittenOnce /\ PendingAgrees /\ AbortsHaveACause
      /\ KeysAreMade /\ OneChanges /\ DoneIsKnown /\ FewRuns
  BY DEF PaInv
<1>2. Moves
  BY <1>1, StepMoves
<1>3. TypeOK' /\ RunsInOrder' /\ CmdsInOrder'
  BY <1>1, <1>2, KeepsTypes, KeepsRunsInOrder, KeepsCmdsInOrder
<1>4. KeysAgree' /\ NoncesAgree' /\ WrittenOnce' /\ PendingAgrees'
  BY <1>1, <1>2, KeepsKeys, KeepsNonces, KeepsWrittenOnce, KeepsPending
<1>5. AbortsHaveACause' /\ KeysAreMade' /\ OneChanges' /\ DoneIsKnown'
  BY <1>1, <1>2, KeepsCauses, KeepsMadeKeys, KeepsOneChanges, KeepsDone
<1>6. FewRuns'
  BY <1>1, OneBegins, FS_AddElement, FS_Subset DEF FewRuns
<1>. QED
  BY <1>3, <1>4, <1>5, <1>6 DEF PaInv

(* Whoever pressed what and in which terminal, the number the machine      *)
(* expects is the one the phone shows whose key it is about to add         *)
(* (term/bin/ccrc-term-cli.js: cmdPair; server/public/app.js:              *)
(* startPairing).                                                          *)
THEOREM NumbersDoAgree == Spec => []NumbersAgree
<1>1. PaInv => NumbersAgree
  BY DEF PaInv, PendingAgrees, NumbersAgree
<1>. QED
  BY FirstPairing, StepPairing, <1>1, PTL DEF Spec

(* A phone raises the alarm only after a wrong number was typed on the     *)
(* machine or its own user cancelled (server/public/app.js:                *)
(* waitForPairVerdict; server/src/pairing.js: finish).                     *)
THEOREM AlarmsHaveCauses == Spec => []AlarmHasACause
<1>1. PaInv => AlarmHasACause
  BY DEF PaInv, AbortsHaveACause
<1>. QED
  BY FirstPairing, StepPairing, <1>1, PTL DEF Spec

(* After a wrong number no confirmation of the same pairing gets as far as *)
(* devices.json: its number is never written down a second time            *)
(* (term/bin/ccrc-term-cli.js: cmdPairConfirm).                            *)
THEOREM WrongIsFinal == Spec => WrongNumberIsFinal
<1>. DEFINE Final == \A c \in Cmds : ConfirmMatches(c) => pending.pair \notin Wrong
<1>1. PaInv /\ [Next]_vars => [Final]_vars
  BY DEF PaInv, WrittenOnce, ConfirmMatches
<1>. QED
  BY FirstPairing, StepPairing, <1>1, PTL DEF Spec, WrongNumberIsFinal

(* A phone that offers to open the machine signs with a key that is in     *)
(* devices.json, but for the three exceptions the property names           *)
(* (server/public/app.js: ensureDeviceKey; term/src/devices.js: writeAll). *)
THEOREM RememberedIsKnown == Spec => []RememberedOpens
<1>1. ASSUME PaInv, NEW p \in Phones, machines[p], ~Unpaired, ~overlapped,
             ~(Cardinality(MadeKeys(p)) > 1)
      PROVE  stored[p] \in devices
  <2>1. PICK i \in Ids : run[i].phone = p /\ run[i].key \in Ids /\ run[i].key \in devices
    BY <1>1 DEF PaInv, DoneIsKnown, Known
  <2>2. run[i].key \in MadeKeys(p) /\ stored[p] \in MadeKeys(p)
    BY <1>1, <2>1 DEF PaInv, KeysAreMade
  <2>3. MadeKeys(p) \subseteq Begun
    BY <1>1, PhoneAssumption DEF MadeKeys, Begun, PaInv, RunsInOrder
  <2>4. IsFiniteSet(MadeKeys(p))
    BY <1>1, <2>3, FS_Subset DEF PaInv, FewRuns
  <2>5. Cardinality(MadeKeys(p)) \in Nat /\ Cardinality(MadeKeys(p)) # 0
    BY <2>2, <2>4, FS_CardinalityType, FS_EmptySet
  <2>6. Cardinality(MadeKeys(p)) = 1
    BY <1>1, <2>5
  <2>7. PICK x : MadeKeys(p) = {x}
    BY <2>4, <2>6, FS_Singleton
  <2>. QED
    BY <2>1, <2>2, <2>7
<1>2. PaInv => RememberedOpens
  BY <1>1 DEF RememberedOpens
<1>. QED
  BY FirstPairing, StepPairing, <1>2, PTL DEF Spec
=============================================================================
