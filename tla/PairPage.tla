------------------------------ MODULE PairPage -----------------------------
(***************************************************************************)
(* The phone's part in pairing, server/public/app.js: each tap on "pair    *)
(* this machine" starts a run of startPairing(), which makes a key if the  *)
(* phone has none, waits for the machine's nonce, opens its own, shows the *)
(* number and watches for the verdict.  Runs of one page may overlap: they *)
(* share the stored key and the variable pendingPair.                      *)
(***************************************************************************)
EXTENDS PairHub

CONSTANT Phones

ASSUME PhoneAssumption == Nobody \notin Phones

VARIABLES stored,       \* the key in IndexedDB; keys go by the run that made them
          machines,     \* whether the record beside it lists the machine
          pendingPair,  \* the run the page watches
          run,          \* one run of startPairing() for each pairing
          cancelling    \* the run whose cancellation is under way

pageVars == <<stored, machines, pendingPair, run, cancelling>>

Run == [phone : Phones \cup {Nobody}, key : Ids \cup {Nobody},
        pc : {"none", "keygen", "start", "wait", "reveal", "watch", "asked",
              "remember", "over"},
        heard : {Nobody, "started", "challenged", "revealed", "done", "aborted"},
        shown : BOOLEAN, nonceMachine : Cmds \cup {Nobody}]

PageTypeOK ==
    /\ stored \in [Phones -> Ids \cup {Nobody}]
    /\ machines \in [Phones -> BOOLEAN]
    /\ pendingPair \in [Phones -> Ids \cup {Nobody}]
    /\ run \in [Ids -> Run]
    /\ cancelling \in [Phones -> Ids \cup {Nobody}]

PageInit ==
    /\ stored = [p \in Phones |-> Nobody]
    /\ machines = [p \in Phones |-> FALSE]
    /\ pendingPair = [p \in Phones |-> Nobody]
    /\ run = [i \in Ids |-> [phone |-> Nobody, key |-> Nobody, pc |-> "none",
                             heard |-> Nobody, shown |-> FALSE, nonceMachine |-> Nobody]]
    /\ cancelling = [p \in Phones |-> Nobody]

Goes(i, pc) == run' = [run EXCEPT ![i].pc = pc]
IsOver(i) == run' = [run EXCEPT ![i].pc = "over", ![i].heard = Nobody]

\* The number: a function of the key and of both nonces, by both programs.
Sas(key, i, nonceMachine) == <<key, i, nonceMachine>>
Number(i) == Sas(run[i].key, i, run[i].nonceMachine)

\* startPairing() up to ensureDeviceKey()'s look at the store.  The card of a
\* machine the phone remembers offers to open it, and only that.
TapPair(p, i) ==
    /\ ~machines[p]
    /\ run[i].pc = "none" /\ \A j \in Ids : j < i => run[j].pc # "none"
    /\ run' = [run EXCEPT ![i].phone = p, ![i].key = stored[p],
                          ![i].pc = IF stored[p] = Nobody THEN "keygen" ELSE "start"]
    /\ UNCHANGED <<hubVars, stored, machines, pendingPair, cancelling>>

\* generateKey() and idbPut(): what was read before the await decides.
StoresKey(i) ==
    /\ run[i].pc = "keygen"
    /\ stored' = [stored EXCEPT ![run[i].phone] = i]
    /\ run' = [run EXCEPT ![i].key = i, ![i].pc = "start"]
    /\ UNCHANGED <<hubVars, machines, pendingPair, cancelling>>

\* POST /api/pair/start; answered, or request or answer is lost and the run ends.
StartSent(i) ==
    /\ run[i].pc = "start"
    /\ \/ /\ HubStart(i, run[i].key)
          /\ run' = [run EXCEPT ![i].pc = "wait"]
          /\ UNCHANGED faults
       \/ HubStart(i, run[i].key) /\ Fault /\ IsOver(i)
       \/ RequestLost /\ IsOver(i)
    /\ UNCHANGED <<stored, machines, pendingPair, cancelling>>

\* The loop for the machine's nonce: any answer that holds one ends it.
HearsNonce(i) ==
    /\ run[i].pc = "wait"
    /\ i \in Live /\ pairs[i].nonceMachine # Nobody
    /\ run' = [run EXCEPT ![i].pc = "reveal", ![i].nonceMachine = pairs[i].nonceMachine]
    /\ UNCHANGED <<hubVars, stored, machines, pendingPair, cancelling>>

WaitGivesUp(i) ==
    /\ run[i].pc = "wait"
    /\ IsOver(i)
    /\ UNCHANGED <<hubVars, stored, machines, pendingPair, cancelling>>

\* POST /api/pair/reveal, then the number.  The answer itself is not looked at;
\* a request that fails on the network ends the run before the number.
Reveals(i) ==
    /\ run[i].pc = "reveal"
    /\ \/ /\ HubReveal(i)
          /\ pendingPair' = [pendingPair EXCEPT ![run[i].phone] = i]
          /\ run' = [run EXCEPT ![i].pc = "watch", ![i].shown = TRUE]
          /\ UNCHANGED faults
       \/ HubReveal(i) /\ Fault /\ IsOver(i) /\ UNCHANGED pendingPair
       \/ RequestLost /\ IsOver(i) /\ UNCHANGED pendingPair
    /\ UNCHANGED <<stored, machines, cancelling>>

\* A turn of waitForPairVerdict(): it asks, if this run is still the one
\* watched, and looks again when the answer is there.
AsksVerdict(i) ==
    /\ run[i].pc = "watch"
    /\ IF pendingPair[run[i].phone] = i
       THEN run' = [run EXCEPT ![i].pc = "asked", ![i].heard = HubGet(i)]
       ELSE IsOver(i)
    /\ UNCHANGED <<hubVars, stored, machines, pendingPair, cancelling>>

StillWatched(i) == pendingPair[run[i].phone] = i

HearsVerdict(i) ==
    /\ run[i].pc = "asked"
    /\ \/ /\ StillWatched(i) /\ run[i].heard = "done"
          /\ machines' = [machines EXCEPT ![run[i].phone] = TRUE]
          /\ Goes(i, "remember")
          /\ UNCHANGED pendingPair
       \/ /\ StillWatched(i) /\ run[i].heard = "aborted"
          /\ pendingPair' = [pendingPair EXCEPT ![run[i].phone] = Nobody]
          /\ IsOver(i)
          /\ UNCHANGED machines
       \/ /\ StillWatched(i) /\ run[i].heard \notin {"done", "aborted"}
          /\ Goes(i, "watch")
          /\ UNCHANGED <<machines, pendingPair>>
       \/ /\ ~StillWatched(i)
          /\ IsOver(i)
          /\ UNCHANGED <<machines, pendingPair>>
    /\ UNCHANGED <<hubVars, stored, cancelling>>

\* After the await of rememberMachine(): pendingPair is dropped, whosever it is.
Remembered(i) ==
    /\ run[i].pc = "remember"
    /\ pendingPair' = [pendingPair EXCEPT ![run[i].phone] = Nobody]
    /\ IsOver(i)
    /\ UNCHANGED <<hubVars, stored, machines, cancelling>>

\* 120 polls without a verdict.
WatchGivesUp(i) ==
    /\ run[i].pc = "watch"
    /\ IsOver(i)
    /\ UNCHANGED <<hubVars, stored, machines, pendingPair, cancelling>>

\* A poll that fails on the network ends the watch, and leaves pendingPair.
WatchFails(i) ==
    /\ run[i].pc = "asked"
    /\ IsOver(i)
    /\ Fault
    /\ UNCHANGED <<pairs, stored, machines, pendingPair, cancelling>>

\* cancelPairing(): the request, and after its await.
Cancels(p) ==
    /\ pendingPair[p] # Nobody
    /\ cancelling[p] = Nobody
    /\ \/ HubFinish(pendingPair[p], FALSE) /\ UNCHANGED faults
       \/ RequestLost
    /\ cancelling' = [cancelling EXCEPT ![p] = pendingPair[p]]
    /\ UNCHANGED <<stored, machines, pendingPair, run>>

Cancelled(p) ==
    /\ cancelling[p] # Nobody
    /\ cancelling' = [cancelling EXCEPT ![p] = Nobody]
    /\ pendingPair' = [pendingPair EXCEPT ![p] = Nobody] \/ UNCHANGED pendingPair
    /\ UNCHANGED <<hubVars, stored, machines, run>>

\* The page is opened again: its runs are gone, the store is not.
PageReloads(p) ==
    /\ \E i \in Ids : run[i].phone = p /\ run[i].pc # "over"
    /\ run' = [i \in Ids |-> IF run[i].phone = p
                             THEN [run[i] EXCEPT !.pc = "over", !.heard = Nobody]
                             ELSE run[i]]
    /\ pendingPair' = [pendingPair EXCEPT ![p] = Nobody]
    /\ cancelling' = [cancelling EXCEPT ![p] = Nobody]
    /\ Fault
    /\ UNCHANGED <<pairs, stored, machines>>

Continues(i) == StoresKey(i) \/ StartSent(i) \/ HearsNonce(i) \/ WaitGivesUp(i)
              \/ Reveals(i) \/ AsksVerdict(i) \/ HearsVerdict(i) \/ Remembered(i)

PageNext ==
    \/ \E p \in Phones : (\E i \in Ids : TapPair(p, i)) \/ Cancels(p) \/ Cancelled(p) \/ PageReloads(p)
    \/ \E i \in Ids : Continues(i) \/ WatchGivesUp(i) \/ WatchFails(i)

=============================================================================
