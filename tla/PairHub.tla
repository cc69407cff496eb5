------------------------------ MODULE PairHub ------------------------------
(***************************************************************************)
(* The hub's part in pairing a phone with a machine, server/src/pairing.js *)
(* and its routes: it keeps what each side hands in, in order, and forgets *)
(* a pairing after five minutes.  One user; a pairing, the phone's nonce   *)
(* and the commitment to it all go by one name, a member of Ids.  Time is  *)
(* left out: what ends after some minutes may end at any moment.           *)
(***************************************************************************)
EXTENDS Integers

CONSTANTS Ids,          \* pairings, each started once
          Cmds,         \* commands on the machine, each with a nonce of its own
          Nobody,       \* null
          MaxFaults     \* bound on what expires, restarts, is killed or lost

ASSUME PairAssumption ==
    /\ Ids \subseteq Nat /\ Cmds \subseteq Nat
    /\ Nobody \notin Ids \cup Cmds
    /\ Nobody \notin {"started", "challenged", "revealed", "done", "aborted"}
    /\ MaxFaults \in Nat

VARIABLES pairs,        \* byId, a function whose domain is what the hub holds
          faults        \* how much went wrong so far

hubVars == <<pairs, faults>>

Pair == [key : Ids, state : {"started", "challenged", "revealed", "done", "aborted"},
         nonceMachine : Cmds \cup {Nobody}, noncePhone : Ids \cup {Nobody}]

HubTypeOK ==
    /\ faults \in 0 .. MaxFaults
    /\ DOMAIN pairs \subseteq Ids
    /\ \A i \in DOMAIN pairs : pairs[i] \in Pair

HubInit ==
    /\ faults = 0
    /\ pairs = [i \in {} |-> Nobody]

Fault == faults < MaxFaults /\ faults' = faults + 1
RequestLost == UNCHANGED pairs /\ Fault

\* own(): what prune() left, in the state an operation needs.
Live == DOMAIN pairs
InState(i, s) == i \in Live /\ pairs[i].state = s

HubStart(i, key) ==
    pairs' = [j \in Live \cup {i} |->
                 IF j \in Live THEN pairs[j]
                 ELSE [key |-> key, state |-> "started", nonceMachine |-> Nobody,
                       noncePhone |-> Nobody]]

PendingIds == {i \in Live : pairs[i].state = "started"}

\* Mutant: whatever state the pairing is in.
AnyTime(i, s, changed) == pairs' = IF i \in Live THEN [pairs EXCEPT ![i] = changed] ELSE pairs

\* A request out of order is refused and changes nothing.
InOrder(i, s, changed) ==
    pairs' = IF InState(i, s) THEN [pairs EXCEPT ![i] = changed] ELSE pairs

HubChallenge(i, nonce) ==
    InOrder(i, "started", [pairs[i] EXCEPT !.state = "challenged", !.nonceMachine = nonce])

HubReveal(i) ==
    InOrder(i, "challenged", [pairs[i] EXCEPT !.state = "revealed", !.noncePhone = i])

\* Mutant: whatever the machine's user decided.
FinishedIsDone(i, ok) == InOrder(i, "revealed", [pairs[i] EXCEPT !.state = "done"])

HubFinish(i, ok) ==
    InOrder(i, "revealed", [pairs[i] EXCEPT !.state = IF ok THEN "done" ELSE "aborted"])

\* Mutant: a pairing that is gone was broken off.
GoneIsAborted(i) == IF i \in Live THEN pairs[i].state ELSE "aborted"

\* get(): what either side sees when it asks for a pairing; Nobody is the 404.
HubGet(i) == IF i \in Live THEN pairs[i].state ELSE Nobody

\* prune(): PAIR_TTL_MS after its start a pairing is gone, whatever its state.
Expires(i) ==
    /\ i \in Live
    /\ pairs' = [j \in Live \ {i} |-> pairs[j]]
    /\ Fault

\* Nothing is persisted: a hub that starts again knows no pairing.
HubRestarts ==
    /\ Live # {}
    /\ pairs' = [i \in {} |-> Nobody]
    /\ Fault

=============================================================================
