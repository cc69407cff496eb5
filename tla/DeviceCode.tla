----------------------------- MODULE DeviceCode -----------------------------
(***************************************************************************)
(* Machines that log in by a short code: the hub's pending codes           *)
(* (server/src/device-code.js, with /api/device in index.js), the          *)
(* installer that polls for its own (server/public/install.sh), and the    *)
(* pages that approve one.  A code is known by the machine that shows it.  *)
(***************************************************************************)
EXTENDS HubLogin

CONSTANTS Machines,
          MaxPending,   \* MAX_PENDING
          MaxWrong      \* MAX_WRONG

ASSUME CodeAssumption == MaxPending \in Nat /\ MaxWrong \in Nat

VARIABLES code,     \* byDevice: the entry of each machine's code
          grant,    \* the login whose token it was granted, or 0
          wrong,    \* wrongByApprover
          machine,  \* the installer
          has,      \* the login whose token it got, or 0
          told      \* history: pages told that they approved it, by their logins

codeVars == <<code, grant, wrong>>
machineVars == <<machine, has, told>>
vars == <<hubVars, codeVars, machineVars>>

CodeTypeOK ==
    /\ code \in [Machines -> {"none", "pending", "granted"}]
    /\ grant \in [Machines -> Logins \cup {0}] /\ has \in [Machines -> Logins \cup {0}]
    /\ wrong \in [People -> 0 .. MaxWrong]
    /\ machine \in [Machines -> {"new", "waiting", "in", "by hand"}]
    /\ told \in [Machines -> SUBSET Logins]

CodeInit ==
    /\ code = [m \in Machines |-> "none"]
    /\ grant = [m \in Machines |-> 0] /\ has = grant
    /\ wrong = [p \in People |-> 0]
    /\ machine = [m \in Machines |-> "new"]
    /\ told = [m \in Machines |-> {}]

Pending == {m \in Machines : code[m] # "none"}

-----------------------------------------------------------------------------
\* POST /api/device/start.  The limit per address refuses at any time; an
\* installer that gets no code asks for a token by hand.
Starts(m) ==
    /\ machine[m] = "new"
    /\ \/ /\ machine' = [machine EXCEPT ![m] = "by hand"]
          /\ UNCHANGED <<code, faults>>
       \/ /\ Cardinality(Pending) < MaxPending
          /\ code' = [code EXCEPT ![m] = "pending"]
          /\ \/ machine' = [machine EXCEPT ![m] = "waiting"] /\ UNCHANGED faults
             \/ machine' = [machine EXCEPT ![m] = "by hand"] /\ Fault
    /\ UNCHANGED <<userVars, loginVars, grant, wrong, has, told>>

\* Mutant: a code that was approved can be approved.
StillThere(m) == code[m] # "none"

CanBeApproved(m) == code[m] = "pending"

\* POST /api/device/approve from b's page, for the code m shows or showed; the
\* answer may be lost.  A page whose token is refused logs out.
Approves(b, m) ==
    LET l == page[b]
        p == who[l] IN
    /\ l # 0
    /\ IF known[p] # token[l]
       THEN page' = [page EXCEPT ![b] = 0] /\ UNCHANGED <<codeVars, told, faults>>
       ELSE /\ wrong[p] < MaxWrong
            /\ IF CanBeApproved(m)
               THEN /\ code' = [code EXCEPT ![m] = "granted"]
                    /\ grant' = [grant EXCEPT ![m] = l]
                    /\ wrong' = [wrong EXCEPT ![p] = 0]
                    /\ \/ told' = [told EXCEPT ![m] = @ \cup {l}] /\ UNCHANGED faults
                       \/ UNCHANGED told /\ Fault
               ELSE wrong' = [wrong EXCEPT ![p] = @ + 1] /\ UNCHANGED <<code, grant, told, faults>>
            /\ UNCHANGED page
    /\ UNCHANGED <<userVars, cookie, login, whoVars, states, claims, carried, machine, has>>

\* prune().
WrongForgotten(p) ==
    /\ wrong[p] > 0 /\ wrong' = [wrong EXCEPT ![p] = 0]
    /\ UNCHANGED <<hubVars, code, grant, machineVars>>

CodeExpires(m) ==
    /\ code[m] # "none" /\ code' = [code EXCEPT ![m] = "none"]
    /\ UNCHANGED <<hubVars, grant, wrong, machineVars>>

\* POST /api/device/poll for a code that was granted or is gone.  If the answer
\* with the token is lost, the next poll hears that the code is gone.
Polls(m) ==
    /\ machine[m] = "waiting" /\ code[m] # "pending"
    /\ code' = [code EXCEPT ![m] = "none"]
    /\ \/ /\ code[m] = "granted"
          /\ machine' = [machine EXCEPT ![m] = "in"]
          /\ has' = [has EXCEPT ![m] = grant[m]]
          /\ UNCHANGED faults
       \/ /\ code[m] = "granted" /\ Fault
          /\ UNCHANGED <<machine, has>>
       \/ /\ code[m] = "none"
          /\ machine' = [machine EXCEPT ![m] = "by hand"]
          /\ UNCHANGED <<has, faults>>
    /\ UNCHANGED <<userVars, loginVars, grant, wrong, told>>

HubRestarts ==
    /\ LoginsForgotten
    /\ code' = [m \in Machines |-> "none"]
    /\ wrong' = [p \in People |-> 0]
    /\ UNCHANGED <<grant, machineVars>>

-----------------------------------------------------------------------------
Init == LoginInit /\ CodeInit

LoginSteps ==
    \/ DeployWrites \/ HubNotices
    \/ \E p \in People, op \in {"adduser", "deluser"} : DeployReads(op, p)
    \/ \E b \in Browsers : AuthStart(b) \/ \E l \in Logins : Callback(l, b) \/ Claims(l, b)
    \/ \E l \in Logins : StateExpires(l) \/ Exchanged(l) \/ ClaimExpires(l)

CodeSteps ==
    \/ HubRestarts
    \/ \E p \in People : WrongForgotten(p)
    \/ \E m \in Machines : \/ Starts(m) \/ CodeExpires(m) \/ Polls(m)
                           \/ \E b \in Browsers : Approves(b, m)

Next == \/ LoginSteps /\ UNCHANGED <<codeVars, machineVars>>
        \/ CodeSteps

Spec == Init /\ [][Next]_vars

-----------------------------------------------------------------------------
TypeOK == LoginTypeOK /\ CodeTypeOK

HandedOut ==
    {page[b] : b \in Browsers} \cup claims \cup {has[m] : m \in Machines}
    \cup {grant[m] : m \in Pending}

\* The token of a page, of a claim on its way, of a machine and of a granted code
\* stays in users.json through logins, restarts and deploy.sh until the person is
\* removed, and it works as long as the hub can read the file (index.js:74-88,
\* 117-160 and users.js:95-97).  The overwriting deploy.sh:66-72 admits, and a
\* login that cannot read the file, lose tokens too; from a load that fails to the
\* next that does not, no token works.
HandedOutWorks ==
    \A l \in HandedOut \ {0} :
        /\ token[l] \in lost \cup {file[who[l]]}
        /\ blind \/ token[l] \in lost \cup {known[who[l]]}

\* A browser acts for somebody only after a login that was begun in it, or by the
\* address of a claim that was carried into it from there, and no login ends in
\* two browsers (index.js:496-509, 654-658).
LoginStaysHome ==
    \A b \in Browsers : page[b] # 0 =>
        /\ by[page[b]] = IF page[b] \in carried THEN at[page[b]] ELSE b
        /\ \A c \in Browsers : page[c] = page[b] => c = b

\* Of those who typed a machine's code at most one is told that the machine is
\* now theirs, and it then works for no one else.
ApprovalIsFinal == \A m \in Machines :
    /\ told[m] \subseteq {grant[m]}
    /\ has[m] # 0 => has[m] = grant[m]

=============================================================================
