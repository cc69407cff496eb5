-------------------------- MODULE DeviceCodeProofs --------------------------
(***************************************************************************)
(* What holds of logins and device codes for any number of people,         *)
(* browsers and machines, and however many logins, failures and restarts.  *)
(***************************************************************************)
EXTENDS DeviceCode, TLAPS

\* Where logins are: a cookie names a login that was begun in its browser, a
\* login under way is in the browser it was begun in, and a page's is over: it was
\* claimed once, there or where its address was carried to.
Home ==
    /\ \A b \in Browsers : cookie[b] # 0 => by[cookie[b]] = b /\ login[cookie[b]] # "none"
    /\ \A l \in Logins : login[l] \in {"exchanging", "landed"} => at[l] = by[l]
    /\ \A l \in carried : login[l] = "over"
    /\ \A b \in Browsers : page[b] # 0 => login[page[b]] = "over"
    /\ LoginStaysHome

\* What was handed out is a token, and one that is not lost is in the file and,
\* unless the hub could not read that, in its table.
Good(l) ==
    \/ token[l] \in lost
    \/ file[who[l]] = token[l] /\ (blind \/ known[who[l]] = token[l])

Works ==
    /\ \A l \in Logins : token[l] # 0 => who[l] \in People /\ Good(l)
    /\ \A l \in Logins : login[l] = "landed" => token[l] # 0
    /\ \A l \in claims : login[l] = "landed"
    /\ \A b \in Browsers : page[b] # 0 => token[page[b]] # 0
    /\ \A m \in Machines : /\ grant[m] # 0 => token[grant[m]] # 0
                           /\ has[m] # 0 => token[has[m]] # 0

\* A code that waits for its approval was not approved before.
Fresh(m) == told[m] = {} /\ has[m] = 0

Approval ==
    /\ ApprovalIsFinal
    /\ \A m \in Machines : /\ code[m] = "pending" => Fresh(m)
                           /\ machine[m] = "new" => Fresh(m) /\ code[m] = "none"

-----------------------------------------------------------------------------
LEMMA InitTypes == Init => TypeOK
<1> SUFFICES ASSUME Init PROVE TypeOK
  OBVIOUS
<1> USE LoginAssumption, CodeAssumption DEF Init, LoginInit, CodeInit, Token, Logins
<1>1. file \in [People -> Token] /\ known \in [People -> Token] /\ minted \in Token
  OBVIOUS
<1>2. deploy \in Job /\ changed \in BOOLEAN /\ blind \in BOOLEAN
  BY DEF Job, Idle
<1>3. /\ login \in [Logins -> {"none", "away", "exchanging", "landed", "over"}]
      /\ by \in [Logins -> Browsers \cup {Nobody}] /\ at \in [Logins -> Browsers \cup {Nobody}]
      /\ who \in [Logins -> People \cup {Nobody}] /\ token \in [Logins -> Token]
  OBVIOUS
<1>4. cookie \in [Browsers -> Logins \cup {0}] /\ page \in [Browsers -> Logins \cup {0}]
  OBVIOUS
<1>5. lost \subseteq Token \ {0} /\ states \subseteq Logins /\ claims \subseteq Logins
      /\ carried \subseteq Logins /\ faults \in 0 .. MaxFaults
  OBVIOUS
<1>6. CodeTypeOK
  BY DEF CodeTypeOK
<1> QED
  BY <1>1, <1>2, <1>3, <1>4, <1>5, <1>6 DEF TypeOK, LoginTypeOK

\* A failure takes one from the bound on them.
LEMMA FaultTypes == ASSUME LoginTypeOK, Fault PROVE faults' \in 0 .. MaxFaults
  BY LoginAssumption DEF LoginTypeOK, Fault, Faults

\* A load leaves a table of tokens, whether it could read the file or not.
LEMMA LoadTypes ==
  ASSUME LoginTypeOK, NEW list \in [People -> Nat], NEW n \in Nat, LoadUsers(list, n)
  PROVE known' \in [People -> Nat] /\ blind' \in BOOLEAN /\ faults' \in 0 .. MaxFaults
<1>1. \/ known' = list /\ blind' = FALSE /\ Faults(n)
      \/ known' = Empty /\ blind' = TRUE /\ Faults(n + 1)
  BY DEF LoadUsers
<1>2. known' \in [People -> Nat]
  BY <1>1 DEF Empty
<1>3. faults \in Nat /\ (Faults(n) \/ Faults(n + 1))
  BY <1>1, LoginAssumption DEF LoginTypeOK
<1>4. faults' \in 0 .. MaxFaults
  BY <1>3, LoginAssumption DEF Faults
<1>5. blind' \in BOOLEAN
  BY <1>1
<1> QED
  BY <1>2, <1>4, <1>5

\* A function with a value of its range put in is of the same type.
LEMMA PutTypes ==
  ASSUME NEW S, NEW T, NEW f \in [S -> T], NEW x, NEW y \in T
  PROVE [f EXCEPT ![x] = y] \in [S -> T]
  OBVIOUS

\* What is lost is a token.
LEMMA MissingTypes ==
  ASSUME file \in [People -> Nat], NEW list PROVE MissingFrom(list) \subseteq Nat \ {0}
  BY DEF MissingFrom

\* The steps of logins keep the types of their state.
LEMMA LoginStepTypes == ASSUME LoginTypeOK, LoginSteps PROVE LoginTypeOK'
<1> USE LoginAssumption DEF Token, Logins
<1>1. CASE DeployWrites
  <2>1. deploy.list \in [People -> Nat]
    BY DEF Job, LoginTypeOK
  <2>2. minted' \in Nat
    BY <1>1 DEF DeployWrites, LoginTypeOK
  <2>3. file' \in [People -> Nat]
    BY <1>1, <2>1, <2>2 DEF DeployWrites
  <2>4. lost' \subseteq Nat \ {0}
    <3>1. MissingFrom(file') \subseteq Nat \ {0}
      BY MissingTypes DEF LoginTypeOK
    <3> QED
      BY <1>1, <3>1 DEF DeployWrites, LoginTypeOK
  <2>5. deploy' \in Job
    BY <1>1 DEF DeployWrites, Idle, Job
  <2> QED
    BY <1>1, <2>2, <2>3, <2>4, <2>5 DEF DeployWrites, LoginTypeOK, loginVars, whoVars
<1>2. CASE HubNotices
  <2>1. known' \in [People -> Nat] /\ blind' \in BOOLEAN /\ faults' \in 0 .. MaxFaults
    BY <1>2, LoadTypes DEF HubNotices, LoginTypeOK
  <2> QED
    BY <1>2, <2>1 DEF HubNotices, LoginTypeOK, loginVars, whoVars
<1>3. ASSUME NEW p \in People, NEW op \in {"adduser", "deluser"}, DeployReads(op, p)
      PROVE LoginTypeOK'
  <2>1. deploy' \in Job
    BY <1>3 DEF DeployReads, Job, LoginTypeOK
  <2> QED
    BY <1>3, <2>1, FaultTypes DEF DeployReads, LoginTypeOK, loginVars, whoVars, tableVars
<1>4. ASSUME NEW b \in Browsers, AuthStart(b) PROVE LoginTypeOK'
  BY <1>4 DEF AuthStart, LoginTypeOK, userVars, tableVars
<1>5. ASSUME NEW b \in Browsers, NEW l \in Logins, Callback(l, b) PROVE LoginTypeOK'
  <2>1. CASE l \in states /\ IsItsBrowser(l, b)
    <3>1. cookie' \in [Browsers -> Logins \cup {0}]
      BY <1>5, <2>1 DEF Callback, LoginTypeOK
    <3>2. at' \in [Logins -> Browsers \cup {Nobody}]
      BY <1>5, <2>1 DEF Callback, LoginTypeOK
    <3>3. login' \in [Logins -> {"none", "away", "exchanging", "landed", "over"}]
      BY <1>5, <2>1 DEF Callback, LoginTypeOK
    <3> QED
      BY <1>5, <2>1, <3>1, <3>2, <3>3 DEF Callback, LoginTypeOK, userVars, tableVars
  <2>2. CASE ~(l \in states /\ IsItsBrowser(l, b))
    BY <1>5, <2>2 DEF Callback, LoginTypeOK, userVars, tableVars
  <2> QED
    BY <2>1, <2>2
<1>6. ASSUME NEW l \in Logins, StateExpires(l) \/ ClaimExpires(l) PROVE LoginTypeOK'
  BY <1>6 DEF StateExpires, ClaimExpires, LoginTypeOK, userVars, tableVars, whoVars
<1>7. ASSUME NEW l \in Logins, Exchanged(l) PROVE LoginTypeOK'
  <2>1. ASSUME NEW p \in People, SaveSlackUser(l, p), claims' = claims \cup {l}
        PROVE LoginTypeOK'
    <3>1. PICK list \in {file, Empty} : SaveSlackUser(l, p)!(list)
      BY <2>1 DEF SaveSlackUser
    <3>2. list \in [People -> Nat]
      BY DEF LoginTypeOK, Empty
    <3>3. TokenFor(list, p) \in Nat
      BY <3>2 DEF TokenFor, LoginTypeOK
    <3>4. file' \in [People -> Nat] /\ minted' \in Nat
      BY <3>1, <3>2, <3>3 DEF LoginTypeOK
    <3>5. lost' \subseteq Nat \ {0}
      <4>1. MissingFrom(list) \subseteq Nat \ {0}
        BY MissingTypes DEF LoginTypeOK
      <4> QED
        BY <3>1, <4>1 DEF LoginTypeOK
    <3>6. known' \in [People -> Nat] /\ blind' \in BOOLEAN /\ faults' \in 0 .. MaxFaults
      <4>1. PICK new : new = file'
        OBVIOUS
      <4>2. PICK n \in Nat : LoadUsers(new, n)
        BY <3>1, <4>1
      <4> QED
        BY <3>4, <4>1, <4>2, LoadTypes
    <3>7. who' \in [Logins -> People \cup {Nobody}] /\ token' \in [Logins -> Nat]
      BY <3>1, <3>3 DEF LoginTypeOK
    <3>8. login' \in [Logins -> {"none", "away", "exchanging", "landed", "over"}]
      BY <3>1 DEF LoginTypeOK
    <3>9. changed' \in BOOLEAN
      BY <3>1
    <3> QED
      BY <1>7, <2>1, <3>9, <3>4, <3>5, <3>6, <3>7, <3>8 DEF Exchanged, LoginTypeOK
  <2>2. CASE /\ Fault
             /\ login' = [login EXCEPT ![l] = "over"]
             /\ UNCHANGED <<file, tableVars, minted, lost, who, token, claims>>
    BY <1>7, <2>2, FaultTypes DEF Exchanged, LoginTypeOK, tableVars
  <2> QED
    BY <1>7, <2>1, <2>2 DEF Exchanged
<1>8. ASSUME NEW l \in Logins, NEW b \in Browsers, Claims(l, b) PROVE LoginTypeOK'
  <2>1. page' \in [Browsers -> Logins \cup {0}]
    BY <1>8 DEF Claims, LoginTypeOK
  <2>2. faults' \in 0 .. MaxFaults
    BY <1>8, FaultTypes DEF Claims, LoginTypeOK
  <2> QED
    BY <1>8, <2>1, <2>2 DEF Claims, LoginTypeOK, userVars, tableVars, whoVars
<1> QED
  BY <1>1, <1>2, <1>3, <1>4, <1>5, <1>6, <1>7, <1>8 DEF LoginSteps

\* The steps of codes keep the types of all state.
LEMMA CodeStepTypes == ASSUME TypeOK, CodeSteps PROVE TypeOK'
<1>a. 0 \in 0 .. MaxWrong
  BY ONLY CodeAssumption
<1>b. wrong \in [People -> 0 .. MaxWrong]
  BY DEF TypeOK, CodeTypeOK
<1> USE LoginAssumption, CodeAssumption DEF TypeOK
<1>1. CASE HubRestarts
  <2>1. LoginTypeOK'
    <3>1. known' \in [People -> Nat] /\ blind' \in BOOLEAN /\ faults' \in 0 .. MaxFaults
      BY <1>1, LoadTypes DEF HubRestarts, LoginsForgotten, LoginTypeOK, Token
    <3> QED
      BY <1>1, <3>1 DEF HubRestarts, LoginsForgotten, LoginTypeOK, whoVars, Token
  <2>2. wrong' \in [People -> 0 .. MaxWrong]
    <3>1. wrong' = [p \in People |-> 0] /\ 0 \in 0 .. MaxWrong
      BY <1>1 DEF HubRestarts
    <3> QED
      BY ONLY <3>1
  <2>3. CodeTypeOK'
    BY <1>1, <2>2 DEF HubRestarts, CodeTypeOK, machineVars
  <2> QED
    BY <2>1, <2>3
<1>2. ASSUME NEW p \in People, WrongForgotten(p) PROVE TypeOK'
  <2>1. LoginTypeOK'
    BY <1>2 DEF WrongForgotten, hubVars, userVars, tableVars, loginVars, whoVars, LoginTypeOK
  <2>2. wrong' \in [People -> 0 .. MaxWrong]
    <3>1. wrong' = [wrong EXCEPT ![p] = 0]
      BY <1>2 DEF WrongForgotten
    <3> QED
      BY ONLY <1>a, <1>b, <3>1, PutTypes
  <2>3. CodeTypeOK'
    BY <1>2, <2>2 DEF WrongForgotten, machineVars, CodeTypeOK
  <2> QED
    BY <2>1, <2>3
<1>3. ASSUME NEW m \in Machines, Starts(m) PROVE TypeOK'
  <2>1. faults' \in 0 .. MaxFaults
    BY <1>3, FaultTypes DEF Starts, LoginTypeOK
  <2>2. LoginTypeOK'
    BY <1>3, <2>1 DEF Starts, userVars, tableVars, loginVars, whoVars, LoginTypeOK
  <2>3. CodeTypeOK'
    BY <1>3 DEF Starts, CodeTypeOK
  <2> QED
    BY <2>2, <2>3
<1>4. ASSUME NEW m \in Machines, CodeExpires(m) PROVE TypeOK'
  <2>1. LoginTypeOK'
    BY <1>4 DEF CodeExpires, hubVars, userVars, tableVars, loginVars, whoVars, LoginTypeOK
  <2>2. CodeTypeOK'
    BY <1>4 DEF CodeExpires, machineVars, CodeTypeOK
  <2> QED
    BY <2>1, <2>2
<1>5. ASSUME NEW m \in Machines, Polls(m) PROVE TypeOK'
  <2>1. faults' \in 0 .. MaxFaults
    BY <1>5, FaultTypes DEF Polls, LoginTypeOK
  <2>2. LoginTypeOK'
    BY <1>5, <2>1 DEF Polls, userVars, tableVars, loginVars, whoVars, LoginTypeOK
  <2>3. CodeTypeOK'
    BY <1>5 DEF Polls, CodeTypeOK
  <2> QED
    BY <2>2, <2>3
<1>6. ASSUME NEW m \in Machines, NEW b \in Browsers, Approves(b, m) PROVE TypeOK'
  <2>1. faults' \in 0 .. MaxFaults
    BY <1>6, FaultTypes DEF Approves, LoginTypeOK
  <2>2. page' \in [Browsers -> Logins \cup {0}]
    BY <1>6 DEF Approves, LoginTypeOK
  <2>3. LoginTypeOK'
    BY <1>6, <2>1, <2>2 DEF Approves, userVars, tableVars, whoVars, LoginTypeOK
  <2>4. CodeTypeOK'
    <3>1. CASE known[who[page[b]]] # token[page[b]]
      BY <1>6, <3>1 DEF Approves, codeVars, CodeTypeOK
    <3>2. CASE known[who[page[b]]] = token[page[b]]
      <4>1. page[b] \in Logins /\ who[page[b]] \in People \cup {Nobody}
        BY <1>6 DEF Approves, LoginTypeOK
      <4>2. wrong' \in [People -> 0 .. MaxWrong]
        <5> DEFINE p == who[page[b]]
        <5>2. wrong[p] < MaxWrong
          BY <1>6, <3>2 DEF Approves
        <5>3. p \in People => wrong[p] + 1 \in 0 .. MaxWrong
          BY ONLY <1>b, <5>2, CodeAssumption
        <5>4. \/ wrong' = [wrong EXCEPT ![p] = 0]
              \/ wrong' = [wrong EXCEPT ![p] = wrong[p] + 1]
          BY <1>6, <3>2 DEF Approves
        <5> HIDE DEF p
        <5>5. CASE wrong' = [wrong EXCEPT ![p] = 0]
          BY ONLY <1>a, <1>b, <5>5, PutTypes
        <5>6. CASE wrong' = [wrong EXCEPT ![p] = wrong[p] + 1] /\ p \in People
          BY ONLY <1>b, <5>3, <5>6, PutTypes
        <5>7. CASE wrong' = [wrong EXCEPT ![p] = wrong[p] + 1] /\ p \notin People
          BY ONLY <1>b, <5>7
        <5> QED
          BY <5>4, <5>5, <5>6, <5>7
      <4>3. code' \in [Machines -> {"none", "pending", "granted"}]
        BY <1>6, <3>2 DEF Approves, CodeTypeOK
      <4>4. grant' \in [Machines -> Logins \cup {0}]
        BY <1>6, <3>2, <4>1 DEF Approves, CodeTypeOK
      <4>5. told' \in [Machines -> SUBSET Logins]
        <5>1. told \in [Machines -> SUBSET Logins] /\ told[m] \cup {page[b]} \in SUBSET Logins
          BY <4>1 DEF CodeTypeOK
        <5>2. told' = told \/ told' = [told EXCEPT ![m] = told[m] \cup {page[b]}]
          BY <1>6, <3>2 DEF Approves
        <5> QED
          BY ONLY <5>1, <5>2, PutTypes
      <4> QED
        BY <1>6, <4>2, <4>3, <4>4, <4>5 DEF Approves, CodeTypeOK
    <3> QED
      BY <3>1, <3>2
  <2> QED
    BY <2>3, <2>4
<1> QED
  BY <1>1, <1>2, <1>3, <1>4, <1>5, <1>6 DEF CodeSteps

LEMMA StepTypes == TypeOK /\ [Next]_vars => TypeOK'
<1> SUFFICES ASSUME TypeOK, [Next]_vars PROVE TypeOK'
  OBVIOUS
<1>1. CASE UNCHANGED vars
  BY <1>1 DEF vars, hubVars, userVars, tableVars, loginVars, whoVars, codeVars, machineVars, TypeOK,
              LoginTypeOK, CodeTypeOK
<1>2. CASE LoginSteps /\ UNCHANGED <<codeVars, machineVars>>
  <2>1. CodeTypeOK'
    BY <1>2 DEF TypeOK, CodeTypeOK, codeVars, machineVars
  <2> QED
    BY <1>2, <2>1, LoginStepTypes DEF TypeOK
<1> QED
  BY <1>1, <1>2, CodeStepTypes DEF Next

\* Types, for any number of logins: above all every login has its people and
\* browsers where later steps read them.
THEOREM TypeCorrect == Spec => []TypeOK
  BY InitTypes, StepTypes, PTL DEF Spec

-----------------------------------------------------------------------------
\* Logins stay where they were begun: the steps of the users' file, of expiries
\* and of machines leave their places alone, and the others keep them.
LEMMA HomeStep == ASSUME TypeOK, Home, [Next]_vars PROVE Home'
<1> USE DEF TypeOK, LoginTypeOK
<1>0. SUFFICES ASSUME ~UNCHANGED <<cookie, login, by, at, page, carried>> PROVE Home'
  BY DEF Home, LoginStaysHome
<1>a. \A b \in Browsers : page[b] # 0 => page[b] \in Logins
  OBVIOUS
<1>1. ASSUME NEW b \in Browsers, AuthStart(b) PROVE Home'
  BY <1>1, <1>a DEF AuthStart, Home, LoginStaysHome
<1>2. ASSUME NEW b \in Browsers, NEW l \in Logins, Callback(l, b) PROVE Home'
  <2>1. l # 0
    BY LoginAssumption DEF Logins
  <2>2. CASE l \in states /\ IsItsBrowser(l, b)
    BY <1>2, <1>a, <2>1, <2>2 DEF Callback, IsItsBrowser, Home, LoginStaysHome
  <2>3. CASE ~(l \in states /\ IsItsBrowser(l, b))
    BY <1>2, <1>a, <2>3 DEF Callback, Home, LoginStaysHome
  <2> QED
    BY <2>2, <2>3
<1>3. ASSUME NEW l \in Logins, Exchanged(l) PROVE Home'
  BY <1>3, <1>a DEF Exchanged, SaveSlackUser, Home, LoginStaysHome
<1>4. ASSUME NEW l \in Logins, NEW b \in Browsers, Claims(l, b) PROVE Home'
  <2>1. /\ login[l] = "landed" /\ login' = [login EXCEPT ![l] = "over"]
        /\ carried' = IF at[l] = b THEN carried ELSE carried \cup {l}
        /\ page' = page \/ page' = [page EXCEPT ![b] = l]
        /\ UNCHANGED <<cookie, by, at>>
    BY <1>4 DEF Claims, whoVars
  <2>2. at[l] = by[l] /\ l \notin carried /\ \A c \in Browsers : page[c] # l
    BY <2>1, LoginAssumption DEF Home, Logins
  <2>3. /\ \A c \in Browsers : cookie'[c] # 0 => by'[cookie'[c]] = c /\ login'[cookie'[c]] # "none"
        /\ \A k \in Logins : login'[k] \in {"exchanging", "landed"} => at'[k] = by'[k]
        /\ \A k \in carried' : login'[k] = "over"
        /\ \A c \in Browsers : page'[c] # 0 => login'[page'[c]] = "over"
    BY <1>a, <2>1, <2>2 DEF Home
  <2>4. LoginStaysHome'
    BY <1>a, <2>1, <2>2 DEF Home, LoginStaysHome
  <2> QED
    BY <2>3, <2>4 DEF Home
<1>5. CASE HubRestarts
  BY <1>5, <1>a DEF HubRestarts, LoginsForgotten, whoVars, Home, LoginStaysHome
<1>6. ASSUME NEW b \in Browsers, NEW m \in Machines, Approves(b, m) PROVE Home'
  <2>1. page' = page \/ page' = [page EXCEPT ![b] = 0]
    BY <1>6 DEF Approves
  <2> QED
    BY <1>6, <2>1 DEF Approves, whoVars, Home, LoginStaysHome
<1>7. CASE LoginSteps
  <2>1. ~DeployWrites /\ ~HubNotices
    BY <1>0 DEF DeployWrites, HubNotices, loginVars, whoVars
  <2>2. \A p \in People, op \in {"adduser", "deluser"} : ~DeployReads(op, p)
    BY <1>0 DEF DeployReads, loginVars, whoVars
  <2>3. \A l \in Logins : ~StateExpires(l) /\ ~ClaimExpires(l)
    BY <1>0 DEF StateExpires, ClaimExpires, whoVars
  <2> QED
    BY <1>1, <1>2, <1>3, <1>4, <1>7, <2>1, <2>2, <2>3 DEF LoginSteps
<1>8. CASE CodeSteps
  <2>1. \A p \in People : ~WrongForgotten(p)
    BY <1>0 DEF WrongForgotten, hubVars, loginVars, whoVars
  <2>2. \A m \in Machines : ~Starts(m) /\ ~CodeExpires(m) /\ ~Polls(m)
    BY <1>0 DEF Starts, CodeExpires, Polls, hubVars, loginVars, whoVars
  <2> QED
    BY <1>5, <1>6, <1>8, <2>1, <2>2 DEF CodeSteps
<1> QED
  BY <1>0, <1>7, <1>8 DEF Next, vars, hubVars, loginVars, whoVars

\* A page acts for somebody only after a login begun in its own browser or by the
\* address of one carried there from the browser it was begun in, and no login ends
\* in two, in any number of browsers (index.js:496-509, 654-658): the cookie keeps a
\* callback from ending in another browser, and the claim is used up.
THEOREM StaysHome == Spec => []LoginStaysHome
<1>1. Init => Home
  BY DEF Init, LoginInit, Home, LoginStaysHome, Logins
<1>2. Home => LoginStaysHome
  BY DEF Home
<1> QED
  BY <1>1, <1>2, HomeStep, TypeCorrect, PTL DEF Spec

-----------------------------------------------------------------------------
\* A code's answer does not change: only a code that waits is approved, and one
\* that waits was told to nobody and given to no machine.
LEMMA ApprovalStep == ASSUME TypeOK, Approval, [Next]_vars PROVE Approval'
<1> USE DEF TypeOK, CodeTypeOK
<1>0. CASE UNCHANGED <<code, grant, machine, has, told>>
  BY <1>0 DEF Approval, ApprovalIsFinal, Fresh
<1>1. CASE HubRestarts
  BY <1>1 DEF HubRestarts, machineVars, Approval, ApprovalIsFinal, Fresh
<1>2. ASSUME NEW m \in Machines, Starts(m) PROVE Approval'
  BY <1>2 DEF Starts, Approval, ApprovalIsFinal, Fresh
<1>3. ASSUME NEW m \in Machines, CodeExpires(m) PROVE Approval'
  BY <1>3 DEF CodeExpires, machineVars, Approval, ApprovalIsFinal, Fresh
<1>4. ASSUME NEW m \in Machines, Polls(m) PROVE Approval'
  BY <1>4 DEF Polls, Approval, ApprovalIsFinal, Fresh
<1>5. ASSUME NEW b \in Browsers, NEW m \in Machines, Approves(b, m) PROVE Approval'
  <2>1. UNCHANGED <<machine, has>>
    BY <1>5 DEF Approves
  <2>2. CASE UNCHANGED <<code, grant, told>>
    BY <2>1, <2>2 DEF Approval, ApprovalIsFinal, Fresh
  <2>3. CASE ~UNCHANGED <<code, grant, told>>
    <3>1. /\ code[m] = "pending" /\ code' = [code EXCEPT ![m] = "granted"]
          /\ grant' = [grant EXCEPT ![m] = page[b]]
          /\ told' = told \/ told' = [told EXCEPT ![m] = told[m] \cup {page[b]}]
      BY <1>5, <2>3 DEF Approves, CanBeApproved, codeVars
    <3>2. told[m] = {} /\ has[m] = 0 /\ machine[m] # "new"
      BY <3>1 DEF Approval, Fresh
    <3> QED
      BY <2>1, <3>1, <3>2 DEF Approval, ApprovalIsFinal, Fresh
  <2> QED
    BY <2>2, <2>3
<1>6. CASE LoginSteps /\ UNCHANGED <<codeVars, machineVars>>
  BY <1>0, <1>6 DEF codeVars, machineVars
<1>7. CASE CodeSteps
  <2>1. ASSUME NEW p \in People, WrongForgotten(p) PROVE Approval'
    BY <1>0, <2>1 DEF WrongForgotten, machineVars
  <2> QED
    BY <1>1, <1>2, <1>3, <1>4, <1>5, <1>7, <2>1 DEF CodeSteps
<1>8. CASE UNCHANGED vars
  BY <1>0, <1>8 DEF vars, codeVars, machineVars
<1> QED
  BY <1>6, <1>7, <1>8 DEF Next

\* Of those who type a machine's code at most one is told that it is theirs, and
\* it works for no one else, however the hub restarts and answers get lost
\* (device-code.js:93-167).
THEOREM ApprovalStands == Spec => []ApprovalIsFinal
<1>1. Init => Approval
  BY DEF Init, CodeInit, Approval, ApprovalIsFinal, Fresh
<1>2. Approval => ApprovalIsFinal
  BY DEF Approval
<1> QED
  BY <1>1, <1>2, ApprovalStep, TypeCorrect, PTL DEF Spec
-----------------------------------------------------------------------------
\* Whoever rewrites users.json from what they took for its content keeps a token
\* that is in it, or counts it among the lost.
LEMMA RewrittenKeeps ==
  ASSUME file \in [People -> Nat], NEW p \in People, file[p] # 0, NEW list,
         file[p] \notin MissingFrom(list)
  PROVE list[p] = file[p]
  BY DEF MissingFrom

\* A step that leaves logins, pages and codes alone keeps Works if it keeps what
\* is good.
LEMMA WorksByGood ==
  ASSUME Works,
         UNCHANGED <<login, who, token, claims, page, grant, has>>,
         \A l \in Logins : token[l] # 0 /\ who[l] \in People /\ Good(l) => Good(l)'
  PROVE Works'
  BY DEF Works

\* What is handed out keeps working through every step.
LEMMA WorksStep == ASSUME TypeOK, Works, [Next]_vars PROVE Works'
<1>a. grant \in [Machines -> Logins \cup {0}] /\ has \in [Machines -> Logins \cup {0}]
  BY DEF TypeOK, CodeTypeOK
<1>b. page \in [Browsers -> Logins \cup {0}]
  BY DEF TypeOK, LoginTypeOK
<1> USE DEF TypeOK
<1>0. CASE UNCHANGED <<file, known, blind, lost, login, who, token, claims, page, grant, has>>
  BY <1>0 DEF Works, Good
<1>1. CASE DeployWrites /\ UNCHANGED <<codeVars, machineVars>>
  <2>1. ASSUME NEW l \in Logins, token[l] # 0, who[l] \in People, Good(l) PROVE Good(l)'
    <3>1. CASE token[l] \in lost'
      BY <1>1, <3>1 DEF Good, DeployWrites, loginVars, whoVars
    <3>2. CASE token[l] \notin lost'
      <4>1. token[l] \notin lost /\ token[l] \notin MissingFrom(file')
        BY <1>1, <3>2 DEF DeployWrites
      <4>2. file[who[l]] = token[l] /\ (blind \/ known[who[l]] = token[l])
        BY <2>1, <4>1 DEF Good
      <4>3. file'[who[l]] = token[l]
        BY <2>1, <4>1, <4>2, RewrittenKeeps DEF LoginTypeOK, Token
      <4> QED
        BY <1>1, <4>2, <4>3 DEF Good, DeployWrites, loginVars, whoVars
    <3> QED
      BY <3>1, <3>2
  <2> QED
    BY <1>1, <2>1, WorksByGood DEF DeployWrites, loginVars, whoVars, codeVars, machineVars
<1>2. CASE HubNotices /\ UNCHANGED <<codeVars, machineVars>>
  <2>1. ASSUME NEW l \in Logins, Good(l) PROVE Good(l)'
    BY <1>2, <2>1 DEF Good, HubNotices, LoadUsers, loginVars, whoVars
  <2> QED
    BY <1>2, <2>1, WorksByGood DEF HubNotices, loginVars, whoVars, codeVars, machineVars
<1>3. ASSUME NEW b \in Browsers, AuthStart(b), UNCHANGED <<codeVars, machineVars>> PROVE Works'
  <2>1. PICK l \in Logins : /\ login[l] = "none" /\ login' = [login EXCEPT ![l] = "away"]
                            /\ UNCHANGED <<userVars, at, who, token, claims, page, faults>>
    BY <1>3 DEF AuthStart
  <2> QED
    BY <1>3, <2>1 DEF userVars, tableVars, codeVars, machineVars, LoginTypeOK, Works, Good
<1>4. ASSUME NEW b \in Browsers, NEW l \in Logins, Callback(l, b),
             UNCHANGED <<codeVars, machineVars>>
      PROVE Works'
  <2>1. /\ login[l] = "away" /\ UNCHANGED <<userVars, who, token, claims, page>>
        /\ \/ login' = [login EXCEPT ![l] = "exchanging"]
           \/ login' = [login EXCEPT ![l] = "over"]
    BY <1>4 DEF Callback
  <2> QED
    BY <1>4, <2>1 DEF userVars, tableVars, codeVars, machineVars, LoginTypeOK, Works, Good
<1>5. ASSUME NEW l \in Logins, Exchanged(l), UNCHANGED <<codeVars, machineVars>> PROVE Works'
  <2>1. ASSUME NEW p \in People, SaveSlackUser(l, p), claims' = claims \cup {l} PROVE Works'
    <3>1. PICK list \in {file, Empty} : SaveSlackUser(l, p)!(list)
      BY <2>1 DEF SaveSlackUser
    <3> DEFINE t == TokenFor(list, p)
    <3>2. list \in [People -> Nat] /\ minted \in Nat
      BY DEF LoginTypeOK, Token, Empty
    <3>3. t # 0 /\ (list[p] # 0 => t = list[p])
      BY <3>2 DEF TokenFor
    <3>4. /\ file' = [list EXCEPT ![p] = t] /\ (blind' \/ known' = file')
          /\ lost' = lost \cup MissingFrom(list)
          /\ login' = [login EXCEPT ![l] = "landed"]
          /\ who' = [who EXCEPT ![l] = p] /\ token' = [token EXCEPT ![l] = t]
      BY <3>1 DEF LoadUsers
    <3>5. UNCHANGED <<page, grant, has>>
      BY <1>5 DEF Exchanged, tableVars, codeVars, machineVars
    <3> HIDE DEF t
    <3>6. ASSUME NEW k \in Logins, token'[k] # 0 PROVE who'[k] \in People /\ Good(k)'
      <4>1. CASE k = l
        BY <3>2, <3>4, <4>1 DEF Good, LoginTypeOK
      <4>2. CASE k # l
        <5>1. who'[k] = who[k] /\ token'[k] = token[k]
          BY <3>4, <4>2 DEF LoginTypeOK
        <5>2. who[k] \in People /\ Good(k)
          BY <3>6, <5>1 DEF Works
        <5>3. CASE token[k] \in lost'
          BY <5>1, <5>2, <5>3 DEF Good
        <5>4. CASE token[k] \notin lost'
          <6>1. file[who[k]] = token[k] /\ token[k] \notin MissingFrom(list)
            BY <3>4, <5>2, <5>4 DEF Good
          <6>2. list[who[k]] = token[k]
            BY <3>6, <5>1, <5>2, <6>1, RewrittenKeeps DEF LoginTypeOK, Token
          <6>3. file'[who[k]] = token[k]
            BY <3>2, <3>3, <3>4, <3>6, <5>1, <5>2, <6>2
          <6> QED
            BY <3>4, <5>1, <5>2, <6>3 DEF Good
        <5> QED
          BY <5>3, <5>4
      <4> QED
        BY <4>1, <4>2
    <3>7. \A k \in Logins : token[k] # 0 => token'[k] # 0
      BY <3>3, <3>4 DEF LoginTypeOK
    <3>8. \A k \in Logins : login'[k] = "landed" => token'[k] # 0
      BY <3>3, <3>4 DEF LoginTypeOK, Works
    <3>9. \A k \in claims' : login'[k] = "landed"
      BY <2>1, <3>4 DEF LoginTypeOK, Works
    <3>10. \A b \in Browsers : page[b] # 0 => page[b] \in Logins
      BY DEF LoginTypeOK
    <3>11. \A m \in Machines : /\ grant[m] # 0 => grant[m] \in Logins
                               /\ has[m] # 0 => has[m] \in Logins
      BY DEF CodeTypeOK
    <3> QED
      BY <3>5, <3>6, <3>7, <3>8, <3>9, <3>10, <3>11 DEF Works
  <2>2. CASE /\ login' = [login EXCEPT ![l] = "over"]
             /\ UNCHANGED <<file, tableVars, minted, lost, who, token, claims>>
    BY <1>5, <2>2 DEF Exchanged, tableVars, codeVars, machineVars, LoginTypeOK, Works, Good
  <2> QED
    BY <1>5, <2>1, <2>2 DEF Exchanged
<1>6. ASSUME NEW l \in Logins, NEW b \in Browsers, Claims(l, b), UNCHANGED <<codeVars, machineVars>> PROVE Works'
  <2>1. /\ login[l] = "landed" /\ login' = [login EXCEPT ![l] = "over"]
        /\ claims' = claims \ {l} /\ UNCHANGED <<userVars, whoVars>>
        /\ page' = page \/ page' = [page EXCEPT ![b] = l]
    BY <1>6 DEF Claims
  <2>2. token[l] # 0
    BY <2>1 DEF Works
  <2> QED
    BY <1>6, <2>1, <2>2 DEF userVars, tableVars, whoVars, codeVars, machineVars, LoginTypeOK, Works, Good
<1>7. ASSUME NEW l \in Logins, ClaimExpires(l), UNCHANGED <<codeVars, machineVars>> PROVE Works'
  BY <1>7 DEF ClaimExpires, userVars, tableVars, whoVars, codeVars, machineVars, Works, Good
<1>8. CASE HubRestarts
  <2>1. /\ blind' \/ known' = file
        /\ claims' = {} /\ UNCHANGED <<file, lost, whoVars, page, grant, has>>
        /\ \A l \in Logins : login'[l] = "landed" => login[l] = "landed"
    BY <1>8 DEF HubRestarts, LoginsForgotten, LoadUsers, machineVars
  <2> QED
    BY <2>1 DEF whoVars, Works, Good
<1>9. ASSUME NEW m \in Machines, Polls(m) PROVE Works'
  <2>1. has' = has \/ has' = [has EXCEPT ![m] = grant[m]]
    BY <1>9 DEF Polls
  <2>2. UNCHANGED <<userVars, loginVars, grant>>
    BY <1>9 DEF Polls
  <2> QED
    BY <1>a, <2>1, <2>2 DEF userVars, tableVars, loginVars, whoVars, Works, Good
<1>10. ASSUME NEW b \in Browsers, NEW m \in Machines, Approves(b, m) PROVE Works'
  <2>1. page[b] # 0 /\ UNCHANGED <<userVars, login, whoVars, claims, has>>
    BY <1>10 DEF Approves
  <2>2. page' = page \/ page' = [page EXCEPT ![b] = 0]
    BY <1>10 DEF Approves
  <2>3. grant' = grant \/ grant' = [grant EXCEPT ![m] = page[b]]
    BY <1>10 DEF Approves, codeVars
  <2> QED
    BY <1>a, <1>b, <2>1, <2>2, <2>3 DEF userVars, tableVars, whoVars, Works, Good
<1>11. CASE LoginSteps /\ UNCHANGED <<codeVars, machineVars>>
  <2>1. ASSUME NEW p \in People, NEW op \in {"adduser", "deluser"}, DeployReads(op, p)
        PROVE Works'
    BY <1>0, <1>11, <2>1 DEF DeployReads, tableVars, loginVars, whoVars, codeVars, machineVars
  <2>2. ASSUME NEW l \in Logins, StateExpires(l) PROVE Works'
    BY <1>0, <1>11, <2>2 DEF StateExpires, userVars, tableVars, whoVars, codeVars, machineVars
  <2> QED
    BY <1>1, <1>2, <1>3, <1>4, <1>5, <1>6, <1>7, <1>11, <2>1, <2>2 DEF LoginSteps
<1>12. CASE CodeSteps
  <2>1. ASSUME NEW p \in People, WrongForgotten(p) PROVE Works'
    BY <1>0, <2>1 DEF WrongForgotten, hubVars, userVars, tableVars, loginVars, whoVars, machineVars
  <2>2. ASSUME NEW m \in Machines, Starts(m) \/ CodeExpires(m) PROVE Works'
    BY <1>0, <2>2 DEF Starts, CodeExpires, hubVars, userVars, tableVars, loginVars, whoVars, machineVars
  <2> QED
    BY <1>8, <1>9, <1>10, <1>12, <2>1, <2>2 DEF CodeSteps
<1>13. CASE UNCHANGED vars
  BY <1>0, <1>13 DEF vars, hubVars, userVars, tableVars, loginVars, whoVars, codeVars, machineVars
<1> QED
  BY <1>11, <1>12, <1>13 DEF Next

\* The token of every page, machine, claim and granted code stays in users.json
\* until its person is removed or another writer overwrites the entry, and it works
\* whenever the hub could read the file (index.js:74-88, 117-160,
\* users.js:95-97): a login never takes it from an earlier one.
THEOREM TokensWork == Spec => []HandedOutWorks
<1>1. Init => Works
  <2> SUFFICES ASSUME Init PROVE Works
    OBVIOUS
  <2>1. /\ \A l \in Logins : token[l] = 0 /\ login[l] = "none"
        /\ claims = {} /\ \A b \in Browsers : page[b] = 0
    BY DEF Init, LoginInit
  <2>2. \A m \in Machines : grant[m] = 0 /\ has[m] = 0
    BY DEF Init, CodeInit
  <2> QED
    BY <2>1, <2>2 DEF Works
<1>2. TypeOK /\ Works => HandedOutWorks
  <2> SUFFICES ASSUME TypeOK, Works, NEW l \in HandedOut \ {0}
               PROVE /\ token[l] \in lost \cup {file[who[l]]}
                     /\ blind \/ token[l] \in lost \cup {known[who[l]]}
    BY DEF HandedOutWorks
  <2>1. l \in Logins
    <3>1. grant \in [Machines -> Logins \cup {0}] /\ has \in [Machines -> Logins \cup {0}]
      BY DEF TypeOK, CodeTypeOK
    <3>2. page \in [Browsers -> Logins \cup {0}] /\ claims \subseteq Logins
      BY DEF TypeOK, LoginTypeOK
    <3> QED
      BY <3>1, <3>2 DEF HandedOut, Pending
  <2>2. token[l] # 0
    BY <2>1 DEF HandedOut, Pending, Works
  <2> QED
    BY <2>1, <2>2 DEF Works, Good
<1> QED
  BY <1>1, <1>2, WorksStep, TypeCorrect, PTL DEF Spec
=============================================================================
