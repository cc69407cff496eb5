------------------------------ MODULE HubLogin ------------------------------
(***************************************************************************)
(* Who may use the hub: users.json, which the hub and deploy.sh both       *)
(* rewrite, the table of tokens the hub has in memory, and the login of a  *)
(* browser by way of Slack (server/src/index.js, users.js, oauth-state.js, *)
(* identity.js).  A login is known by its number: that is its state, the   *)
(* nonce in its cookie and its claim.                                      *)
(***************************************************************************)
EXTENDS Integers, FiniteSets

CONSTANTS People, Browsers, Nobody,
          MaxLogins,    \* bound on logins that are begun
          MaxFaults     \* bound on failures, restarts and uses of deploy.sh

ASSUME LoginAssumption ==
    /\ Nobody \notin People
    /\ MaxLogins \in Nat /\ MaxFaults \in Nat

VARIABLES file,     \* users.json: the token of each person, 0 without an entry
          known,    \* usersByToken, the hub's table of them
          changed,  \* watchFile has a change of it still to report
          blind,    \* history: the table is empty since users.json could not be read
          minted,   \* tokens made so far
          deploy,   \* what a deploy.sh under way has read and is to do
          lost,     \* history: tokens whose entry was removed or overwritten
          cookie,   \* ccrc_oauth in each browser: a login, or 0
          login,    \* how far each login is
          by, at,   \* the browsers it began in and is in
          who, token,   \* whose it turned out to be, and the token handed out for it
          states,   \* oauthStates
          claims,   \* loginClaims
          page,     \* the login whose token each browser keeps, or 0
          carried,  \* history: logins claimed in another browser than they were in
          faults

tableVars == <<known, blind, changed>>
userVars == <<file, tableVars, minted, deploy, lost>>
whoVars == <<by, at, who, token>>
loginVars == <<cookie, login, whoVars, states, claims, page, carried>>
hubVars == <<userVars, loginVars, faults>>

Logins == 1 .. MaxLogins
Token == Nat

Job == [op : {"none", "adduser", "deluser"}, of : People \cup {Nobody}, list : [People -> Token]]
Idle == [op |-> "none", of |-> Nobody, list |-> [p \in People |-> 0]]

LoginTypeOK ==
    /\ file \in [People -> Token] /\ known \in [People -> Token] /\ minted \in Token
    /\ deploy \in Job /\ changed \in BOOLEAN /\ blind \in BOOLEAN
    /\ lost \subseteq Token \ {0}
    /\ cookie \in [Browsers -> Logins \cup {0}] /\ page \in [Browsers -> Logins \cup {0}]
    /\ login \in [Logins -> {"none", "away", "exchanging", "landed", "over"}]
    /\ by \in [Logins -> Browsers \cup {Nobody}] /\ at \in [Logins -> Browsers \cup {Nobody}]
    /\ who \in [Logins -> People \cup {Nobody}] /\ token \in [Logins -> Token]
    /\ states \subseteq Logins /\ claims \subseteq Logins /\ carried \subseteq Logins
    /\ faults \in 0 .. MaxFaults

LoginInit ==
    /\ file = [p \in People |-> 0] /\ known = file
    /\ minted = 0 /\ deploy = Idle /\ lost = {}
    /\ changed = FALSE /\ blind = FALSE
    /\ cookie = [b \in Browsers |-> 0] /\ page = cookie
    /\ login = [l \in Logins |-> "none"]
    /\ by = [l \in Logins |-> Nobody] /\ at = by /\ who = by
    /\ token = [l \in Logins |-> 0]
    /\ states = {} /\ claims = {} /\ carried = {}
    /\ faults = 0

Faults(n) == faults + n <= MaxFaults /\ faults' = faults + n
Fault == Faults(1)

Empty == [p \in People |-> 0]

\* loadUsers() where the file holds list, in a step with n failures already: one
\* that cannot read it leaves the table empty.
LoadUsers(list, n) ==
    \/ known' = list /\ blind' = FALSE /\ Faults(n)
    \/ known' = Empty /\ blind' = TRUE /\ Faults(n + 1)

\* What is lost to somebody who takes list for the file's content.
MissingFrom(list) == {file[p] : p \in {q \in People : file[q] \notin {0, list[q]}}}

-----------------------------------------------------------------------------
\* deploy.sh, a process of its own: adduser, by the name the person's login has,
\* or deluser, from its read of the file to its rename.
DeployReads(op, p) ==
    /\ deploy = Idle /\ Fault
    /\ (op = "adduser") = (file[p] = 0)
    /\ deploy' = [op |-> op, of |-> p, list |-> file]
    /\ UNCHANGED <<file, tableVars, minted, lost, loginVars>>

DeployWrites ==
    /\ deploy # Idle
    /\ minted' = IF deploy.op = "adduser" THEN minted + 1 ELSE minted
    /\ file' = [deploy.list EXCEPT ![deploy.of] = IF deploy.op = "adduser" THEN minted' ELSE 0]
    /\ lost' = lost \cup MissingFrom(file')
    /\ deploy' = Idle
    /\ changed' = TRUE
    /\ UNCHANGED <<known, blind, loginVars, faults>>

\* watchFile: loadUsers(), once for what changed since it last looked.
HubNotices ==
    /\ changed /\ changed' = FALSE
    /\ LoadUsers(file, 0)
    /\ UNCHANGED <<file, minted, deploy, lost, loginVars>>

-----------------------------------------------------------------------------
\* GET /auth/start; a second one in the browser overwrites the cookie.
AuthStart(b) == \E l \in Logins :
    /\ login[l] = "none" /\ \A k \in 1 .. l - 1 : login[k] # "none"
    /\ login' = [login EXCEPT ![l] = "away"]
    /\ by' = [by EXCEPT ![l] = b]
    /\ cookie' = [cookie EXCEPT ![b] = l]
    /\ states' = states \cup {l}
    /\ UNCHANGED <<userVars, at, who, token, claims, page, carried, faults>>

StateExpires(l) ==
    /\ l \in states /\ states' = states \ {l}
    /\ UNCHANGED <<userVars, cookie, login, whoVars, claims, page, carried, faults>>

\* Mutant: any browser may end what another began.
AnyBrowser(l, b) == TRUE

IsItsBrowser(l, b) == cookie[b] = l

\* GET /auth/callback, up to the exchange: the state is used up first.
Callback(l, b) ==
    /\ login[l] = "away"
    /\ states' = states \ {l}
    /\ IF l \in states /\ IsItsBrowser(l, b)
       THEN /\ cookie' = [cookie EXCEPT ![b] = 0]
            /\ login' = [login EXCEPT ![l] = "exchanging"]
            /\ at' = [at EXCEPT ![l] = b]
       ELSE /\ login' = [login EXCEPT ![l] = "over"]
            /\ UNCHANGED <<cookie, at>>
    /\ UNCHANGED <<userVars, by, who, token, claims, page, carried, faults>>

\* Mutant: a login makes a token.
AlwaysMinted(list, p) == minted + 1

\* upsertBySlackId(): somebody who has an entry keeps their token.
TokenFor(list, p) == IF list[p] = 0 THEN minted + 1 ELSE list[p]

\* saveSlackUser(), without an await: a file that cannot be read counts as empty,
\* both here and in the loadUsers() it ends with.
SaveSlackUser(l, p) ==
    \E list \in {file, Empty} :
        LET t == TokenFor(list, p) IN
        /\ file' = [list EXCEPT ![p] = t]
        /\ lost' = lost \cup MissingFrom(list)
        /\ LoadUsers(file', IF list = file THEN 0 ELSE 1)
        /\ changed' = TRUE
        /\ minted' = IF t > minted THEN t ELSE minted
        /\ login' = [login EXCEPT ![l] = "landed"]
        /\ who' = [who EXCEPT ![l] = p] /\ token' = [token EXCEPT ![l] = t]

\* The rest of the callback, once token-slayer answered or failed to.
Exchanged(l) ==
    /\ login[l] = "exchanging"
    /\ \/ /\ \E p \in People : SaveSlackUser(l, p)
          /\ claims' = claims \cup {l}
       \/ /\ Fault
          /\ login' = [login EXCEPT ![l] = "over"]
          /\ UNCHANGED <<file, tableVars, minted, lost, who, token, claims>>
    /\ UNCHANGED <<deploy, cookie, by, at, states, page, carried>>

\* consumeLoginCode() in b: POST /api/auth/claim asks for the code alone, which the
\* page takes from its address, be it opened in another browser than the callback
\* ran in; the answer may be lost.
Claims(l, b) ==
    /\ login[l] = "landed"
    /\ claims' = claims \ {l}
    /\ login' = [login EXCEPT ![l] = "over"]
    /\ carried' = IF at[l] = b THEN carried ELSE carried \cup {l}
    /\ \/ l \in claims /\ page' = [page EXCEPT ![b] = l] /\ UNCHANGED faults
       \/ l \in claims /\ Fault /\ UNCHANGED page
       \/ l \notin claims /\ UNCHANGED <<page, faults>>
    /\ UNCHANGED <<userVars, cookie, whoVars, states>>

ClaimExpires(l) ==
    /\ l \in claims /\ claims' = claims \ {l}
    /\ UNCHANGED <<userVars, cookie, login, whoVars, states, page, carried, faults>>

\* The hub starts again: what it had in memory is gone, requests break off, and
\* the watch starts from the file as it is.
LoginsForgotten ==
    /\ LoadUsers(file, 1) /\ changed' = FALSE
    /\ states' = {} /\ claims' = {}
    /\ login' = [l \in Logins |-> IF login[l] = "exchanging"
                                  THEN "over" ELSE login[l]]
    /\ UNCHANGED <<file, minted, deploy, lost, cookie, whoVars, page, carried>>

=============================================================================
