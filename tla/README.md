# ccrc in TLA+

ccrc shows a terminal pane that runs Claude Code to the owner's phone. This directory holds TLA+
models of its concurrent parts, the TLC runs that check them and TLAPS proofs about all of these
but push subscriptions.
Paths are relative to the repository; the modules keep the source's names where TLA+ allows it.

## 1. The system

```
 page in the phone's browser            machine of the developer                     hub (server/)
 term/public/term.js    <- WebSocket -> daemon, one per session         -- HTTPS -> register, unregister,
   compose box                            term/bin/ccrc-term.js                      push, pairing, login
   connection, reconnect                  pane source: tmux or ConPTY                     |
   history view                             term/src/pane-source.js  -> tmux -C       web push
 hub web application                        pane-source-conpty.js -> pipe -> host         v
   server/public/app.js <-- HTTPS --        term/bin/ccrc-host.js: pty,              service worker
                                            screen-buffer.js, attach-queue.js
                                          hook/bin/ccrc-notify.js -- HTTPS -> /notify
                                          shared/session-registry.js (files)
```

Every process is a single-threaded Node program. What interleaves is the turns of its event loop:
socket events, timers, promise callbacks, replies of child processes; and the processes among each
other.

| Component | State | Operations | What is hard | What makes it correct |
|---|---|---|---|---|
| attach queue `term/src/attach-queue.js` | broadcast set, promise chain, numbers of chunks received and written, held frames per waiting viewer | `feed`, `enqueue`, `attach`, `joinBroadcast`, `detach` | a viewer waits for its snapshot while output goes on; snapshot fails; viewer dies while waiting; a chunk without a frame | each viewer sees exactly the output from its snapshot on, every chunk once, in order; no dead viewer is kept |
| ConPTY host `term/bin/ccrc-host.js`, `screen-buffer.js` | sizes declared, size of the pty, size of the screen | authentication, `resize`, output, end of a socket, `stop` | the pty is resized at once, the screen only when the queue gets there | smallest declared size wins; output is laid out at the size it was printed for |
| tmux pane source `term/src/pane-source.js`, `control-stream.js`, `key-chunks.js` | typing queue, `choLoiDap`, `pasteSeq`, per-paste `done` and timer; the group session | `type`, `paste`, `mouse`, `resize`, reply handler, `close` | replies matched by position; a timer that races late replies; the pane dies between two commands | an acknowledged text is in the pane with its Enter; a paste is not divided; every paste is answered |
| daemon: presence `term/bin/ccrc-term.js` | viewers, `lastWatching`, heartbeat timer, shutting down | connection, visibility, close, `beat`, `shutdown` | close events after `shutdown()`, requests that overtake each other | no trace of a closed session; a push is only held back while somebody looks |
| registry `shared/session-registry.js`, hook `hook/bin/ccrc-notify.js` | one file per session | write, remove, list and sweep | a killed daemon leaves its file | a notification carries the id of a live session only |
| hub sessions `server/src/terminal-sessions.js` | `byUser`: sessions with `seenAt`, `viewing`, `lastNotifiedAt` | register, unregister, noteArrived, isViewing, list, prune | lost and reordered heartbeats; lazy eviction; restarts | live sessions are listed, dead ones leave, unread marks survive |
| hub push `server/src/index.js` | subscriptions per user, a file | subscribe, unsubscribe, delete, keep-only, `notifyUser` | a list read before an await and written back after it | a removed device stays removed |
| compose box `term/public/term.js` | the box, two localStorage keys, texts waiting for an answer | write, Send, answers, timer, restore | half-open sockets, late answers, tabs reclaimed by the phone | the user's text never disappears before it reached the pane |
| page connection `term/public/term.js`, attach gate in `ccrc-term.js` with `ticket.js`, `nonce-store.js`, `session-keys.js` | ticket, stored key, backoff; nonces and keys in memory | connect, close codes, upgrade | a ticket used up by an attempt whose answer was lost; keys that die with the daemon | a ticket opens once; a page that may come in gets in; one that may not stops asking |
| pairing `server/src/pairing.js`, `server/public/app.js`, `term/src/pairing.js`, `devices.js`, CLI | the hub's pairings; the page's key, its `pendingPair` and record; `pairing-pending.json`, `devices.json` | start, challenge, reveal, finish, get; pair, confirm, unpair; cancel | runs of one page and commands of one machine overlap; answers lost; a hub that forgets | the machine expects the number the phone shows; a wrong number is final; what the phone remembers opens |
| hub login `server/src/index.js`, `users.js`, `oauth-state.js`, `deploy.sh`; device codes `device-code.js`, `install.sh` | `users.json`, its table, states, claims, the cookie; codes, wrong guesses | start, callback, claim; code, approve, poll; adduser, deluser | two writers of one file; a callback in another browser; an answer lost after the code was used up | a token handed out works; a login ends where it began; one approval per code |
| remote command `term/bin/ccrc-term-cli.js`, `win-stop-file.js` | pid files, stop files | on, off, off-all, status | commands overlap; a daemon that starts late, hangs or dies; pids used again | a daemon that serves can be found and stopped; nobody else is signalled |
| group sessions `term/src/tmux.js` | tmux sessions and their marks | claim, reclaim, kill | daemons and the user on one tmux server, one call at a time; groups left by `kill -9` | the group is there while a phone looks; nobody else's session is killed |
| ConPTY source `pane-source-conpty.js`, host life cycle `ccrc-host.js`, `host-registry.js` | the pipe, the copy of the screen, frames being written into it, sizes; one file per session | connect, broadcast, backfill, resize; start, listen, register, stop, sweep | a viewer that comes while frames are on their way; a second host of the session; a reader that removes a file | each viewer is shown everything; the file names the host that serves; the end is told when it is one |

The hazards these parts are exposed to are listed, each at its line, in `PROJECT.json`.

## 2. Modules

| Module | Models | Extends / instantiates |
|---|---|---|
| `LiveStream` | abstract: output, and viewers that join in one step and from then on see it all | |
| `AttachQueue` | `attach-queue.js`, one action per operation and per link of the promise chain | `LiveStream` by INSTANCE, with a refinement mapping |
| `Host` | `ccrc-host.js` and `screen-buffer.js` around the queue | `AttachQueue` by EXTENDS |
| `HostProofs` | theorems about `AttachQueue` and `Host` | `Host` |
| `TmuxPaste` | `pane-source.js` of every connection, tmux as seen through its control clients | |
| `TmuxProofs` | theorems about `TmuxPaste` and `PaneGroup` | both by EXTENDS |
| `HubSessions` | `terminal-sessions.js` and its routes | |
| `DaemonLife` | presence, heartbeat, registry file and shutdown of `ccrc-term.js` | |
| `Presence` | the two composed, with the hook, the network and time | `HubSessions`, `DaemonLife` |
| `DaemonProofs` | theorems about `Presence` and `Remote` | both by EXTENDS |
| `PushSubs` | push subscriptions and `notifyUser()` | |
| `Compose` | the compose box of `term.js`, the link and the daemon's outcomes | |
| `ComposeProofs` | theorems about `Compose` | `Compose` |
| `AttachGate` | the daemon's upgrade handler, `ticket.js`, `nonce-store.js`, `session-keys.js` | |
| `PageLink` | `term.js`: `connect()`, `onopen`, `onclose`, the timer, tab and address events | |
| `Reconnect` | page and daemon with a network between them | `AttachGate`, `PageLink` by EXTENDS |
| `ReconnectProofs` | theorems about the gate alone and about the composition | `Reconnect` |
| `PairHub` | `server/src/pairing.js` and its routes | |
| `PairPage` | `startPairing()`, `waitForPairVerdict()`, `cancelPairing()` of `app.js` | `PairHub` |
| `PairCli` | `cmdPair`, `cmdPairConfirm`, `cmdUnpair`, `pending-pair.js`, `devices.js` | `PairPage` |
| `Pairing` | the three composed, and what pairing promises | `PairCli` |
| `PairingProofs` | theorems about `Pairing` | `Pairing` |
| `RemoteCli` | `cmdOn`, `cmdOff`, `cmdOffAll`, status, `win-stop-file.js`, daemons as processes | |
| `Remote` | what the commands promise, with the histories that takes | `RemoteCli` |
| `PaneGroup` | group sessions of `tmux.js`, and their count in `pane-source.js` | |
| `HostLife` | hosts of one session, `host-registry.js` | |
| `ConptySource` | `pane-source-conpty.js` and its connections in `ccrc-term.js` | `HostLife` |
| `WinSession` | the two composed, and what a session on Windows promises | `ConptySource` |
| `WinSessionProofs` | theorems about both | `WinSession` |
| `HubLogin` | `users.json`, logins, `deploy.sh` | |
| `DeviceCode` | `device-code.js`, `install.sh`, the page that approves | `HubLogin` |
| `DeviceCodeProofs` | theorems about both | `DeviceCode` |

`MC*` modules give constants their values, and nothing else.

### State and actions against the code

*AttachQueue.* `chain` holds the links not yet run, the running one first: `write` (its
`write(text)` pending), `note` (`written = mySeq`), `snap`, `run` (a queued resize). `Feed` is one
call of `feed()` with a frame, `FeedUnframed` without one. `Attach`, `TakeSnapshot` and then
`JoinBroadcast` or `GiveUp` are the parts of `attach()` between its awaits. `view[c]` is a history
of what viewer `c` was sent, a snapshot counting as the chunks in it. `destroy()` of a socket and
its `close` event, which follow each other without output in between, are one step.

*Host.* `declared`, `curSize`, `screenSize` are the code's; `receivedAt` and `laidAt` are
histories. A chunk counts as printed for the size the pty has when the chunk is received;
ConPTY's own delay is not part of this repository. Declaring the same size again changes nothing
and is left out.

*TmuxPaste.* `queue[c]` is `typeQueue`, `waiting[c]` is `choLoiDap`, `cmds` and `replies` the two
directions of one control client. tmux answers commands in order, and begins with one block that
answers none of ours: the greeting of `attach-session`, measured in
`docs/superpowers/specs/2026-07-27-buoc-0-ket-qua.md:24-28`. `early` is the history of connections
that wrote a command before that block was read. `step[m]` follows `paste()` through
`load-buffer`, `paste-buffer`, the pause and Enter. `ConnectionEnds` is the end of the client's output:
the replies it had written may be handled before, and tmux need not read any more. `Together`, a bound,
lists the sets of messages that may be sent in one behaviour.

*HubSessions, DaemonLife, Presence.* Time is kept as ages that stop one past the last threshold.
`outbox` is a set: requests travel on connections of their own, so the hub takes them in any
order, or never. `lastWatching` starts at FALSE (`null` until the first beat in the code, which
the same callback sets).

*PushSubs.* `notifyUser()` is three steps: read and send, one answer per device, write back. The
array it holds is the current one until somebody replaces it.

*Compose.* A text is a sequence of words, so that order and loss can be told. `link` is open,
half-open (the page does not know) or down. `DaemonPastes` stands for the outcomes of `TmuxPaste`:
pasted and acknowledged, pasted and refused, refused and not pasted, or first told failed and then
acknowledged (`onAck()`, `pane-source.js:216`, runs before `finish()` can refuse). One tab with an
empty box after restoring, no back-forward cache. The refusal of a text that is too long
(`ccrc-term.js:628-630`) is one of the refusals that `DaemonPastes` may answer. `mixed`, `overtaken`
and `astray` are histories: that texts overlapped, which of them wait behind one that came back, and
the words of those that came back after a later text or a second time.

*AttachGate.* One `Upgrade` action per request, with its reply; the handler decides without an await
between looking at the nonce and remembering it, but it reads the clock twice, so that time may pass
between `now > exp` and the forgetting of nonces (`straddled`); this clock only goes forward. A key
is named by the ticket it goes back to. `opened` and `issued` are histories. `Shutdown` and `Exit`
are two steps: in between the server still answers. `Start` is a new process at the same address, as
with a fixed port or `CCRC_TERM_PORT`. `GateSpec` lets anybody send any request at any time.

*PageLink, Reconnect.* `phone[s]` is the state of a WebSocket that still has its handlers; one
without them counts as closed. `Connect` is the whole of `connect()`, called by `Reload`, `Tap`
(`hashchange` or first load), `ShowAgain` and `TimerFires`; a socket is `Closing` once the daemon's
close frame has arrived and its `close` event has not. `up` and `down` are the request and the
frames under way; the request of a socket the page gave up is still answered. `Lost` cuts a
connection with the request on it, or behind it. Left out: the Origin check, malformed tokens and
other hosts' tokens, the limit on a token's lifetime, the lengths of the backoff, a browser without
sessionStorage, the version in the greeting.

*PairHub, PairPage, PairCli.* A pairing, its phone's nonce and the commitment go by one number, a
key by the run that made it, a command's nonce by the command. The number on the screen is the
triple it is computed from, so that two numbers agree only if their inputs do: the guess that
succeeds once in a hundred is left out. Each `await` of `app.js` and of the CLI is a step boundary;
`pendingPair`, the key store, `pairing-pending.json`, `devices.json` and its temporary file are
shared as in the code. A time limit may run out at any moment. `faults` bounds what is lost,
killed, expired or restarted. `overlapped` is set when two commands change `devices.json` at once,
`cancelled` keeps the pairings whose phone cancelled.

*RemoteCli, Remote.* A command is a record that goes through the reads, signals and waits of its
code; a daemon goes by the `on` that spawned it. `isOurDaemon()` sees which script a pid runs, not
which pane, and a probe that hangs or fails says that it is none of ours (`SaysNotOurs`); `Recycled`
gives a free pid to another process. `crossed` marks an `on` that ran beside another command on its
pane, `misjudged` the daemons that a probe took for none, `reused` the pids that had a second
process.

*PaneGroup.* `sess` is tmux's table, with what a session is grouped with and the mark on it. A name
is the base name and the numbers appended, so that `=name` and a mere prefix can be told apart.
`disturbed`, `beside`, `strayMark` are histories for the exceptions of section 5; `Astray` says that
the last two can matter, `TwoAreGone` that two runs have ended.

*HostLife, ConptySource, WinSession.* A host prints texts; its screen is the sequence of them.
`taken` says that the pid in the session's file, whose host has died, is another process's by now:
`PidAlive` asks only for some process. How the host takes in a client is what `LiveStream` promises:
the screen, then every text. `q` is what is in the pipe, `dangCho` the frames broadcast whose write
into the copy has not settled, `view[c]` what viewer `c` is shown. `khai` is the size declared,
`told` the one the host heard on this pipe. `PipeReplaced` is a read that finds the socket destroyed
before its `close` event. `overswept`, `cutShort`, `stale` and `replaced` are histories.

*HubLogin, DeviceCode.* A login is known by its number: state, nonce and claim in one; its claim may
be made in any browser (`carried`). `LoadUsers` may fail, and leaves an empty table (`blind`).
`file` and `known` are `users.json` and the table read from it; `deploy` is what a `deploy.sh` under
way has read. `lost` collects tokens whose entry was removed, or overwritten by a writer that had
not seen it. A code is known by the machine that shows it. Limits per address or minute are refusals
that may come at any time. `told` is the history of pages that were told they approved a machine.

## 3. Runs

| Run | Bounds | States | Shows |
|---|---|---|---|
| `attach_queue` | 2 viewers, 3 chunks, 1 queued resize | 932 thousand | exact stream; refinement of `LiveStream` |
| `host` | 2 viewers, sizes {1,2} x {1,2}, 1 chunk, 2 links of queue | 497 thousand | size negotiation, layout, no dead viewer kept, every viewer served or cut off |
| `tmux_paste` | 2 phones; together 2 pastes and a line or tap of one, or a paste of each, or a paste, a line and a tap | 586 thousand | meaning of an acknowledgement, undivided pastes, whose text, an answer for each |
| `presence` | 1 session, 2 sockets, thresholds 1, 2, 3 ticks, 2 requests under way for at most 1 tick | 118 thousand | registry, silence, unread marks, listing and eviction |
| `compose` | 3 words, 2 sends, 1 death of the tab | 102 thousand | survival and order of the text, every Send concludes |
| `reconnect` | 2 tickets good for 1 tick, 2 sockets, 2 sessions, 2 keys a ticket, 2 faults | 1.12 million | a ticket opens once, one live socket, no stop without a reason, no stale key, a good ticket gets in |
| `pairing` | 2 phones, 2 pairings, 3 commands, 4 starts in all, 1 fault | 701 thousand | numbers, verdicts, what the phone remembers |
| `remote` | 2 panes, 2 pids, 3 commands, 3 faults, both platforms | 751 thousand | off finds and stops, nobody else is hit, orders are for one daemon |
| `groups` | 2 daemons with 2 connections each, 2 candidate names, 2 faults | 628 thousand | the group is there, only its own is killed, the pane survives |
| `conpty` | 2 hosts, 2 texts, 2 viewers, 2 sizes of one and 1 of the other, 1 fault, pids used again | 1.15 million | what viewers see, the copy, the file, the size, the end |
| `login` | 2 people, 2 browsers, 2 machines, 2 logins, 2 faults, 1 pending code, 1 wrong one | 5.01 million | tokens work, logins stay home, one approval |
| `push_removed` | 2 devices, 1 notification | | a counterexample, see 5 |

Why the bounds are enough. In the queue a viewer interacts with the others only through the
broadcast set and the chain; two viewers give one that waits while the other watches or waits, and
three chunks give one in the snapshot, one held and one live. In the host one chunk and two resizes
around it give both orders of write and resize. In `TmuxPaste` the shortest interesting history is a
timed-out paste, a paste behind it and a key or tap between; two phones share only the names of
buffers, so one paste of each is enough. In `Presence` only the order of the thresholds matters
(beat, dead, evicted), and two requests under way are one that overtakes another. In `Compose` two
sends overlap and a third word is written meanwhile. In `Reconnect` two sockets are the one in use
and one given up with its request still under way, two tickets are the old and the fresh one, two
sessions give a ticket and a key that outlive their daemon, and two faults lose an answer and then a
retry. In `Pairing` two pairings are two taps of one phone or one of each phone, and three commands
are two that overlap and a confirmation, or an unpairing. In `RemoteCli` three commands are an `on`,
an `off` and one beside them, two pids are enough for one to be used again, and three faults are a
probe that errs twice and a daemon that hangs. In `PaneGroup` one daemon was killed and leaves a
group while the other claims, or both serve. In `WinSession` two hosts are one beside or after the
other, and two texts one in the copy and one on its way; one viewer turns its screen, the other one
has the larger size (`Screens`). In `DeviceCode` two logins are two people or one person twice, on
one or two browsers, and the limits of one refuse the second code and the second wrong guess.

Symmetry is used in `remote` (panes, pids) and `login` (people, browsers, machines): both check
invariants and an action property, which treat those names alike, and no liveness.

`CHECK_DEADLOCK FALSE` everywhere: bounded inputs run out, and the programs then wait.

### Fairness

* `AttachQueue`, `Host`: weak fairness of every link of the chain, of the continuation after
  `await` and, in the host, of the close event that follows `destroy()`: Node runs promise
  callbacks and pending writes as long as the process lives. None for viewers or for output.
* `TmuxPaste`: weak fairness of what the daemon itself does, that is the queue, its timers and the
  load process's end or the timer. None for tmux, which may never answer: the timer is what the
  answer rests on.
* `Presence`: time passes, the timer fires, a request is handled or lost, somebody opens the list
  now and then, and, strongly, of registrations sent again and again one gets through.
* `Compose`: the page's own timers. Nothing of network or daemon.
* `WinSession`: the daemon looks every `PANE_CHECK_MS` whether its pane is there. Nothing else: not
  even the pipe's `close` event is needed for the end to be told.
* `Reconnect`: the page's timer, what has arrived is read, a request that arrived is answered: the
  event loops of both ends. None for user, faults or time.

The other specifications state safety only and assume no fairness.

## 4. Proofs

TLAPS checks what follows for every value of the constants: any number of viewers, phones, daemons,
pids, hosts or commands, and every bound. All invariants of the passing runs and all their action
properties are proved.

*HostProofs, the queue.* The inductive invariant is `TypeOK` with `Shape`, in six parts. `InOrder`: the
`write` and `note` links of the chain carry the numbers `written+1 .. seq` in order, which is what
makes "written" mean "everything up to here". `Settled` relates the snapshot link to the state of
its `attach()`. `Separated` says where a viewer's snapshot link stands between the writes: what it
holds is exactly what is written after it. `OnTheWay`, `Live` say, for a viewer that waits and
for one that joined, what it has and what is still to come; `UnframedSeen` deals with chunks that
had no frame. `ExactStream` alone is not inductive: it says nothing of the chain.
Theorems: `TypeCorrect`, `ShapeHolds`, `StreamIsExact`, `ComparisonIsAlwaysTrue`, `NobodyDead`,
`QueueImplementsLiveStream`. `ComparisonIsAlwaysTrue` proves what a comment at
`attach-queue.js:113-118` reports from experiments.

*HostProofs, the host.* `HostImplementsQueue` shows that each host step is a queue step or a
stutter, so the queue's invariants carry over (`HostStreamIsExact`). `SizeInv` adds that the size
the screen will have when the queue reaches link `i` is the size at which the chunk written there
was received; `LaidAsReceived` and `ScreenFollowsPty` (the last queued resize has the size of the
pty) follow. `SmallestWins` needs its own case for joining. Theorems: `HostTypeCorrect`,
`ReceivedSizeIsKept`, `ScreenCatchesUp`, `SmallestScreenWins`.

*ReconnectProofs.* `GateOpensOnce` is about the gate with any client whatever: `GateInv` adds to
`TicketOpensOnce` that a ticket which opened a connection has its nonce remembered, or has run out,
or names a session that is over (`SpentOnce`), which restarts and the forgetting of nonces both have
to keep; a second opening needs a ticket that ran out within its request, and there is no third.
`TicketOpensOnceHere` carries it over to the composition, whose steps are gate steps or leave the
gate alone. `PageInv` makes `OneLiveSocket` and `StopsForAReason` inductive together: a timer may
only fire when no socket lives. `TapInv` follows keys from the gate to the page: what a live socket
asked for and what is under way to it goes back to the last tap (`KeyIsOfTheLastTapAlways`).

*DeviceCodeProofs.* Three invariants on top of `TypeOK`, none of which mentions the bound on logins,
failures or codes. `Home`: a cookie names a login begun in its browser, a login under way is where
it began, and so is a page's unless its claim was carried (`StaysHome`). `Works`: a token that is
not lost stands in the file *and*, unless the last reading failed, in the hub's table; the lemma
behind it is that whoever writes the file from an earlier reading keeps an entry or adds its token
to `lost` (`RewrittenKeeps`), which is what a login without an `await` between reading and renaming
comes to (`TokensWork`). `Approval`: a code that waits was told to nobody and given to no machine
(`ApprovalStands`).

*WinSessionProofs.* `Found`: at most one host listens or serves, what a reader is about to remove
belongs to a dead host, and a serving host is named unless its file was overswept (`HostIsFound`);
hence a daemon tells the end only at the end (`OverOnlyAtTheEnd`). `Sized`: what was told to the
host and what the source remembers are both the smallest declared size, a viewer that has gone
declares none, and there are viewers only while there is a pipe (`SizeIsCurrent`); a pipe that replaced
one whose end was not heard is told nothing until the size changes. The other two
theorems rest on what a sequence of frames draws: one more frame at the end (`DrawnNext`) is what
broadcasting and printing do, the first frame drawn before the others (`DrawnFirst`) is what a
settling write does. With them, that a viewer shows what the copy will show (`Shows`) is
kept by every step (`ViewerSeesAll`). `CopyFollowsHost` is not inductive, since a snapshot still in
the pipe will end `stale`: `CopyFollows` counts it as come (`CopyKeepsUp`).

*TmuxProofs, pasting.* `Named`: a buffer's name belongs to one paste and holds its text
(`PastesItsOwn`). Acknowledgements need more, because replies go by position: `Paired` says that
what a connection waits for is what it wrote, in order, shifted by no reply or by one, and by one
only if the greeting was not read when it first wrote. `Waits` and `InTurn` say what a paste waits
for at each step, `Begun` and `Evidence` what a good reply, or a step that follows one, tells of the
pane: the text is in it, or on its way, or the pane is dead and nothing good will be told
(`AckedIsDone`). `Undivided` follows a paste of an orderly phone through the queue: what comes after
it is not yet written (`Behind`), and nothing of the phone is between its text and its Enter on the
wire (`Between`) or in the pane (`Before`); `IsUndivided`.

*TmuxProofs, groups.* `PgInv` has ten parts. The exceptions (`disturbed`, `Astray`) never heal while
the daemon is at work, so all of it may be stated under them. A session's owner lives and has it by
name, or is about to kill it, or is gone (`OwnerHasName`); so a daemon that is setting up
owns no session, and what it finds marked is another's. What it has judged dead stays so
(`ListedAreOthers`, `VictimsAreGone`): a run that is gone does not come back, and while one daemon
is at work alone and undisturbed nobody else makes or ends a session (lemma `Quiet`).
`PaneIsKept` adds that another session of the group stays, which holds only while at most one run
is gone. Theorems: `SessionIsThere`, `KillsOnlyItsOwn`, `PaneOutlives`.

*DaemonProofs, presence.* `RequestsAreFresh` and `BeliefIsFresh` say how old a heartbeat under way,
and what the hub made of one, can be against the last look: with them `SilenceIsBounded` is
inductive, whatever is lost or overtaken (`SilenceBounded`, `RegistryIsClean`, `UnreadSurvives`).

*DaemonProofs, remote command.* `Spawning`: which steps a command may be at with what it has read, a
daemon has the pid its `on` was given until it dies, and a file names a daemon of its own pane,
when it is read and as long as what was read is used (`FilesName`). `Stopping`: the daemon of an `on`
that ended alone is filed, and whoever read the file since holds its name (`IsFiled`); an order on
its pane was meant for it (`OrderIsFor`). `Hits` reduces a wrong hit to a pid that was used twice.
Theorems: `ServingIsFound`, `OnlyOursAreHit`, `OrdersAreOwn`.

*PairingProofs.* `KeysAgree` and `NoncesAgree`: a pairing has one key and one machine's nonce, and
page and command that go on with it have those, whichever runs and commands overlap; the numbers
follow (`NumbersDoAgree`). `WrittenOnce`: once a number was written down no command waits for that
phone's nonce, so a wrong one cannot be followed by a right one (`WrongIsFinal`). `AbortsHaveACause`
and `DoneIsKnown` follow the two verdicts from the command through the hub to the page's record
(`AlarmsHaveCauses`, `RememberedIsKnown`); the latter needs that commands which do not overlap
lose no entry (`OneChanges`).

*ComposeProofs.* `TextSurvives` is not inductive: it does not say that a good answer speaks of words
the pane has. `Kept` adds that what is still heard on the wire carries the text the page waits for
under its number (`Carries`), that a good answer confirms only what is in the pane (`Confirms`), and
that without overlap the one text that waits is the one on disk (`OneFlies`). Order needs more, as
texts may overlap: of two words the earlier one never stands behind the later one, be it in the box
or in a text that waits or lies on disk and is to be put in front of it, unless its text was
overtaken or told twice (`Ordered`). The two lemmas `WiresOn` and `WiresLost` deal with everything
under way once for all actions. Theorems: `ComposeTypes`, `NothingWrittenIsLost`, `OrderStays`.

Assumed are only the named assumptions on constants, which TLC evaluates in each run: that bounds
are numbers, and that names which the code never confuses differ (a pid from a command, "nobody"
from a phone, a state or a verdict, the three kinds of messages of a phone from each other;
processes, pairings and commands are numbered in the order they come). The thresholds of the hub are
ordered as in `terminal-sessions.js`, and no screen has size 0.

The type invariants are not properties of runs: they are proved as parts of the inductive invariants
(`TypeCorrect`, `HostTypeCorrect`, `ComposeTypes`, `TypeInvariant`, `PrInv`, `RmInv`, `PaInv`,
`PgInv`, `WsInv` and others) and were checked by TLC first, as was every one of these invariants.
`HeldIsNeverCaptured`, `ScreenFollowsPty` and `HostRunsTheQueue` are proved, and not properties of runs
either.

Only model-checked: liveness (`ViewerIsServed`, `EveryPasteIsAnswered`, `ListFollowsLife`,
`SendConcludes`, `TicketGetsIn`, the second half of `OverIsTold`), which is beyond this prover. The
property of `PushSubs` is refuted, not proved.

## 5. Where the code does not do what it says

`push_removed` ends in a counterexample: `notifyUser()` writes back a list it read before an
await, and a device removed meanwhile is listed again.

The passing runs except, by name, the cases below: in each the code falls short of what a comment,
a document or a test says, or of what one would expect. The name is that of the history or clause
that excepts the case; without it TLC finds the property violated.

* `early` (`TmuxPaste`): a command written before tmux's greeting block was read takes that block
  for its reply and shifts all later pairings; a paste may be acknowledged before its Enter, against
  `pane-source.js:214-215`.
* A heartbeat that was under way when `shutdown()` began may reach the hub after the unregister
  request (`ccrc-term.js:260`, against `off-nhip-tim-hoi-sinh.test.js:106`); `ListFollowsLife` shows
  that the ghost leaves the list.
* `mixed` (`Compose`): the one key `ccrc_dang_gui` is overwritten by a second Send (`term.js:703`,
  against `:608`); a tab that dies then takes the first text with it.
* `astray` (`Compose`): of two texts sent one after the other, neither of them answered, the first
  comes back at its timer and the second one is put in front of it at its own (`term.js:650-652`,
  `:707-713`), against `:663-665`, which speaks of the order in which the user wrote. A text whose
  timer ran out stays in `ccrc_dang_gui` too, so that a page opened again has it twice (`:664-670`).
* `term.js:344-345` takes every socket that closed before it opened for a refusal of the key. A
  reconnect that fails on the network loses a key the daemon still accepts, and the page stops
  until the next tap: `StopsForAReason` counts holding nothing as a reason.
* `straddled` (`AttachGate`): a used ticket that is shown again at `exp` passes `now > exp`
  (`ticket.js:60`, `:114`), and if the clock moves on before `ccrc-term.js:393`, `nonces.use()`
  forgets its nonce (`nonce-store.js:29`) and lets it in once more.
* A ticket whose answer was lost is used up, and the page shows it every few seconds until the user
  taps again (`term.js:278`).
* `overlapped` (`Pairing`): two commands that change `devices.json` at once share one temporary
  name (`devices.js:122`); a device is lost, or one comes back.
* Two runs of `startPairing()` may each make a key, and one overwrites the other's in the store;
  `pendingPair = null` after an await drops the watch of another run. `cancelPairing()` while the
  page waits for the machine's nonce does nothing. A machine that was unpaired, or refused, stays
  on the phone's list: `term.js:341` and `docs/huong-dan.md:514` send the user to pair again, but
  the card of a remembered machine only offers to open it (`app.js:475-476`, `:1262-1268`).
* `crossed` (`Remote`): an `on` beside any other command that deals with its pane at that time. The
  comment at `win-stop-file.js:120-123` says that this race does not exist in practice. An `on` that
  gives up, or is interrupted, leaves a daemon that no file names (`Stray`).
* `misjudged` (`Remote`): a probe of the pid that hangs or fails answers "not ours"
  (`ccrc-term-cli.js:100-107`, `:248-259`, `:274-286`). The comment speaks of failing closed, and
  nothing is signalled; but `daemonInfo()` removes the file of a daemon that serves (`:346-351`), so
  that no command finds it. A second `on` starts another one beside it, and on Windows an order for
  that one stops the first as well. There `off` may also report a daemon as stopped that is not
  (`:948-956`).
* `reused` (`Remote`): the comment at `ccrc-term-cli.js:312` says another pane's daemon is never
  touched; it is, if its pid is the one in the file of a daemon that died.
* `disturbed`, `beside`, `strayMark` (`PaneGroup`): `killGroupSession()` asks whether the session
  has any mark, and kills by name in a second call; `pane-source.js:251` says it only kills what is
  its own. The target of `set-option` is not exact, so a mark may come to be on another session.
  When the user ends their own session, `close()` may end the pane.
* `TwoAreGone` (`PaneGroup`): the comment at `tmux.js:652-654` says that the last session of a group
  is left alone, since the size of the group was counted. `reclaimPaneSession()` counts it before its
  first kill (`tmux.js:679`): if two runs that are gone left the last two sessions, the second one is
  killed by a size that is out of date. It takes three daemons, more than the run has: two of them
  gone, the third lists their groups, and the user ends their own session.
* `overswept` (`WinSession`): a reader of the registry that found a host dead removes the file a
  newer host wrote meanwhile (`host-registry.js:131`).
* `taken` (`WinSession`): the file of a host that was killed stays, and a process that is given its
  pid makes `alive()` true (`pane-source-conpty.js:103-111`, `:167-170`; `host-registry.js:32-40` is
  the same): the viewers are told nothing until that process ends.
* `replaced` (`WinSession`): a read that finds the socket destroyed before its `close` event makes a
  new pipe (`pane-source-conpty.js:264`) without forgetting what it declared (`:254-255`), and the
  new connection is told no size until the size changes.
* `cutShort` (`WinSession`): a viewer that comes back from the history misses what was broadcast
  and not yet in the copy (`ccrc-term.js:487`), unlike one that attaches. `stale`: a new host with an
  empty screen sends no snapshot, and the copy keeps the old one until something is printed.
* `lost` (`HubLogin`): `deploy.sh` overwrites what the hub wrote since it read (`deploy.sh:66-72`
  says so); and `saveSlackUser()` starts from an empty list when the file cannot be read
  (`index.js:137-138`), although `deploy.sh:50-58` explains why one must stop there.
* `blind` (`HubLogin`): a `loadUsers()` that cannot read the file empties the table
  (`index.js:84-86`): every token stops working until the file changes again.
* `carried` (`HubLogin`): the nonce of `index.js:496-509` ties the callback to the browser of the
  login, but the callback's redirect carries a code that `/api/auth/claim` takes from any browser
  (`:654-658`) and the page from its address (`app.js:111-127`): opened in another browser, that
  page acts for the first one's person.
* A machine whose poll was answered, and lost the answer, hears that the code is gone, although the
  page was told that the machine is in (`device-code.js:165`).

## 6. Not modelled, and the plan

In this order:

1. Typing and paste of the ConPTY source (`pane-source-conpty.js:398-493`), composed with `Compose`.
2. The subscription file and the client's registration added to `PushSubs`.
3. `LiveStream` as the abstract specification of `WinSession`, of whole sessions of a viewer.
4. What `AttachGate` leaves out: the Origin check, the shape of tokens; what `HubLogin` leaves out:
   rate limits as counters.

Left out for good: rendering and wording, static files, key and mouse encodings, cryptography
itself, configuration and installation scripts, the Windows launcher's console handling, and the
list of sessions in the web application, which only draws what the hub says.
