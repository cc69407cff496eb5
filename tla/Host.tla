------------------------------- MODULE Host -------------------------------
(***************************************************************************)
(* term/bin/ccrc-host.js: the process that owns one ConPTY, its in-memory  *)
(* screen and the viewers on its pipe.  It composes the attach queue with  *)
(* the size rule "the smallest screen wins": the pty is resized at once,   *)
(* the in-memory screen through the queue, so that bytes already received  *)
(* are laid out at the width they were printed for.                        *)
(*                                                                         *)
(* A size is <<cols, rows>>.  The work the queue carries here is resizes,  *)
(* so the constant Work of AttachQueue is the set of sizes.                *)
(***************************************************************************)
EXTENDS AttachQueue, FiniteSetsExt

CONSTANTS Columns, Rows,  \* widths and heights inside MIN_COLS..MAX_COLS, MIN_ROWS..MAX_ROWS
          DefaultSize     \* what the pty is opened with

ASSUME SizesAssumption ==
  /\ Columns \subseteq Nat \ {0}
  /\ Rows \subseteq Nat \ {0}
  /\ Work = Columns \X Rows
  /\ DefaultSize \in Work

VARIABLES
  declared,   \* declared[c]: client.cols, client.rows; Undeclared is 0 x 0
  curSize,    \* curCols, curRows: the size of the pty
  screenSize, \* the size of the in-memory screen
  receivedAt, \* history: size of the pty when chunk n came
  laidAt      \* history: size of the screen when the write of chunk n settled

sizeVars == <<declared, curSize, screenSize, receivedAt, laidAt>>
hostVars == <<aqVars, sizeVars>>

Undeclared == <<0, 0>>
Connected(c) == c \in wanted /\ phase[c] # "new"
---------------------------------------------------------------------------
HostInit ==
  /\ AQInit
  /\ declared = [c \in Client |-> Undeclared]
  /\ curSize = DefaultSize
  /\ screenSize = DefaultSize
  /\ receivedAt = <<>>
  /\ laidAt = [n \in Chunk |-> DefaultSize]

(* applySize(): the smallest width and the smallest height among the       *)
(* clients C that have said d[c].  With nobody to ask the size stays.      *)
Counted(C, d) == {c \in C : d[c] # Undeclared}

SmallestOf(C, d) ==
  IF Counted(C, d) = {} THEN curSize
  ELSE <<Min({d[c][1] : c \in Counted(C, d)}), Min({d[c][2] : c \in Counted(C, d)})>>

(* The pty follows at once, the screen when the queue gets there.          *)
ResizeJobs(size) == IF size = curSize THEN <<>> ELSE <<[op |-> "run", of |-> size]>>

ScreenAtOnce(C, d) == curSize' = SmallestOf(C, d) /\ screenSize' = SmallestOf(C, d)

ApplySize(C, d) == curSize' = SmallestOf(C, d) /\ UNCHANGED screenSize

(* term.onData: the chunk was printed for the size the pty has now.        *)
PtyPrints ==
  /\ Feed \/ FeedUnframed
  /\ receivedAt' = Append(receivedAt, curSize)
  /\ UNCHANGED <<declared, curSize, screenSize, laidAt>>
---------------------------------------------------------------------------
(* The first frame is the secret: the client object is made and attached.  *)
Authenticate(c) ==
  /\ Attach(c)
  /\ UNCHANGED sizeVars

(* attach() comes back with the client still there; onAttached is          *)
(* applySize, because the size may have been declared while it waited.     *)
NotRecounted(c) == UNCHANGED <<curSize, screenSize>>

OnAttached(c) == ApplySize(clients \cup {c}, declared)

Joins(c) ==
  /\ JoinBroadcast(c, ResizeJobs(SmallestOf(clients \cup {c}, declared)))
  /\ OnAttached(c)
  /\ UNCHANGED <<declared, receivedAt, laidAt>>

Abandons(c) ==
  /\ GiveUp(c)
  /\ UNCHANGED sizeVars

(* A control frame "resize" with a size in bounds, or 0 x 0 to withdraw.   *)
(* Only members of the broadcast set count, declared or not.               *)
Declare(c, size) ==
  /\ Connected(c)
  /\ declared[c] # size
  /\ Len(chain) < MaxChain
  /\ declared' = [declared EXCEPT ![c] = size]
  /\ ApplySize(clients, declared')
  /\ chain' = Queued(ResizeJobs(SmallestOf(clients, declared')))
  /\ UNCHANGED <<seq, written, screen, clients, attachVars, wanted, view, failed, unframed,
                 receivedAt, laidAt>>

(* The socket ends: detach, then applySize for those who stay.  Before the *)
(* secret came (wrong frame, AUTH_TIMEOUT_MS) there is nobody to detach.   *)
OnClose(c) == ApplySize(clients \ {c}, declared)

SocketEnds(c) ==
  /\ c \in wanted
  /\ Detach(c, ResizeJobs(SmallestOf(clients \ {c}, declared)))
  /\ OnClose(c)
  /\ UNCHANGED <<declared, receivedAt, laidAt>>
---------------------------------------------------------------------------
(* One link of the queue.  A write lays the chunk out at the screen's      *)
(* size; a queued resize changes that size.                                *)
HostWriteSettles ==
  /\ WriteSettles
  /\ laidAt' = [laidAt EXCEPT ![Head(chain).of] = screenSize]
  /\ UNCHANGED <<declared, curSize, screenSize, receivedAt>>

ScreenResizes ==
  /\ RunQueued
  /\ screenSize' = Head(chain).of
  /\ UNCHANGED <<declared, curSize, receivedAt, laidAt>>

HostLink ==
  /\ NoteWritten \/ TakeSnapshot
  /\ UNCHANGED sizeVars

HostNext ==
  \/ PtyPrints
  \/ \E c \in Client :
       \/ Authenticate(c)
       \/ Joins(c)
       \/ Abandons(c)
       \/ SocketEnds(c)
       \/ \E size \in Work \cup {Undeclared} : Declare(c, size)
  \/ HostWriteSettles
  \/ ScreenResizes
  \/ HostLink

HostSpec == HostInit /\ [][HostNext]_hostVars

(* As for the queue: the event loop runs every queued link and every       *)
(* resumed attach(), and the screen settles every write.                   *)
HostFair ==
  /\ WF_hostVars(HostWriteSettles \/ ScreenResizes \/ HostLink)
  /\ \A c \in Client : WF_hostVars(Joins(c) \/ Abandons(c))
FairHostSpec == HostSpec /\ HostFair
---------------------------------------------------------------------------
HostTypeOK ==
  /\ declared \in [Client -> Work \cup {Undeclared}]
  /\ curSize \in Work
  /\ screenSize \in Work
  /\ receivedAt \in Seq(Work) /\ Len(receivedAt) = seq
  /\ laidAt \in [Chunk -> Work]

(* Lines 224-227: bytes that came while the pty had one width must not be  *)
(* laid out again at another, however many resizes and writes are queued.  *)
LaidAsReceived == \A n \in screen : laidAt[n] = receivedAt[n]

(* The smallest screen wins among those who are watching, whoever joined,  *)
(* left, declared or withdrew, and in whatever order.                      *)
SmallestWins ==
  LET C == Counted(clients, declared)
  IN C # {} =>
       /\ \A c \in C : curSize[1] <= declared[c][1] /\ curSize[2] <= declared[c][2]
       /\ \E c, d \in C : curSize = <<declared[c][1], declared[d][2]>>

(* A screen that is `now` big will be `size` big when link i of queue q    *)
(* runs: that is the last resize queued before it, if there is one.        *)
WillBe(q, now, i, size) ==
  /\ (\A j \in 1..(i - 1) : q[j].op # "run") => size = now
  /\ \A j \in 1..(i - 1) :
       q[j].op = "run" /\ (\A k \in (j + 1)..(i - 1) : q[k].op # "run") => size = q[j].of

(* The screen is never left behind the pty: once the queue is through, the *)
(* snapshot a newcomer gets has the shape of the pty.                      *)
ScreenFollowsPty == WillBe(chain, screenSize, Len(chain) + 1, curSize)

(* A viewer that gave the secret is shown the session or its socket ends;  *)
(* it never hangs in front of an empty screen.                             *)
ViewerIsServed == \A c \in Client : Connected(c) ~> (c \in clients \/ c \notin wanted)

(* Every step of the host is a step of the attach queue: what is proved of *)
(* the queue holds in the host.                                            *)
HostRunsTheQueue == AQSpec
===========================================================================
