---------------------------- MODULE AttachQueue ----------------------------
(***************************************************************************)
(* term/src/attach-queue.js: the write queue of one in-memory terminal and *)
(* the protocol that attaches a viewer to the middle of a live stream.     *)
(*                                                                         *)
(* The promise chain is a sequence of jobs; its head is the one running.   *)
(* Each .then of the source is a step of its own, and pty data, attach()   *)
(* and the socket's end may come between any two of them.  A chunk of      *)
(* bytes is its sequence number, the screen is the set of chunks written   *)
(* to it, and an array of held frames is the set of their numbers (feed()  *)
(* pushes in ascending order).                                             *)
(***************************************************************************)
EXTENDS Naturals, Sequences, FiniteSets

CONSTANTS Client,     \* authenticated viewers, each attaches once
          Work,       \* what may be queued with enqueue() (the host queues resizes)
          MaxChunks,  \* bound: chunks the pty prints
          MaxChain    \* bound: jobs waiting when something new is enqueued

ASSUME BoundsAssumption == MaxChunks \in Nat /\ MaxChain \in Nat

VARIABLES
  chain,      \* jobs of the promise chain, the running one first
  seq,        \* number of the last chunk received
  written,    \* number of the last chunk whose write finished
  screen,     \* chunks the screen holds
  clients,    \* the broadcast set
  held,       \* held[c]: frames kept for c while it waits (its `pending` array)
  phase,      \* phase[c]: where c's attach() call stands
  snapSeq,    \* snapSeq[c]: `written` as the snapshot link saw it
  frame,      \* frame[c]: the chunks in c's snapshot
  wanted,     \* clients for which stillWanted() answers true
  view,       \* view[c]: what c has been sent
  attachedAt, \* history: seq when attach(c) was called
  failed,     \* history: chunks whose write was rejected
  unframed    \* history: chunks that had no frame

queueVars == <<chain, seq, written, screen>>
attachVars == <<held, phase, snapSeq, frame, attachedAt>>
aqVars == <<chain, seq, written, screen, clients, held, phase, snapSeq, frame,
            wanted, view, attachedAt, failed, unframed>>

Chunk == 1..MaxChunks
Job == [op : {"write", "mark"}, of : Chunk] \cup [op : {"snap"}, of : Client]
         \cup [op : {"run"}, of : Work]
Jobs == {<<>>} \cup {<<[op |-> "run", of |-> w]>> : w \in Work}   \* at most one enqueue() call
Attaching == {c \in Client : phase[c] \in {"waiting", "captured", "broken"}}

(* The client's end, and what a viewer should hold: the abstract module's. *)
Promise == INSTANCE LiveStream WITH
             stream <- seq, unrecorded <- failed, unframed <- unframed, viewers <- clients,
             view <- [c \in Client |-> IF c \in clients THEN view[c]
                                       ELSE [shown |-> {}, clean |-> TRUE]]

Show(v, B) == Promise!Show(v, B)
Nothing == Promise!Nothing
---------------------------------------------------------------------------
AQInit ==
  /\ chain = <<>>
  /\ seq = 0
  /\ written = 0
  /\ screen = {}
  /\ clients = {}
  /\ held = [c \in Client |-> {}]
  /\ phase = [c \in Client |-> "new"]
  /\ snapSeq = [c \in Client |-> 0]
  /\ frame = [c \in Client |-> {}]
  /\ wanted = Client
  /\ view = [c \in Client |-> Nothing]
  /\ attachedAt = [c \in Client |-> 0]
  /\ failed = {}
  /\ unframed = {}

(* enqueue(fn): one more link at the end of the chain.                     *)
Queued(jobs) == chain \o jobs

Enqueue(w) ==
  /\ Len(chain) < MaxChain
  /\ chain' = Queued(<<[op |-> "run", of |-> w]>>)
  /\ UNCHANGED <<seq, written, screen, clients, attachVars, wanted, view, failed, unframed>>

(* Lines 85-88: the frame of chunk n is kept for everyone whose attach()   *)
(* is under way.                                                           *)
KeptForNobody(n) == held

Kept(n) == [c \in Client |-> IF c \in Attaching THEN held[c] \cup {n} ELSE held[c]]

(* feed() when the chunk has a frame: queue the write, send the frame to   *)
(* every client, keep it for those on their way.                           *)
Feed ==
  /\ seq < MaxChunks
  /\ seq' = seq + 1
  /\ chain' = Queued(<<[op |-> "write", of |-> seq + 1]>>)
  /\ view' = [c \in Client |-> IF c \in clients THEN Show(view[c], {seq + 1}) ELSE view[c]]
  /\ held' = Kept(seq + 1)
  /\ UNCHANGED <<written, screen, clients, phase, snapSeq, frame, wanted, attachedAt,
                 failed, unframed>>

(* feed() when encodeFrame threw: the bytes go to the screen, nobody is    *)
(* sent them and nobody's array keeps them.                                *)
FeedUnframed ==
  /\ seq < MaxChunks
  /\ seq' = seq + 1
  /\ chain' = Queued(<<[op |-> "write", of |-> seq + 1]>>)
  /\ unframed' = unframed \cup {seq + 1}
  /\ UNCHANGED <<written, screen, clients, attachVars, wanted, view, failed>>
---------------------------------------------------------------------------
Running(op) == chain # <<>> /\ Head(chain).op = op

(* The write of the head chunk settles: the screen has it, or rejected it  *)
(* (then the link that notes `written` is skipped).                        *)
WriteSettles ==
  /\ Running("write")
  /\ \/ /\ screen' = screen \cup {Head(chain).of}
        /\ chain' = [chain EXCEPT ![1] = [op |-> "mark", of |-> Head(chain).of]]
        /\ UNCHANGED failed
     \/ /\ failed' = failed \cup {Head(chain).of}
        /\ chain' = Tail(chain)
        /\ UNCHANGED screen
  /\ UNCHANGED <<seq, written, clients, attachVars, wanted, view, unframed>>

NotedNumber(n) == n

NoteWritten ==
  /\ Running("mark")
  /\ written' = NotedNumber(Head(chain).of)
  /\ chain' = Tail(chain)
  /\ UNCHANGED <<seq, screen, clients, attachVars, wanted, view, failed, unframed>>

RunQueued ==
  /\ Running("run")
  /\ chain' = Tail(chain)
  /\ UNCHANGED <<seq, written, screen, clients, attachVars, wanted, view, failed, unframed>>

(* The snapshot link: it notes what is written and takes the screen, or    *)
(* snapshot() throws, which breaks this attach and not the chain.          *)
TakeSnapshot ==
  /\ Running("snap")
  /\ LET c == Head(chain).of IN
       /\ snapSeq' = [snapSeq EXCEPT ![c] = written]
       /\ \/ /\ frame' = [frame EXCEPT ![c] = screen]
             /\ phase' = [phase EXCEPT ![c] = "captured"]
          \/ /\ phase' = [phase EXCEPT ![c] = "broken"]
             /\ UNCHANGED frame
  /\ chain' = Tail(chain)
  /\ UNCHANGED <<seq, written, screen, clients, held, wanted, view, attachedAt, failed, unframed>>
---------------------------------------------------------------------------
(* attach(client) up to its await: the array is opened and the snapshot    *)
(* link queued in one turn.                                                *)
Attach(c) ==
  /\ phase[c] = "new"
  /\ c \in wanted
  /\ phase' = [phase EXCEPT ![c] = "waiting"]
  /\ attachedAt' = [attachedAt EXCEPT ![c] = seq]
  /\ chain' = Queued(<<[op |-> "snap", of |-> c]>>)
  /\ UNCHANGED <<seq, written, screen, clients, held, snapSeq, frame, wanted, view, failed,
                 unframed>>

(* The for loop of joinBroadcast(): held frames the snapshot did not see.  *)
LateSkipsOne(c) == {n \in held[c] : n > snapSeq[c] + 1}

Late(c) == {n \in held[c] : n > snapSeq[c]}

(* Mutant: what held before the await holds after it.                      *)
NotAsked(c) == TRUE

(* The check after the await, and the `finally` that drops the array.      *)
StillWanted(c) == c \in wanted

CloseArray(c) ==
  /\ phase' = [phase EXCEPT ![c] = "done"]
  /\ held' = [held EXCEPT ![c] = {}]

(* attach() resumes after its await and the client is still there:         *)
(* snapshot, held frames and registration in one turn.  `jobs` is what     *)
(* onAttached enqueues.                                                    *)
JoinBroadcast(c, jobs) ==
  /\ phase[c] = "captured"
  /\ StillWanted(c)
  /\ view' = [view EXCEPT ![c] = Show(Show(@, frame[c]), Late(c))]
  /\ clients' = clients \cup {c}
  /\ CloseArray(c)
  /\ chain' = Queued(jobs)
  /\ UNCHANGED <<seq, written, screen, snapSeq, frame, wanted, attachedAt, failed, unframed>>

(* onError: the host destroys the socket of a client it could not attach.  *)
LeftOpen(c) == wanted

Destroyed(c) == wanted \ {c}

(* attach() resumes and there is nothing to join: the client is gone, or   *)
(* the snapshot threw and onError ends it.  The array is dropped.          *)
GiveUp(c) ==
  /\ \/ phase[c] = "captured" /\ ~StillWanted(c) /\ wanted' = wanted
     \/ phase[c] = "broken" /\ wanted' = Destroyed(c)
  /\ CloseArray(c)
  /\ UNCHANGED <<queueVars, clients, snapSeq, frame, view, attachedAt, failed, unframed>>

(* The client's socket ends: stillWanted() turns false and the host calls  *)
(* detach().  `jobs` is what the host enqueues because of it.              *)
Detach(c, jobs) ==
  /\ wanted' = wanted \ {c}
  /\ clients' = clients \ {c}
  /\ chain' = Queued(jobs)
  /\ UNCHANGED <<seq, written, screen, attachVars, view, failed, unframed>>
---------------------------------------------------------------------------
ChainStep == WriteSettles \/ NoteWritten \/ RunQueued \/ TakeSnapshot
Resume(c) == (\E jobs \in Jobs : JoinBroadcast(c, jobs)) \/ GiveUp(c)

AQNext ==
  \/ Feed
  \/ FeedUnframed
  \/ WriteSettles
  \/ NoteWritten
  \/ RunQueued
  \/ TakeSnapshot
  \/ \E w \in Work : Enqueue(w)
  \/ \E c \in Client : Attach(c)
  \/ \E c \in Client, jobs \in Jobs : JoinBroadcast(c, jobs)
  \/ \E c \in Client : GiveUp(c)
  \/ \E c \in Client, jobs \in Jobs : c \in wanted /\ Detach(c, jobs)

AQSpec == AQInit /\ [][AQNext]_aqVars

(* The event loop runs every queued link and every resumed await, and the  *)
(* screen settles every write it was given.                                *)
AQFair == WF_aqVars(ChainStep) /\ \A c \in Client : WF_aqVars(Resume(c))
FairAQSpec == AQSpec /\ AQFair
---------------------------------------------------------------------------
TypeOK ==
  /\ chain \in Seq(Job)
  /\ seq \in 0..MaxChunks
  /\ written \in 0..MaxChunks
  /\ screen \in SUBSET Chunk
  /\ clients \in SUBSET Client
  /\ held \in [Client -> SUBSET Chunk]
  /\ phase \in [Client -> {"new", "waiting", "captured", "broken", "done"}]
  /\ snapSeq \in [Client -> 0..MaxChunks]
  /\ frame \in [Client -> SUBSET Chunk]
  /\ wanted \in SUBSET Client
  /\ view \in [Client -> [shown : SUBSET Chunk, clean : BOOLEAN]]
  /\ attachedAt \in [Client -> 0..MaxChunks]
  /\ failed \in SUBSET Chunk
  /\ unframed \in SUBSET Chunk

(* "Every client rebuilds exactly the byte stream from the point where it  *)
(* attached - nothing missing, nothing twice" (attach-queue.js:16): what a *)
(* client of the broadcast set holds is the screen as of its attach() call *)
(* followed by every later chunk that has a frame, each once and in order. *)
ExactStream ==
  \A c \in clients :
    /\ view[c].clean
    /\ view[c].shown = Promise!StreamFrom(attachedAt[c], seq, failed, unframed)

(* The comment of attach() (lines 113-118): no chunk is ever both in a     *)
(* snapshot and in the held frames, so the comparison seq > snapSeq is     *)
(* always true and dropping it would change nothing.                       *)
HeldIsNeverCaptured ==
  \A c \in Client : phase[c] = "captured" =>
    /\ frame[c] \cap held[c] = {}
    /\ Late(c) = held[c]

(* A client whose socket ended is not in the broadcast set, whatever its   *)
(* attach() was waiting for at that moment: it would stay there for ever,  *)
(* and count in the size of the pty (line 157).                            *)
NoDeadClient == clients \subseteq wanted

(* Every attach() call comes back, so no array of held frames is forgotten *)
(* in a process that lives for days (pendingCount).                        *)
AttachSettles == \A c \in Client : c \in Attaching ~> c \notin Attaching

(* The queue does what LiveStream promises.                                *)
ImplementsLiveStream == Promise!Spec
===========================================================================
