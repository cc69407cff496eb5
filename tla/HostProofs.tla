----------------------------- MODULE HostProofs -----------------------------
(***************************************************************************)
(* The attach protocol delivers the exact stream for any number of         *)
(* viewers, chunks and queued jobs; the host runs it, so that its viewers  *)
(* get the exact stream, and lays every chunk out at the size it was       *)
(* received at.                                                            *)
(***************************************************************************)
EXTENDS Host, SequenceTheorems, WellFoundedInduction, TLAPS

(***************************************************************************)
(* The queue alone (AttachQueue).                                          *)
(***************************************************************************)
(* Positions of the chain that carry bytes.                                *)
Bytes == {i \in 1..Len(chain) : chain[i].op \in {"write", "mark"}}
Snaps == {i \in 1..Len(chain) : chain[i].op = "snap"}

(* Writes are queued in the order the bytes arrived.                       *)
InOrder ==
  /\ \A i \in Bytes : chain[i].of <= seq /\ written < chain[i].of
  /\ \A i, j \in Bytes : i < j => chain[i].of < chain[j].of
  /\ \A i \in 2..Len(chain) : chain[i].op # "mark"
  /\ written <= seq

(* A chunk is in the screen, rejected, or waiting in the chain.            *)
Settled ==
  /\ \A n \in Chunk :
       (n \in screen \/ n \in failed)
         <=> (n <= seq /\ \A i \in Bytes : chain[i].op = "write" => chain[i].of # n)
  /\ screen \cap failed = {}

(* A waiting attach() has exactly one snapshot link, which separates the   *)
(* chunks before the attach from those after it.                           *)
Separated ==
  /\ \A i \in Snaps : phase[chain[i].of] = "waiting"
  /\ \A i, j \in Snaps : chain[i].of = chain[j].of => i = j
  /\ \A i \in Snaps :
       /\ written <= attachedAt[chain[i].of]
       /\ \A j \in Bytes : j < i => chain[j].of <= attachedAt[chain[i].of]
       /\ \A j \in Bytes : j > i => chain[j].of > attachedAt[chain[i].of]
       /\ \A n \in Chunk : attachedAt[chain[i].of] < n /\ n <= seq =>
             \E j \in Bytes : j > i /\ chain[j].of = n

(* What an attach() in progress keeps, and has captured.                   *)
Keeps(c) == held[c] = {n \in Chunk : attachedAt[c] < n /\ n <= seq /\ n \notin unframed}

Past(c) == {n \in Chunk : n <= attachedAt[c] /\ n \notin failed}

Captured(c) ==
  /\ frame[c] = Past(c)
  /\ snapSeq[c] <= attachedAt[c]
  /\ \A i \in Bytes : chain[i].of > attachedAt[c]

OnTheWay ==
  \A c \in Client :
    /\ attachedAt[c] <= seq
    /\ c \in Attaching => Keeps(c)
    /\ phase[c] = "captured" => Captured(c)
    /\ phase[c] # "done" => view[c] = Nothing /\ c \notin clients
    /\ phase[c] \in {"new", "done"} => held[c] = {}

(* What a client of the broadcast set holds.                               *)
Follows(c) ==
  /\ view[c].clean
  /\ view[c].shown = Past(c) \cup {n \in Chunk : attachedAt[c] < n /\ n <= seq /\ n \notin unframed}
  /\ \A i \in Bytes : chain[i].of > attachedAt[c]

Live == \A c \in clients : Follows(c)

UnframedSeen == \A n \in unframed : n <= seq

Shape == InOrder /\ Settled /\ Separated /\ OnTheWay /\ Live /\ UnframedSeen
---------------------------------------------------------------------------
(* Reading a chain after one more link, and after its head is done.        *)
LEMMA QueuedOne ==
  ASSUME NEW S, NEW s \in Seq(S), NEW j \in S
  PROVE  /\ s \o <<j>> \in Seq(S)
         /\ Len(s \o <<j>>) = Len(s) + 1
         /\ \A i \in 1..Len(s) : (s \o <<j>>)[i] = s[i]
         /\ (s \o <<j>>)[Len(s) + 1] = j
  OBVIOUS

LEMMA HeadDone ==
  ASSUME NEW S, NEW s \in Seq(S), s # <<>>
  PROVE  /\ Tail(s) \in Seq(S)
         /\ Len(s) \in Nat
         /\ Len(s) >= 1
         /\ Head(s) = s[1]
         /\ s[1] \in S
         /\ Len(Tail(s)) = Len(s) - 1
         /\ \A i \in 1..Len(Tail(s)) : Tail(s)[i] = s[i + 1] /\ i + 1 \in 1..Len(s)
  OBVIOUS

LEMMA HeadChanged ==
  ASSUME NEW S, NEW s \in Seq(S), s # <<>>, NEW j \in S
  PROVE  /\ [s EXCEPT ![1] = j] \in Seq(S)
         /\ Len([s EXCEPT ![1] = j]) = Len(s)
         /\ Len(s) >= 1
         /\ [s EXCEPT ![1] = j][1] = j
         /\ \A i \in 2..Len(s) : [s EXCEPT ![1] = j][i] = s[i]
  OBVIOUS
---------------------------------------------------------------------------
(* Shapes of the values that the actions store.                            *)
LEMMA ShowType ==
  ASSUME NEW v \in [shown : SUBSET Chunk, clean : BOOLEAN], NEW B \in SUBSET Chunk
  PROVE  /\ Show(v, B) \in [shown : SUBSET Chunk, clean : BOOLEAN]
         /\ Show(v, B).shown = v.shown \cup B
         /\ Show(v, B).clean = (v.clean /\ \A k \in v.shown, m \in B : k < m)
  BY DEF Show, Promise!Show

LEMMA NothingType ==
  /\ Nothing \in [shown : SUBSET Chunk, clean : BOOLEAN]
  /\ Nothing.shown = {}
  /\ Nothing.clean = TRUE
  BY DEF Nothing, Promise!Nothing

LEMMA JobType ==
  ASSUME NEW j \in Job
  PROVE  /\ j.op \in {"write", "mark"} => j.of \in Chunk
         /\ j.op = "snap" => j.of \in Client
         /\ j.op = "run" => j.of \in Work
  BY DEF Job

LEMMA JobsMade ==
  /\ \A n \in Chunk : [op |-> "write", of |-> n] \in Job /\ [op |-> "mark", of |-> n] \in Job
  /\ \A c \in Client : [op |-> "snap", of |-> c] \in Job
  /\ \A w \in Work : [op |-> "run", of |-> w] \in Job
  BY DEF Job

LEMMA MoreJobsType ==
  ASSUME chain \in Seq(Job), NEW jobs \in Jobs
  PROVE  chain \o jobs \in Seq(Job)
  BY JobsMade, QueuedOne, ConcatEmptySeq DEF Jobs

LEMMA NextChunk == ASSUME seq \in 0..MaxChunks, seq < MaxChunks
                   PROVE  seq + 1 \in Chunk /\ seq + 1 \in 0..MaxChunks
  BY BoundsAssumption DEF Chunk

LEMMA TypeInit == AQInit => TypeOK
  BY NothingType, BoundsAssumption DEF AQInit, TypeOK

LEMMA TypeStep == TypeOK /\ [AQNext]_aqVars => TypeOK'
<1> SUFFICES ASSUME TypeOK, [AQNext]_aqVars PROVE TypeOK'
  OBVIOUS
<1>1. CASE Feed
  <2>1. chain' \in Seq(Job)
    BY <1>1, NextChunk, JobsMade, QueuedOne DEF Feed, TypeOK, Queued
  <2>2. view' \in [Client -> [shown : SUBSET Chunk, clean : BOOLEAN]]
    <3>1. \A c \in Client : Show(view[c], {seq + 1}) \in [shown : SUBSET Chunk, clean : BOOLEAN]
      BY <1>1, NextChunk, ShowType DEF Feed, TypeOK
    <3>2. QED
      BY <1>1, <3>1 DEF Feed, TypeOK
  <2>3. held' \in [Client -> SUBSET Chunk]
    BY <1>1, NextChunk DEF Feed, TypeOK, Kept
  <2>4. QED
    BY <1>1, <2>1, <2>2, <2>3, NextChunk DEF Feed, TypeOK
<1>2. CASE FeedUnframed
  <2>1. chain' \in Seq(Job)
    BY <1>2, NextChunk, JobsMade, QueuedOne DEF FeedUnframed, TypeOK, Queued
  <2>2. QED
    BY <1>2, <2>1, NextChunk DEF FeedUnframed, TypeOK, attachVars
<1>3. CASE WriteSettles
  <2>1. Head(chain) \in Job /\ Head(chain).of \in Chunk /\ Tail(chain) \in Seq(Job)
    BY <1>3, HeadDone, JobType DEF WriteSettles, Running, TypeOK
  <2>2. [chain EXCEPT ![1] = [op |-> "mark", of |-> Head(chain).of]] \in Seq(Job)
    <3> DEFINE j == [op |-> "mark", of |-> Head(chain).of]
    <3>1. j \in Job
      BY <2>1, JobsMade
    <3> HIDE DEF j
    <3>2. [chain EXCEPT ![1] = j] \in Seq(Job)
      BY <1>3, <3>1, HeadChanged DEF WriteSettles, Running, TypeOK
    <3>3. QED
      BY <3>2 DEF j
  <2>3. QED
    BY <1>3, <2>1, <2>2 DEF WriteSettles, TypeOK, attachVars
<1>4. CASE NoteWritten
  <2>1. Head(chain).of \in Chunk /\ Tail(chain) \in Seq(Job)
    BY <1>4, HeadDone, JobType DEF NoteWritten, Running, TypeOK
  <2>2. QED
    BY <1>4, <2>1, BoundsAssumption DEF NoteWritten, NotedNumber, TypeOK, attachVars, Chunk
<1>5. CASE RunQueued
  BY <1>5, HeadDone DEF RunQueued, Running, TypeOK, attachVars
<1>6. CASE TakeSnapshot
  <2>1. Head(chain).of \in Client /\ Tail(chain) \in Seq(Job)
    BY <1>6, HeadDone, JobType DEF TakeSnapshot, Running, TypeOK
  <2>2. QED
    BY <1>6, <2>1 DEF TakeSnapshot, TypeOK
<1>7. ASSUME NEW w \in Work, Enqueue(w) PROVE TypeOK'
  <2>1. chain' \in Seq(Job)
    BY <1>7, JobsMade, QueuedOne DEF Enqueue, TypeOK, Queued
  <2>2. QED
    BY <1>7, <2>1 DEF Enqueue, TypeOK, attachVars
<1>8. ASSUME NEW c \in Client, Attach(c) PROVE TypeOK'
  <2>1. chain' \in Seq(Job)
    BY <1>8, JobsMade, QueuedOne DEF Attach, TypeOK, Queued
  <2>2. QED
    BY <1>8, <2>1 DEF Attach, TypeOK
<1>9. ASSUME NEW c \in Client, NEW jobs \in Jobs, JoinBroadcast(c, jobs) PROVE TypeOK'
  <2>1. chain' \in Seq(Job)
    BY <1>9, MoreJobsType DEF JoinBroadcast, TypeOK, Queued
  <2>2. Late(c) \in SUBSET Chunk
    BY DEF Late, TypeOK
  <2>3. Show(view[c], frame[c]) \in [shown : SUBSET Chunk, clean : BOOLEAN]
    BY ShowType DEF TypeOK
  <2>4. view' \in [Client -> [shown : SUBSET Chunk, clean : BOOLEAN]]
    BY <1>9, <2>2, <2>3, ShowType DEF JoinBroadcast, TypeOK
  <2>5. QED
    BY <1>9, <2>1, <2>4 DEF JoinBroadcast, CloseArray, TypeOK
<1>10. ASSUME NEW c \in Client, GiveUp(c) PROVE TypeOK'
  BY <1>10 DEF GiveUp, Destroyed, CloseArray, TypeOK, queueVars
<1>11. ASSUME NEW c \in Client, NEW jobs \in Jobs, Detach(c, jobs) PROVE TypeOK'
  <2>1. chain' \in Seq(Job)
    BY <1>11, MoreJobsType DEF Detach, TypeOK, Queued
  <2>2. QED
    BY <1>11, <2>1 DEF Detach, TypeOK, attachVars
<1>12. CASE UNCHANGED aqVars
  BY <1>12 DEF aqVars, TypeOK
<1>13. QED
  BY <1>1, <1>2, <1>3, <1>4, <1>5, <1>6, <1>7, <1>8, <1>9, <1>10, <1>11, <1>12 DEF AQNext

(* Every variable keeps its type.                                          *)
THEOREM TypeCorrect == AQSpec => []TypeOK
  BY TypeInit, TypeStep, PTL DEF AQSpec
---------------------------------------------------------------------------
(* TypeOK /\ Shape is the inductive invariant: one lemma per kind of step. *)
LEMMA ShapeInit == AQInit => Shape
<1> SUFFICES ASSUME AQInit PROVE Shape
  OBVIOUS
<1>1. Bytes = {} /\ Snaps = {} /\ Len(chain) = 0
  BY DEF AQInit, Bytes, Snaps
<1>2. InOrder /\ Settled /\ Separated /\ Live /\ UnframedSeen
  BY <1>1 DEF AQInit, InOrder, Settled, Separated, Live, UnframedSeen, Chunk
<1>3. OnTheWay
  BY DEF AQInit, OnTheWay, Attaching
<1>4. QED
  BY <1>2, <1>3 DEF Shape

(* One more link that carries no bytes leaves the bytes where they are.    *)
LEMMA MoreWork ==
  ASSUME TypeOK, NEW j \in Job, j.op \in {"run", "snap"}, chain' = chain \o <<j>>
  PROVE  /\ chain' \in Seq(Job)
         /\ Len(chain') = Len(chain) + 1
         /\ \A i \in 1..Len(chain) : chain'[i] = chain[i]
         /\ chain'[Len(chain) + 1] = j
         /\ Bytes' = Bytes
         /\ Snaps' = IF j.op = "snap" THEN Snaps \cup {Len(chain) + 1} ELSE Snaps
<1>1. /\ chain' \in Seq(Job)
      /\ Len(chain') = Len(chain) + 1
      /\ \A i \in 1..Len(chain) : chain'[i] = chain[i]
      /\ chain'[Len(chain) + 1] = j
  BY QueuedOne DEF TypeOK
<1>2. Len(chain) \in Nat
  BY DEF TypeOK
<1>3. QED
  BY <1>1, <1>2 DEF Bytes, Snaps

(* A chunk goes to the end of the chain.                                   *)
LEMMA MoreBytes ==
  ASSUME TypeOK, NEW n \in Chunk, chain' = chain \o <<[op |-> "write", of |-> n]>>
  PROVE  /\ Len(chain) \in Nat
         /\ Len(chain') = Len(chain) + 1
         /\ \A i \in 1..Len(chain) : chain'[i] = chain[i]
         /\ chain'[Len(chain) + 1] = [op |-> "write", of |-> n]
         /\ Bytes' = Bytes \cup {Len(chain) + 1}
         /\ Snaps' = Snaps
<1>1. /\ chain' \in Seq(Job)
      /\ Len(chain') = Len(chain) + 1
      /\ \A i \in 1..Len(chain) : chain'[i] = chain[i]
      /\ chain'[Len(chain) + 1] = [op |-> "write", of |-> n]
  <2> DEFINE j == [op |-> "write", of |-> n]
  <2>1. j \in Job
    BY JobsMade
  <2> HIDE DEF j
  <2>2. chain' = chain \o <<j>> => /\ chain' \in Seq(Job)
                                   /\ Len(chain') = Len(chain) + 1
                                   /\ \A i \in 1..Len(chain) : chain'[i] = chain[i]
                                   /\ chain'[Len(chain) + 1] = j
    BY <2>1, QueuedOne DEF TypeOK
  <2>3. QED
    BY <2>2 DEF j
<1>2. Len(chain) \in Nat
  BY DEF TypeOK
<1>3. QED
  BY <1>1, <1>2 DEF Bytes, Snaps

(* The head link is done: everything behind it moves up one place.         *)
LEMMA LessWork ==
  ASSUME TypeOK, chain # <<>>, chain' = Tail(chain)
  PROVE  /\ Len(chain) \in Nat /\ Len(chain) >= 1
         /\ Head(chain) = chain[1]
         /\ Len(chain') = Len(chain) - 1
         /\ \A i \in 1..Len(chain') : chain'[i] = chain[i + 1]
         /\ \A i : i \in Bytes' => i \in Nat /\ i >= 1 /\ i + 1 \in Bytes /\ chain'[i] = chain[i + 1]
         /\ \A i : i \in Snaps' => i \in Nat /\ i >= 1 /\ i + 1 \in Snaps /\ chain'[i] = chain[i + 1]
         /\ \A i \in Bytes : i > 1 => i - 1 \in Bytes' /\ chain'[i - 1] = chain[i]
<1>1. /\ Len(chain) \in Nat /\ Len(chain) >= 1
      /\ Head(chain) = chain[1]
      /\ Len(chain') = Len(chain) - 1
      /\ \A i \in 1..Len(chain') : chain'[i] = chain[i + 1] /\ i + 1 \in 1..Len(chain)
  BY HeadDone DEF TypeOK
<1>2. \A i : i \in Bytes' => i \in Nat /\ i >= 1 /\ i + 1 \in Bytes /\ chain'[i] = chain[i + 1]
  BY <1>1 DEF Bytes
<1>3. \A i : i \in Snaps' => i \in Nat /\ i >= 1 /\ i + 1 \in Snaps /\ chain'[i] = chain[i + 1]
  BY <1>1 DEF Snaps
<1>4. \A i \in Bytes : i > 1 => i - 1 \in Bytes' /\ chain'[i - 1] = chain[i]
  BY <1>1 DEF Bytes
<1>5. QED
  BY <1>1, <1>2, <1>3, <1>4

(* Every byte position holds a chunk, every snapshot position a client.    *)
LEMMA Carried ==
  ASSUME TypeOK
  PROVE  /\ Len(chain) \in Nat
         /\ \A i \in Bytes : i \in 1..Len(chain) /\ chain[i].of \in Chunk
         /\ \A i \in Snaps : i \in 1..Len(chain) /\ chain[i].of \in Client
  BY JobType DEF TypeOK, Bytes, Snaps

(* Numbers are numbers, and sets of chunks are sets of chunks.             *)
LEMMA Sorts ==
  ASSUME TypeOK
  PROVE  /\ seq \in Nat /\ written \in Nat
         /\ \A n \in Chunk : n \in Nat
         /\ \A n : n \in screen \/ n \in failed \/ n \in unframed => n \in Chunk
         /\ \A c \in Client : attachedAt[c] \in Nat /\ snapSeq[c] \in Nat
         /\ \A c \in Client : \A n \in view[c].shown : n \in Chunk
<1>1. \A n \in Chunk : n \in Nat
  BY BoundsAssumption DEF Chunk
<1>2. seq \in Nat /\ written \in Nat
  BY BoundsAssumption DEF TypeOK
<1>3. \A n : n \in screen \/ n \in failed \/ n \in unframed => n \in Chunk
  BY DEF TypeOK
<1>4. \A c \in Client : attachedAt[c] \in Nat /\ snapSeq[c] \in Nat
  BY BoundsAssumption DEF TypeOK
<1>5. \A c \in Client : \A n \in view[c].shown : n \in Chunk
  BY DEF TypeOK
<1>6. QED
  BY <1>1, <1>2, <1>3, <1>4, <1>5

(* The pty prints a chunk, framed or not.                                  *)
LEMMA FeedKeepsShape ==
  ASSUME TypeOK, Shape, Feed \/ FeedUnframed
  PROVE  Shape'
<1> DEFINE new == seq + 1
<1>1. /\ new \in Chunk /\ seq' = new
      /\ chain' = chain \o <<[op |-> "write", of |-> new]>>
  BY NextChunk DEF Feed, FeedUnframed, Queued, TypeOK
<1>2. UNCHANGED <<written, screen, failed, clients, phase, snapSeq, frame, attachedAt>>
  BY DEF Feed, FeedUnframed, attachVars
<1>3. \/ unframed' = unframed
      \/ unframed' = unframed \cup {new}
  BY DEF Feed, FeedUnframed
<1>7. new = seq + 1
  OBVIOUS
<1> HIDE DEF new
<1>4. /\ Len(chain) \in Nat
      /\ Len(chain') = Len(chain) + 1
      /\ \A i \in 1..Len(chain) : chain'[i] = chain[i]
      /\ chain'[Len(chain) + 1] = [op |-> "write", of |-> new]
      /\ Bytes' = Bytes \cup {Len(chain) + 1}
      /\ Snaps' = Snaps
  BY <1>1, MoreBytes
<1>5. /\ \A i \in Bytes : i \in Nat /\ i <= Len(chain) /\ chain'[i] = chain[i] /\ chain[i].of \in Nat
      /\ \A i \in Snaps : i \in Nat /\ i <= Len(chain) /\ chain'[i] = chain[i] /\ chain[i].of \in Client
  BY <1>4, Carried, Sorts
<1>6. /\ chain'[Len(chain) + 1].op = "write" /\ chain'[Len(chain) + 1].of = new
      /\ Len(chain) + 1 \in Nat
  BY <1>4
<1>9. InOrder'
  <2>1. InOrder
    BY DEF Shape
  <2>2. \A i \in Bytes' : chain'[i].of <= seq' /\ written' < chain'[i].of
    <3>1. \A i \in Bytes : chain[i].of <= seq /\ written < chain[i].of
      BY <2>1 DEF InOrder
    <3>2. seq' = seq + 1 /\ written' = written /\ written <= seq
      BY <1>1, <1>2, <1>7, <2>1 DEF InOrder
    <3>3. QED
      BY <3>1, <3>2, <1>4, <1>5, <1>6, <1>7, Sorts
  <2>3. \A i, j \in Bytes' : i < j => chain'[i].of < chain'[j].of
    BY <2>1, <1>4, <1>5, <1>6, <1>7, Sorts DEF InOrder
  <2>4. \A i \in 2..Len(chain') : chain'[i].op # "mark"
    BY <2>1, <1>4, <1>6 DEF InOrder
  <2>5. written' <= seq'
    BY <2>1, <1>1, <1>2, <1>7, Sorts DEF InOrder
  <2>6. QED
    BY <2>2, <2>3, <2>4, <2>5 DEF InOrder
<1>10. Settled'
  <2>1. Settled
    BY DEF Shape
  <2>2. ASSUME NEW n \in Chunk
        PROVE  (n \in screen \/ n \in failed)
                 <=> (n <= seq' /\ \A i \in Bytes' : chain'[i].op = "write" => chain'[i].of # n)
    <3>1. (n \in screen \/ n \in failed)
                 <=> (n <= seq /\ \A i \in Bytes : chain[i].op = "write" => chain[i].of # n)
      BY <2>1 DEF Settled
    <3>2. (\A i \in Bytes' : chain'[i].op = "write" => chain'[i].of # n)
            <=> (n # new /\ \A i \in Bytes : chain[i].op = "write" => chain[i].of # n)
      BY <1>4, <1>5, <1>6
    <3>3. n <= seq <=> (n <= seq' /\ n # new)
      BY <1>1, <1>7, Sorts
    <3>4. QED
      BY <3>1, <3>2, <3>3
  <2>3. QED
    BY <2>1, <2>2, <1>2 DEF Settled, Chunk
<1>11. Separated'
  <2>1. Separated /\ OnTheWay
    BY DEF Shape
  <2>2. ASSUME NEW i \in Snaps'
        PROVE  /\ written' <= attachedAt'[chain'[i].of]
               /\ \A j \in Bytes' : j < i => chain'[j].of <= attachedAt'[chain'[i].of]
               /\ \A j \in Bytes' : j > i => chain'[j].of > attachedAt'[chain'[i].of]
               /\ \A n \in Chunk : attachedAt'[chain'[i].of] < n /\ n <= seq' =>
                     \E j \in Bytes' : j > i /\ chain'[j].of = n
    <3>1. i \in Snaps /\ chain'[i] = chain[i] /\ attachedAt' = attachedAt /\ written' = written
      BY <1>2, <1>4, <1>5
    <3> DEFINE at == attachedAt[chain[i].of]
    <3>2. at \in Nat /\ at <= seq /\ i <= Len(chain) /\ i \in Nat
      BY <2>1, <3>1, <1>5, Sorts DEF OnTheWay
    <3>3. /\ written <= at
          /\ \A j \in Bytes : j < i => chain[j].of <= at
          /\ \A j \in Bytes : j > i => chain[j].of > at
          /\ \A n \in Chunk : at < n /\ n <= seq => \E j \in Bytes : j > i /\ chain[j].of = n
      BY <2>1, <3>1 DEF Separated
    <3> HIDE DEF at
    <3>4. \A j \in Bytes' : /\ j < i => chain'[j].of <= at
                            /\ j > i => chain'[j].of > at
      BY <3>2, <3>3, <1>4, <1>5, <1>6, <1>7, Sorts
    <3>5. ASSUME NEW n \in Chunk, at < n, n <= seq'
          PROVE  \E j \in Bytes' : j > i /\ chain'[j].of = n
      <4>1. CASE n = new
        BY <4>1, <3>2, <1>4, <1>6
      <4>2. CASE n # new
        <5>1. n <= seq
          BY <4>2, <3>5, <1>1, <1>7, Sorts
        <5>2. PICK j \in Bytes : j > i /\ chain[j].of = n
          BY <5>1, <3>3, <3>5
        <5>3. QED
          BY <5>2, <1>4, <1>5
      <4>3. QED
        BY <4>1, <4>2
    <3>6. QED
      BY <3>1, <3>3, <3>4, <3>5 DEF at
  <2>3. QED
    BY <2>1, <2>2, <1>2, <1>4, <1>5 DEF Separated, Chunk
<1>12. OnTheWay'
  <2> SUFFICES ASSUME NEW c \in Client
               PROVE  /\ attachedAt'[c] <= seq'
                      /\ (c \in Attaching)' => Keeps(c)'
                      /\ phase'[c] = "captured" => Captured(c)'
                      /\ phase'[c] # "done" => view'[c] = Nothing' /\ c \notin clients'
                      /\ phase'[c] \in {"new", "done"} => held'[c] = {}
    BY DEF OnTheWay
  <2>0. OnTheWay /\ UnframedSeen
    BY DEF Shape
  <2>1. attachedAt[c] \in Nat /\ attachedAt[c] <= seq /\ attachedAt'[c] <= seq'
    BY <2>0, <1>1, <1>2, <1>7, Sorts DEF OnTheWay
  <2>2. (c \in Attaching)' => Keeps(c)'
    <3> SUFFICES ASSUME (c \in Attaching)' PROVE Keeps(c)'
      OBVIOUS
    <3>0. c \in Attaching /\ Keeps(c)
      BY <2>0, <1>2 DEF Attaching, OnTheWay
    <3>1. CASE Feed
      <4>1. held'[c] = held[c] \cup {new} /\ unframed' = unframed
        BY <3>0, <3>1, <1>7 DEF Feed, Kept
      <4>2. new \notin unframed
        BY <2>0, <1>7, Sorts DEF UnframedSeen
      <4>3. QED
        BY <4>1, <4>2, <3>0, <2>1, <1>1, <1>2, <1>7, Sorts DEF Keeps
    <3>2. CASE FeedUnframed
      <4>1. held'[c] = held[c] /\ unframed' = unframed \cup {new}
        BY <3>2, <1>7 DEF FeedUnframed, attachVars
      <4>2. QED
        BY <4>1, <3>0, <2>1, <1>1, <1>2, <1>7, Sorts DEF Keeps
    <3>3. QED
      BY <3>1, <3>2
  <2>3. phase'[c] = "captured" => Captured(c)'
    <3> SUFFICES ASSUME phase'[c] = "captured" PROVE Captured(c)'
      OBVIOUS
    <3>1. Captured(c)
      BY <2>0, <1>2 DEF OnTheWay
    <3>2. \A i \in Bytes' : chain'[i].of > attachedAt[c]
      BY <3>1, <2>1, <1>4, <1>5, <1>6, <1>7, Sorts DEF Captured
    <3>3. QED
      BY <3>1, <3>2, <1>2 DEF Captured, Past, Chunk
  <2>4. phase'[c] # "done" => view'[c] = Nothing' /\ c \notin clients'
    BY <2>0, <1>2 DEF OnTheWay, Feed, FeedUnframed, Nothing, Promise!Nothing
  <2>5. phase'[c] \in {"new", "done"} => held'[c] = {}
    BY <2>0, <1>2 DEF OnTheWay, Feed, FeedUnframed, Kept, Attaching, attachVars
  <2>6. QED
    BY <2>1, <2>2, <2>3, <2>4, <2>5
<1>13. Live'
  <2> SUFFICES ASSUME NEW c \in clients PROVE Follows(c)'
    BY <1>2 DEF Live
  <2>1. c \in Client /\ Follows(c) /\ attachedAt[c] \in Nat /\ attachedAt[c] <= seq /\ UnframedSeen
    BY Sorts DEF Shape, Live, OnTheWay, TypeOK
  <2>2. \A i \in Bytes' : chain'[i].of > attachedAt[c]
    BY <1>4, <1>5, <1>6, <1>7, <2>1, Sorts DEF Follows
  <2>3. CASE Feed
    <3>1. view'[c] = Show(view[c], {new}) /\ unframed' = unframed
      BY <2>1, <2>3, <1>7 DEF Feed
    <3>2. view[c] \in [shown : SUBSET Chunk, clean : BOOLEAN]
      BY <2>1 DEF TypeOK
    <3>3. \A k \in view[c].shown : k < new
      BY <2>1, <1>7, Sorts DEF Follows, Past
    <3>4. {new} \in SUBSET Chunk
      BY <1>1
    <3>5. view'[c].shown = view[c].shown \cup {new} /\ view'[c].clean
      BY <3>1, <3>2, <3>3, <3>4, <2>1, ShowType DEF Follows
    <3>6. new \notin unframed
      BY <2>1, <1>7, Sorts DEF UnframedSeen
    <3>7. \A n \in Chunk : (attachedAt[c] < n /\ n <= seq' /\ n \notin unframed')
                             <=> (n = new \/ (attachedAt[c] < n /\ n <= seq /\ n \notin unframed))
      BY <1>1, <1>7, <2>1, <3>1, <3>6, Sorts
    <3>8. QED
      BY <1>1, <1>2, <2>1, <2>2, <3>5, <3>7 DEF Follows, Past, Chunk
  <2>4. CASE FeedUnframed
    <3>1. view' = view /\ unframed' = unframed \cup {new}
      BY <2>4, <1>7 DEF FeedUnframed
    <3>2. \A n \in Chunk : (attachedAt[c] < n /\ n <= seq' /\ n \notin unframed')
                             <=> (attachedAt[c] < n /\ n <= seq /\ n \notin unframed)
      BY <1>1, <1>7, <2>1, <3>1, Sorts
    <3>3. QED
      BY <1>2, <2>1, <2>2, <3>1, <3>2 DEF Follows, Past, Chunk
  <2>5. QED
    BY <2>3, <2>4
<1>14. UnframedSeen'
  <2>1. \A n \in unframed : n \in Nat /\ n <= seq
    BY Sorts DEF Shape, UnframedSeen
  <2>2. \A n \in unframed' : n <= seq'
    BY <2>1, <1>1, <1>3, <1>7, Sorts
  <2>3. QED
    BY <2>2 DEF UnframedSeen
<1>15. QED
  BY <1>9, <1>10, <1>11, <1>12, <1>13, <1>14 DEF Shape

(* Taking the head off a chain whose head is no snapshot link of a waiting *)
(* attach keeps every other snapshot link between the same chunks.         *)
LEMMA LessKeepsSeparated ==
  ASSUME TypeOK, Separated, InOrder, chain # <<>>, chain' = Tail(chain),
         chain[1].op # "snap",
         UNCHANGED <<seq, phase, attachedAt>>,
         \A i \in Snaps : written' <= attachedAt[chain[i].of]
  PROVE  Separated'
<1>1. /\ \A i : i \in Bytes' => i \in Nat /\ i >= 1 /\ i + 1 \in Bytes /\ chain'[i] = chain[i + 1]
      /\ \A i : i \in Snaps' => i \in Nat /\ i >= 1 /\ i + 1 \in Snaps /\ chain'[i] = chain[i + 1]
      /\ \A i \in Bytes : i > 1 => i - 1 \in Bytes' /\ chain'[i - 1] = chain[i]
  BY LessWork
<1>2. /\ \A i \in Bytes : i \in Nat /\ 1 <= i
      /\ \A i \in Snaps : i \in Nat /\ 1 < i
  BY Carried DEF Snaps
<1>3. ASSUME NEW i \in Snaps' PROVE phase'[chain'[i].of] = "waiting"
  <2>1. i + 1 \in Snaps /\ chain'[i] = chain[i + 1] /\ phase' = phase
    BY <1>1
  <2>2. phase[chain[i + 1].of] = "waiting"
    BY <2>1 DEF Separated
  <2>3. QED
    BY <2>1, <2>2
<1>4. \A i, j \in Snaps' : chain'[i].of = chain'[j].of => i = j
  <2> SUFFICES ASSUME NEW i \in Snaps', NEW j \in Snaps', chain'[i].of = chain'[j].of
               PROVE  i = j
    OBVIOUS
  <2>1. i + 1 \in Snaps /\ j + 1 \in Snaps /\ chain[i + 1].of = chain[j + 1].of
    BY <1>1
  <2>2. i + 1 = j + 1
    BY <2>1 DEF Separated
  <2>3. QED
    BY <2>2, <1>1
<1>5. ASSUME NEW i \in Snaps'
      PROVE  /\ written' <= attachedAt'[chain'[i].of]
             /\ \A j \in Bytes' : j < i => chain'[j].of <= attachedAt'[chain'[i].of]
             /\ \A j \in Bytes' : j > i => chain'[j].of > attachedAt'[chain'[i].of]
             /\ \A n \in Chunk : attachedAt'[chain'[i].of] < n /\ n <= seq' =>
                   \E j \in Bytes' : j > i /\ chain'[j].of = n
  <2>1. i + 1 \in Snaps /\ chain'[i] = chain[i + 1] /\ attachedAt' = attachedAt /\ seq' = seq
        /\ i \in Nat /\ i >= 1
    BY <1>1
  <2> DEFINE at == attachedAt[chain[i + 1].of]
  <2>2. /\ written' <= at
        /\ \A j \in Bytes : j < i + 1 => chain[j].of <= at
        /\ \A j \in Bytes : j > i + 1 => chain[j].of > at
        /\ \A n \in Chunk : at < n /\ n <= seq => \E j \in Bytes : j > i + 1 /\ chain[j].of = n
    BY <2>1 DEF Separated
  <2> HIDE DEF at
  <2>3. ASSUME NEW j \in Bytes'
        PROVE  /\ j < i => chain'[j].of <= at
               /\ j > i => chain'[j].of > at
    <3>1. j + 1 \in Bytes /\ chain'[j] = chain[j + 1] /\ j \in Nat
      BY <1>1
    <3>2. (j < i => j + 1 < i + 1) /\ (j > i => j + 1 > i + 1)
      BY <2>1, <3>1
    <3>3. QED
      BY <2>2, <3>1, <3>2
  <2>4. ASSUME NEW n \in Chunk, at < n, n <= seq'
        PROVE  \E j \in Bytes' : j > i /\ chain'[j].of = n
    <3>1. PICK j \in Bytes : j > i + 1 /\ chain[j].of = n
      BY <2>1, <2>2, <2>4
    <3>2. j \in Nat /\ j > 1 /\ j - 1 > i
      BY <1>2, <2>1, <3>1
    <3>3. j - 1 \in Bytes' /\ chain'[j - 1] = chain[j]
      BY <1>1, <3>2
    <3>4. QED
      BY <3>1, <3>2, <3>3
  <2>5. QED
    BY <2>1, <2>2, <2>3, <2>4 DEF at
<1>6. QED
  BY <1>3, <1>4, <1>5 DEF Separated, Chunk

(* The write of the head chunk is done, or was rejected.                   *)
LEMMA WriteKeepsShape ==
  ASSUME TypeOK, Shape, WriteSettles
  PROVE  Shape'
<1> DEFINE n == Head(chain).of
<1>1. /\ chain # <<>> /\ Len(chain) \in Nat /\ Len(chain) >= 1
      /\ chain[1].op = "write" /\ chain[1].of = n
      /\ 1 \in Bytes /\ n \in Chunk
  BY HeadDone, JobType DEF WriteSettles, Running, TypeOK, Bytes
<1>2. /\ UNCHANGED <<seq, written, clients, held, phase, snapSeq, frame, attachedAt, view, unframed>>
  BY DEF WriteSettles, attachVars
<1>3. /\ \A i \in Bytes : i \in Nat /\ 1 <= i /\ i <= Len(chain) /\ chain[i].of \in Nat
      /\ \A i \in Snaps : i \in Nat /\ 1 < i /\ i <= Len(chain) /\ chain[i].of \in Client
  BY <1>1, Carried, Sorts DEF Snaps
<1>4. InOrder /\ Settled /\ Separated /\ OnTheWay /\ Live /\ UnframedSeen
  BY DEF Shape
<1>5. n <= seq /\ written < n /\ n \in Nat
  BY <1>1, <1>4, Sorts DEF InOrder
<1>6. \A i \in Bytes : i # 1 => n < chain[i].of
  BY <1>1, <1>3, <1>4 DEF InOrder
<1>7. \A c \in Client : phase[c] = "captured" \/ c \in clients => n > attachedAt[c]
  BY <1>1, <1>4 DEF OnTheWay, Captured, Live, Follows
<1>8. n \notin screen /\ n \notin failed
  BY <1>1, <1>4 DEF Settled
<1>9. CASE screen' = screen \cup {n} /\ failed' = failed
           /\ chain' = [chain EXCEPT ![1] = [op |-> "mark", of |-> n]]
  <2> DEFINE j == [op |-> "mark", of |-> n]
  <2>1. j \in Job /\ j.op = "mark" /\ j.of = n
    BY <1>1, JobsMade
  <2> HIDE DEF j
  <2>2. /\ Len(chain') = Len(chain)
        /\ chain'[1] = j
        /\ \A i \in 2..Len(chain) : chain'[i] = chain[i]
    <3>1. chain' = [chain EXCEPT ![1] = j]
      BY <1>9 DEF j
    <3>2. QED
      BY <3>1, <1>1, <2>1, HeadChanged DEF TypeOK
  <2> HIDE DEF n
  <2>3. Bytes' = Bytes
    BY <1>1, <2>1, <2>2 DEF Bytes
  <2>4. Snaps' = Snaps
    BY <1>1, <2>1, <2>2 DEF Snaps
  <2>5. /\ \A i \in Bytes : chain'[i].of = chain[i].of
        /\ \A i \in Bytes : i # 1 => chain'[i] = chain[i]
        /\ \A i \in Snaps : chain'[i] = chain[i]
    BY <1>1, <1>3, <2>1, <2>2
  <2>6. InOrder'
    BY <1>2, <1>4, <2>2, <2>3, <2>5 DEF InOrder
  <2>7. Settled'
    <3>1. ASSUME NEW m \in Chunk
          PROVE  (m \in screen' \/ m \in failed')
                   <=> (m <= seq /\ \A i \in Bytes' : chain'[i].op = "write" => chain'[i].of # m)
      <4>1. (m \in screen \/ m \in failed)
                   <=> (m <= seq /\ \A i \in Bytes : chain[i].op = "write" => chain[i].of # m)
        BY <1>4 DEF Settled
      <4>2. CASE m = n
        <5>1. \A i \in Bytes' : chain'[i].op = "write" => chain'[i].of # m
          BY <4>2, <1>5, <1>6, <2>1, <2>2, <2>3, <2>5, <1>3
        <5>2. QED
          BY <5>1, <4>2, <1>5, <1>9
      <4>3. CASE m # n
        <5>1. (\A i \in Bytes' : chain'[i].op = "write" => chain'[i].of # m)
                <=> (\A i \in Bytes : chain[i].op = "write" => chain[i].of # m)
          BY <4>3, <1>1, <2>1, <2>2, <2>3, <2>5
        <5>2. QED
          BY <5>1, <4>1, <4>3, <1>9
      <4>4. QED
        BY <4>2, <4>3
    <3>2. (screen \cap failed)' = {}
      BY <1>4, <1>8, <1>9 DEF Settled
    <3>3. QED
      BY <3>1, <3>2, <1>2 DEF Settled, Chunk
  <2>8. Separated'
    BY <1>2, <1>4, <2>3, <2>4, <2>5 DEF Separated, Chunk
  <2>9. OnTheWay'
    BY <1>2, <1>4, <1>9, <2>3, <2>5 DEF OnTheWay, Attaching, Keeps, Captured, Past, Nothing, Promise!Nothing, Chunk
  <2>10. Live'
    BY <1>2, <1>4, <1>9, <2>3, <2>5 DEF Live, Follows, Past, Chunk
  <2>11. QED
    BY <1>2, <1>4, <2>6, <2>7, <2>8, <2>9, <2>10 DEF Shape, UnframedSeen
<1>10. CASE screen' = screen /\ failed' = failed \cup {n} /\ chain' = Tail(chain)
  <2> HIDE DEF n
  <2>1. /\ Len(chain') = Len(chain) - 1
        /\ \A i \in 1..Len(chain') : chain'[i] = chain[i + 1]
        /\ \A i : i \in Bytes' => i \in Nat /\ i >= 1 /\ i + 1 \in Bytes /\ chain'[i] = chain[i + 1]
        /\ \A i : i \in Snaps' => i \in Nat /\ i >= 1 /\ i + 1 \in Snaps /\ chain'[i] = chain[i + 1]
        /\ \A i \in Bytes : i > 1 => i - 1 \in Bytes' /\ chain'[i - 1] = chain[i]
    BY <1>1, <1>10, LessWork
  <2>2. InOrder'
    <3>1. \A i \in Bytes' : chain'[i].of <= seq /\ written < chain'[i].of
      BY <1>4, <2>1 DEF InOrder
    <3>2. \A i, k \in Bytes' : i < k => chain'[i].of < chain'[k].of
      <4> SUFFICES ASSUME NEW i \in Bytes', NEW k \in Bytes', i < k
                   PROVE  chain'[i].of < chain'[k].of
        OBVIOUS
      <4>1. i + 1 \in Bytes /\ k + 1 \in Bytes /\ i + 1 < k + 1
        BY <2>1
      <4>2. QED
        BY <4>1, <1>4, <2>1 DEF InOrder
    <3>3. ASSUME NEW i \in 2..Len(chain') PROVE chain'[i].op # "mark"
      <4>1. i + 1 \in 2..Len(chain) /\ chain'[i] = chain[i + 1]
        BY <1>1, <2>1
      <4>2. QED
        BY <4>1, <1>4 DEF InOrder
    <3>4. QED
      BY <1>2, <1>4, <3>1, <3>2, <3>3 DEF InOrder
  <2>3. Settled'
    <3>1. ASSUME NEW m \in Chunk
          PROVE  (m \in screen' \/ m \in failed')
                   <=> (m <= seq /\ \A i \in Bytes' : chain'[i].op = "write" => chain'[i].of # m)
      <4>1. (m \in screen \/ m \in failed)
                   <=> (m <= seq /\ \A i \in Bytes : chain[i].op = "write" => chain[i].of # m)
        BY <1>4 DEF Settled
      <4>2. CASE m = n
        <5>1. \A i \in Bytes' : chain'[i].of # m
          BY <4>2, <1>3, <1>5, <1>6, <2>1
        <5>2. QED
          BY <5>1, <4>2, <1>5, <1>10
      <4>3. CASE m # n
        <5>1. (\A i \in Bytes' : chain'[i].op = "write" => chain'[i].of # m)
                <=> (\A i \in Bytes : chain[i].op = "write" => chain[i].of # m)
          BY <4>3, <1>1, <1>3, <2>1
        <5>2. QED
          BY <5>1, <4>1, <4>3, <1>10
      <4>4. QED
        BY <4>2, <4>3
    <3>2. (screen \cap failed)' = {}
      BY <1>4, <1>8, <1>10 DEF Settled
    <3>3. QED
      BY <3>1, <3>2, <1>2 DEF Settled, Chunk
  <2>4. Separated'
    <3>1. \A i \in Snaps : written' <= attachedAt[chain[i].of]
      BY <1>2, <1>4 DEF Separated
    <3>2. chain[1].op # "snap" /\ UNCHANGED <<seq, phase, attachedAt>>
      BY <1>1, <1>2
    <3>3. QED
      BY <3>1, <3>2, <1>1, <1>4, <1>10, LessKeepsSeparated
  <2>5. OnTheWay'
    <3>1. \A c \in Client : phase[c] = "captured" => Past(c)' = Past(c)
      BY <1>2, <1>5, <1>7, <1>10, Sorts DEF Past, Chunk
    <3>2. \A c \in Client : phase[c] = "captured" => Captured(c)'
      BY <1>2, <1>4, <2>1, <3>1 DEF OnTheWay, Captured
    <3>3. QED
      BY <1>2, <1>4, <3>2 DEF OnTheWay, Attaching, Keeps, Nothing, Promise!Nothing, Chunk
  <2>6. Live'
    <3> SUFFICES ASSUME NEW c \in clients PROVE Follows(c)'
      BY <1>2 DEF Live
    <3>1. c \in Client
      BY DEF TypeOK
    <3>2. Past(c)' = Past(c)
      BY <3>1, <1>2, <1>5, <1>7, <1>10, Sorts DEF Past, Chunk
    <3>3. QED
      BY <1>2, <1>4, <2>1, <3>2 DEF Live, Follows, Chunk
  <2>7. QED
    BY <1>2, <1>4, <2>2, <2>3, <2>4, <2>5, <2>6 DEF Shape, UnframedSeen
<1>11. QED
  BY <1>9, <1>10 DEF WriteSettles

(* A link that changes neither screen nor attach: `written` catches up, or *)
(* a queued job ran.                                                       *)
LEMMA DoneKeepsShape ==
  ASSUME TypeOK, Shape, NoteWritten \/ RunQueued
  PROVE  Shape'
<1>1. /\ chain # <<>> /\ Len(chain) \in Nat /\ Len(chain) >= 1
      /\ chain[1].op \in {"mark", "run"} /\ Head(chain) = chain[1]
      /\ chain' = Tail(chain)
  BY HeadDone DEF NoteWritten, RunQueued, Running, TypeOK
<1>2. UNCHANGED <<seq, screen, failed, clients, held, phase, snapSeq, frame, attachedAt, view, unframed>>
  BY DEF NoteWritten, RunQueued, attachVars
<1>3. /\ \A i \in Bytes : i \in Nat /\ 1 <= i /\ i <= Len(chain) /\ chain[i].of \in Nat
      /\ \A i \in Snaps : i \in Nat /\ 1 < i /\ i <= Len(chain) /\ chain[i].of \in Client
  BY <1>1, Carried, Sorts DEF Snaps
<1>4. InOrder /\ Settled /\ Separated /\ OnTheWay /\ Live /\ UnframedSeen
  BY DEF Shape
<1>5. /\ \A i : i \in Bytes' => i \in Nat /\ i >= 1 /\ i + 1 \in Bytes /\ chain'[i] = chain[i + 1]
      /\ \A i \in Bytes : i > 1 => i - 1 \in Bytes' /\ chain'[i - 1] = chain[i]
      /\ Len(chain') = Len(chain) - 1
      /\ \A i \in 1..Len(chain') : chain'[i] = chain[i + 1]
  BY <1>1, LessWork
<1>6. \/ written' = written
      \/ 1 \in Bytes /\ chain[1].op = "mark" /\ written' = chain[1].of
  BY <1>1 DEF NoteWritten, RunQueued, Running, Bytes, NotedNumber
<1>7. InOrder'
  <2>1. \A i \in Bytes' : chain'[i].of <= seq /\ written' < chain'[i].of
    <3> SUFFICES ASSUME NEW i \in Bytes' PROVE chain'[i].of <= seq /\ written' < chain'[i].of
      OBVIOUS
    <3>1. i + 1 \in Bytes /\ chain'[i] = chain[i + 1] /\ i + 1 > 1
      BY <1>5
    <3>2. QED
      BY <3>1, <1>4, <1>6 DEF InOrder
  <2>2. \A i, k \in Bytes' : i < k => chain'[i].of < chain'[k].of
    <3> SUFFICES ASSUME NEW i \in Bytes', NEW k \in Bytes', i < k
                 PROVE  chain'[i].of < chain'[k].of
      OBVIOUS
    <3>1. i + 1 \in Bytes /\ k + 1 \in Bytes /\ i + 1 < k + 1
      BY <1>5
    <3>2. QED
      BY <3>1, <1>4, <1>5 DEF InOrder
  <2>3. ASSUME NEW i \in 2..Len(chain') PROVE chain'[i].op # "mark"
    <3>1. i + 1 \in 2..Len(chain) /\ chain'[i] = chain[i + 1]
      BY <1>1, <1>5
    <3>2. QED
      BY <3>1, <1>4 DEF InOrder
  <2>4. written' <= seq'
    BY <1>2, <1>4, <1>6 DEF InOrder
  <2>5. QED
    BY <1>2, <2>1, <2>2, <2>3, <2>4 DEF InOrder
<1>8. Settled'
  <2>1. ASSUME NEW m \in Chunk
        PROVE  (\A i \in Bytes' : chain'[i].op = "write" => chain'[i].of # m)
                 <=> (\A i \in Bytes : chain[i].op = "write" => chain[i].of # m)
    BY <1>1, <1>3, <1>5
  <2>2. QED
    BY <1>2, <1>4, <2>1 DEF Settled, Chunk
<1>9. Separated'
  <2>1. \A i \in Snaps : written' <= attachedAt[chain[i].of]
    BY <1>3, <1>4, <1>6 DEF Separated
  <2>2. chain[1].op # "snap" /\ UNCHANGED <<seq, phase, attachedAt>>
    BY <1>1, <1>2
  <2>3. QED
    BY <2>1, <2>2, <1>1, <1>4, LessKeepsSeparated
<1>10. OnTheWay'
  <2>1. \A c \in Client : phase[c] = "captured" => Captured(c)'
    BY <1>2, <1>4, <1>5 DEF OnTheWay, Captured, Past, Chunk
  <2>2. QED
    BY <1>2, <1>4, <2>1 DEF OnTheWay, Attaching, Keeps, Nothing, Promise!Nothing, Chunk
<1>11. Live'
  BY <1>2, <1>4, <1>5 DEF Live, Follows, Past, Chunk
<1>12. QED
  BY <1>2, <1>4, <1>7, <1>8, <1>9, <1>10, <1>11 DEF Shape, UnframedSeen

(* The snapshot link of c: exactly the chunks before c's attach have been  *)
(* written or rejected, and none after it.                                 *)
LEMMA SnapshotKeepsShape ==
  ASSUME TypeOK, Shape, TakeSnapshot
  PROVE  Shape'
<1> DEFINE c == Head(chain).of
<1>1. /\ chain # <<>> /\ Len(chain) \in Nat /\ Len(chain) >= 1
      /\ chain[1].op = "snap" /\ chain[1].of = c
      /\ 1 \in Snaps /\ c \in Client
      /\ chain' = Tail(chain)
  BY HeadDone, JobType DEF TakeSnapshot, Running, TypeOK, Snaps
<1>2. /\ UNCHANGED <<seq, written, screen, failed, clients, held, attachedAt, view, unframed>>
      /\ snapSeq' = [snapSeq EXCEPT ![c] = written]
      /\ \/ frame' = [frame EXCEPT ![c] = screen] /\ phase' = [phase EXCEPT ![c] = "captured"]
         \/ frame' = frame /\ phase' = [phase EXCEPT ![c] = "broken"]
  BY DEF TakeSnapshot
<1> HIDE DEF c
<1>3. /\ \A i \in Bytes : i \in Nat /\ 1 < i /\ i <= Len(chain) /\ chain[i].of \in Nat
      /\ \A i \in Snaps : i \in Nat /\ 1 <= i /\ i <= Len(chain) /\ chain[i].of \in Client
  BY <1>1, Carried, Sorts DEF Bytes
<1>4. InOrder /\ Settled /\ Separated /\ OnTheWay /\ Live /\ UnframedSeen
  BY DEF Shape
<1>5. /\ \A i : i \in Bytes' => i \in Nat /\ i >= 1 /\ i + 1 \in Bytes /\ chain'[i] = chain[i + 1]
      /\ \A i : i \in Snaps' => i \in Nat /\ i >= 1 /\ i + 1 \in Snaps /\ chain'[i] = chain[i + 1]
      /\ \A i \in Bytes : i > 1 => i - 1 \in Bytes' /\ chain'[i - 1] = chain[i]
      /\ Len(chain') = Len(chain) - 1
      /\ \A i \in 1..Len(chain') : chain'[i] = chain[i + 1]
  BY <1>1, LessWork
<1>6. phase[c] = "waiting" /\ \A i \in Snaps : i # 1 => chain[i].of # c
  BY <1>1, <1>4 DEF Separated
<1>7. /\ written <= attachedAt[c]
      /\ \A j \in Bytes : chain[j].of > attachedAt[c]
      /\ \A n \in Chunk : attachedAt[c] < n /\ n <= seq => \E j \in Bytes : j > 1 /\ chain[j].of = n
  BY <1>1, <1>3, <1>4 DEF Separated
<1>8. attachedAt[c] \in Nat /\ attachedAt[c] <= seq /\ c \notin clients
  BY <1>1, <1>4, <1>6, Sorts DEF OnTheWay
<1>9. \A i \in Bytes : chain[i].op = "write"
  BY <1>3, <1>4 DEF InOrder, Bytes
<1>10. screen = Past(c)
  <2>1. ASSUME NEW n \in Chunk
        PROVE  n \in screen <=> (n <= attachedAt[c] /\ n \notin failed)
    <3>1. CASE n <= attachedAt[c]
      <4>1. n <= seq /\ \A i \in Bytes : chain[i].of # n
        BY <3>1, <1>3, <1>7, <1>8, Sorts
      <4>2. n \in screen \/ n \in failed
        BY <4>1, <1>4 DEF Settled
      <4>3. QED
        BY <3>1, <4>2, <1>4 DEF Settled
    <3>2. CASE ~(n <= attachedAt[c])
      <4>1. CASE n <= seq
        <5>1. PICK j \in Bytes : chain[j].of = n
          BY <3>2, <4>1, <1>7, <1>8, Sorts
        <5>2. n \notin screen
          BY <5>1, <1>4, <1>9 DEF Settled
        <5>3. QED
          BY <3>2, <5>2
      <4>2. CASE ~(n <= seq)
        BY <3>2, <4>2, <1>4 DEF Settled
      <4>3. QED
        BY <4>1, <4>2
    <3>3. QED
      BY <3>1, <3>2
  <2>2. QED
    BY <2>1, Sorts DEF Past
<1>11. InOrder'
  <2>1. \A i, k \in Bytes' : i < k => chain'[i].of < chain'[k].of
    <3> SUFFICES ASSUME NEW i \in Bytes', NEW k \in Bytes', i < k
                 PROVE  chain'[i].of < chain'[k].of
      OBVIOUS
    <3>1. i + 1 \in Bytes /\ k + 1 \in Bytes /\ i + 1 < k + 1
      BY <1>5
    <3>2. QED
      BY <3>1, <1>4, <1>5 DEF InOrder
  <2>2. ASSUME NEW i \in 2..Len(chain') PROVE chain'[i].op # "mark"
    <3>1. i + 1 \in 2..Len(chain) /\ chain'[i] = chain[i + 1]
      BY <1>1, <1>5
    <3>2. QED
      BY <3>1, <1>4 DEF InOrder
  <2>3. \A i \in Bytes' : chain'[i].of <= seq /\ written < chain'[i].of
    BY <1>4, <1>5 DEF InOrder
  <2>4. QED
    BY <1>2, <1>4, <2>1, <2>2, <2>3 DEF InOrder
<1>12. Settled'
  <2>1. ASSUME NEW m \in Chunk
        PROVE  (\A i \in Bytes' : chain'[i].op = "write" => chain'[i].of # m)
                 <=> (\A i \in Bytes : chain[i].op = "write" => chain[i].of # m)
    BY <1>3, <1>5
  <2>2. QED
    BY <1>2, <1>4, <2>1 DEF Settled, Chunk
<1>13. Separated'
  <2>1. ASSUME NEW i \in Snaps'
        PROVE  /\ phase'[chain'[i].of] = "waiting"
               /\ written' <= attachedAt'[chain'[i].of]
               /\ \A j \in Bytes' : j < i => chain'[j].of <= attachedAt'[chain'[i].of]
               /\ \A j \in Bytes' : j > i => chain'[j].of > attachedAt'[chain'[i].of]
               /\ \A n \in Chunk : attachedAt'[chain'[i].of] < n /\ n <= seq' =>
                     \E j \in Bytes' : j > i /\ chain'[j].of = n
    <3>1. i + 1 \in Snaps /\ chain'[i] = chain[i + 1] /\ i \in Nat /\ i >= 1 /\ i + 1 # 1
      BY <1>5
    <3>2. chain[i + 1].of # c /\ chain[i + 1].of \in Client /\ phase[chain[i + 1].of] = "waiting"
      BY <3>1, <1>3, <1>4, <1>6 DEF Separated
    <3>3. phase'[chain'[i].of] = "waiting"
      BY <3>1, <3>2, <1>2 DEF TypeOK
    <3> DEFINE at == attachedAt[chain[i + 1].of]
    <3>4. /\ written' <= at
          /\ \A j \in Bytes : j < i + 1 => chain[j].of <= at
          /\ \A j \in Bytes : j > i + 1 => chain[j].of > at
          /\ \A n \in Chunk : at < n /\ n <= seq => \E j \in Bytes : j > i + 1 /\ chain[j].of = n
      BY <3>1, <1>2, <1>4 DEF Separated
    <3> HIDE DEF at
    <3>5. ASSUME NEW j \in Bytes'
          PROVE  /\ j < i => chain'[j].of <= at
                 /\ j > i => chain'[j].of > at
      <4>1. j + 1 \in Bytes /\ chain'[j] = chain[j + 1] /\ j \in Nat
        BY <1>5
      <4>2. (j < i => j + 1 < i + 1) /\ (j > i => j + 1 > i + 1)
        BY <3>1, <4>1
      <4>3. QED
        BY <3>4, <4>1, <4>2
    <3>6. ASSUME NEW n \in Chunk, at < n, n <= seq'
          PROVE  \E j \in Bytes' : j > i /\ chain'[j].of = n
      <4>1. PICK j \in Bytes : j > i + 1 /\ chain[j].of = n
        BY <3>4, <3>6, <1>2
      <4>2. j \in Nat /\ j > 1 /\ j - 1 > i
        BY <1>3, <3>1, <4>1
      <4>3. j - 1 \in Bytes' /\ chain'[j - 1] = chain[j]
        BY <1>5, <4>2
      <4>4. QED
        BY <4>1, <4>2, <4>3
    <3>7. QED
      BY <3>1, <3>3, <3>4, <3>5, <3>6, <1>2 DEF at
  <2>2. \A i, j \in Snaps' : chain'[i].of = chain'[j].of => i = j
    <3> SUFFICES ASSUME NEW i \in Snaps', NEW j \in Snaps', chain'[i].of = chain'[j].of
                 PROVE  i = j
      OBVIOUS
    <3>1. i + 1 \in Snaps /\ j + 1 \in Snaps /\ chain[i + 1].of = chain[j + 1].of
      BY <1>5
    <3>2. i + 1 = j + 1
      BY <3>1, <1>4 DEF Separated
    <3>3. QED
      BY <3>2, <1>5
  <2>3. QED
    BY <2>1, <2>2 DEF Separated, Chunk
<1>14. OnTheWay'
  <2> SUFFICES ASSUME NEW d \in Client
               PROVE  /\ attachedAt'[d] <= seq'
                      /\ (d \in Attaching)' => Keeps(d)'
                      /\ phase'[d] = "captured" => Captured(d)'
                      /\ phase'[d] # "done" => view'[d] = Nothing' /\ d \notin clients'
                      /\ phase'[d] \in {"new", "done"} => held'[d] = {}
    BY DEF OnTheWay
  <2>1. /\ attachedAt[d] <= seq
        /\ d \in Attaching => Keeps(d)
        /\ phase[d] = "captured" => Captured(d)
        /\ phase[d] # "done" => view[d] = Nothing /\ d \notin clients
        /\ phase[d] \in {"new", "done"} => held[d] = {}
    BY <1>4 DEF OnTheWay
  <2>2. CASE d # c
    <3>1. phase'[d] = phase[d] /\ frame'[d] = frame[d] /\ snapSeq'[d] = snapSeq[d]
      BY <2>2, <1>2 DEF TypeOK
    <3>2. phase[d] = "captured" => Captured(d)'
      BY <2>1, <3>1, <1>2, <1>5 DEF Captured, Past, Chunk
    <3>3. QED
      BY <2>1, <3>1, <3>2, <1>2 DEF Attaching, Keeps, Nothing, Promise!Nothing, Chunk
  <2>3. CASE d = c
    <3>1. phase'[d] \in {"captured", "broken"} /\ d \in Attaching /\ snapSeq'[d] = written
      BY <2>3, <1>1, <1>2, <1>6 DEF TypeOK, Attaching
    <3>2. phase'[d] = "captured" => frame'[d] = screen
      BY <2>3, <1>1, <1>2 DEF TypeOK
    <3>3. phase'[d] = "captured" => Captured(d)'
      <4>1. \A i \in Bytes' : chain'[i].of > attachedAt[d]
        BY <2>3, <1>5, <1>7
      <4>2. screen = Past(d) /\ written <= attachedAt[d]
        BY <2>3, <1>7, <1>10
      <4>3. Past(d)' = Past(d)
        BY <1>2 DEF Past, Chunk
      <4>4. QED
        BY <3>1, <3>2, <4>1, <4>2, <4>3, <1>2 DEF Captured
    <3>4. Keeps(d)'
      BY <2>1, <3>1, <1>2 DEF Keeps, Chunk
    <3>5. QED
      BY <2>1, <2>3, <3>1, <3>3, <3>4, <1>2, <1>6 DEF Nothing, Promise!Nothing
  <2>4. QED
    BY <2>2, <2>3
<1>15. Live'
  BY <1>2, <1>4, <1>5 DEF Live, Follows, Past, Chunk
<1>16. QED
  BY <1>2, <1>4, <1>11, <1>12, <1>13, <1>14, <1>15 DEF Shape, UnframedSeen

(* A link without bytes at the end of the chain leaves the bytes in order. *)
LEMMA MoreWorkInOrder ==
  ASSUME TypeOK, InOrder, NEW j \in Job, j.op \in {"run", "snap"}, chain' = chain \o <<j>>,
         UNCHANGED <<seq, written>>
  PROVE  InOrder'
<1>1. /\ Len(chain) \in Nat
      /\ Len(chain') = Len(chain) + 1
      /\ \A i \in 1..Len(chain) : chain'[i] = chain[i]
      /\ chain'[Len(chain) + 1] = j
      /\ Bytes' = Bytes
  BY MoreWork, Carried
<1>2. \A i \in Bytes : chain'[i] = chain[i]
  BY <1>1, Carried
<1>3. \A i \in 2..Len(chain') : chain'[i].op # "mark"
  <2> SUFFICES ASSUME NEW i \in 2..Len(chain') PROVE chain'[i].op # "mark"
    OBVIOUS
  <2>1. CASE i = Len(chain) + 1
    BY <2>1, <1>1
  <2>2. CASE i # Len(chain) + 1
    <3>1. i \in 2..Len(chain) /\ i \in 1..Len(chain)
      BY <2>2, <1>1
    <3>2. chain'[i] = chain[i]
      BY <3>1, <1>1
    <3>3. chain[i].op # "mark"
      BY <3>1 DEF InOrder
    <3>4. QED
      BY <3>2, <3>3
  <2>3. QED
    BY <2>1, <2>2
<1>4. /\ \A i \in Bytes' : chain'[i].of <= seq' /\ written' < chain'[i].of
      /\ written' <= seq'
  BY <1>1, <1>2 DEF InOrder
<1>5. \A i, k \in Bytes' : i < k => chain'[i].of < chain'[k].of
  BY <1>1, <1>2 DEF InOrder
<1>6. QED
  BY <1>3, <1>4, <1>5 DEF InOrder

(* The same for what the host may enqueue while it joins or drops a client. *)
LEMMA MoreJobs ==
  ASSUME TypeOK, InOrder, NEW jobs \in Jobs, chain' = chain \o jobs, UNCHANGED <<seq, written>>
  PROVE  /\ Bytes' = Bytes /\ Snaps' = Snaps
         /\ \A i \in Bytes \cup Snaps : chain'[i] = chain[i]
         /\ InOrder'
<1>1. CASE jobs = <<>>
  <2>1. chain' = chain
    BY <1>1, ConcatEmptySeq DEF TypeOK
  <2>2. QED
    BY <2>1 DEF Bytes, Snaps, InOrder
<1>2. ASSUME NEW w \in Work, jobs = <<[op |-> "run", of |-> w]>>
      PROVE  /\ Bytes' = Bytes /\ Snaps' = Snaps
             /\ \A i \in Bytes \cup Snaps : chain'[i] = chain[i]
             /\ InOrder'
  <2> DEFINE j == [op |-> "run", of |-> w]
  <2>1. j \in Job /\ j.op = "run" /\ chain' = chain \o <<j>>
    BY <1>2, JobsMade
  <2> HIDE DEF j
  <2>2. Bytes' = Bytes /\ Snaps' = Snaps /\ \A i \in Bytes \cup Snaps : chain'[i] = chain[i]
    BY <2>1, MoreWork, Carried
  <2>3. InOrder'
    BY <2>1, MoreWorkInOrder
  <2>4. QED
    BY <2>2, <2>3
<1>3. QED
  BY <1>1, <1>2 DEF Jobs

(* A job of the caller joins the end of the chain.                         *)
LEMMA EnqueueKeepsShape ==
  ASSUME TypeOK, Shape, NEW w \in Work, Enqueue(w)
  PROVE  Shape'
<1> DEFINE j == [op |-> "run", of |-> w]
<1>1. j \in Job /\ j.op = "run" /\ chain' = chain \o <<j>>
  BY JobsMade DEF Enqueue, Queued
<1>2. UNCHANGED <<seq, written, screen, failed, clients, held, phase, snapSeq, frame, attachedAt,
                  view, unframed>>
  BY DEF Enqueue, attachVars
<1> HIDE DEF j
<1>3. /\ Len(chain') = Len(chain) + 1
      /\ \A i \in 1..Len(chain) : chain'[i] = chain[i]
      /\ chain'[Len(chain) + 1] = j
      /\ Bytes' = Bytes
      /\ Snaps' = Snaps
  BY <1>1, MoreWork
<1>4. /\ Len(chain) \in Nat
      /\ \A i \in Bytes : chain'[i] = chain[i]
      /\ \A i \in Snaps : chain'[i] = chain[i]
  BY <1>3, Carried
<1>5. InOrder /\ Settled /\ Separated /\ OnTheWay /\ Live /\ UnframedSeen
  BY DEF Shape
<1>6. InOrder'
  BY <1>1, <1>2, <1>5, MoreWorkInOrder
<1>7. Settled'
  BY <1>2, <1>3, <1>4, <1>5 DEF Settled, Chunk
<1>8. Separated'
  BY <1>2, <1>3, <1>4, <1>5 DEF Separated, Chunk
<1>9. OnTheWay'
  BY <1>2, <1>3, <1>4, <1>5 DEF OnTheWay, Attaching, Keeps, Captured, Past, Nothing, Promise!Nothing, Chunk
<1>10. Live'
  BY <1>2, <1>3, <1>4, <1>5 DEF Live, Follows, Past, Chunk
<1>11. QED
  BY <1>2, <1>5, <1>6, <1>7, <1>8, <1>9, <1>10 DEF Shape, UnframedSeen

(* attach() puts its snapshot link behind every chunk received so far.     *)
LEMMA AttachKeepsShape ==
  ASSUME TypeOK, Shape, NEW c \in Client, Attach(c)
  PROVE  Shape'
<1> DEFINE j == [op |-> "snap", of |-> c]
<1>1. j \in Job /\ j.op = "snap" /\ j.of = c /\ chain' = chain \o <<j>>
  BY JobsMade DEF Attach, Queued
<1>2. /\ UNCHANGED <<seq, written, screen, failed, clients, held, snapSeq, frame, view, unframed>>
      /\ phase[c] = "new"
      /\ phase' = [phase EXCEPT ![c] = "waiting"]
      /\ attachedAt' = [attachedAt EXCEPT ![c] = seq]
  BY DEF Attach
<1> HIDE DEF j
<1>3. /\ Len(chain') = Len(chain) + 1
      /\ \A i \in 1..Len(chain) : chain'[i] = chain[i]
      /\ chain'[Len(chain) + 1] = j
      /\ Bytes' = Bytes
      /\ Snaps' = Snaps \cup {Len(chain) + 1}
  BY <1>1, MoreWork
<1>4. /\ Len(chain) \in Nat
      /\ \A i \in Bytes : i \in Nat /\ i <= Len(chain) /\ chain'[i] = chain[i] /\ chain[i].of \in Nat
      /\ \A i \in Snaps : i \in Nat /\ i <= Len(chain) /\ chain'[i] = chain[i] /\ chain[i].of \in Client
  BY <1>3, Carried, Sorts
<1>5. InOrder /\ Settled /\ Separated /\ OnTheWay /\ Live /\ UnframedSeen
  BY DEF Shape
<1>6. /\ \A i \in Snaps : chain[i].of # c
      /\ \A d \in Client : d # c => phase'[d] = phase[d] /\ attachedAt'[d] = attachedAt[d]
      /\ phase'[c] = "waiting" /\ attachedAt'[c] = seq
  BY <1>2, <1>5 DEF Separated, TypeOK
<1>7. InOrder'
  BY <1>1, <1>2, <1>5, MoreWorkInOrder
<1>8. Settled'
  BY <1>2, <1>3, <1>4, <1>5 DEF Settled, Chunk
<1>9. Separated'
  <2>0. \A i \in Snaps : /\ chain'[i].of = chain[i].of
                          /\ phase[chain[i].of] = "waiting"
                          /\ phase'[chain[i].of] = "waiting"
    BY <1>4, <1>5, <1>6 DEF Separated
  <2>1. \A i \in Snaps' : phase'[chain'[i].of] = "waiting"
    <3> SUFFICES ASSUME NEW i \in Snaps' PROVE phase'[chain'[i].of] = "waiting"
      OBVIOUS
    <3>1. CASE i \in Snaps
      BY <3>1, <2>0
    <3>2. CASE i = Len(chain) + 1
      BY <3>2, <1>1, <1>3, <1>6
    <3>3. QED
      BY <3>1, <3>2, <1>3
  <2>2. \A i, k \in Snaps' : chain'[i].of = chain'[k].of => i = k
    <3>1. \A i \in Snaps : chain'[i].of # c
      BY <1>6, <2>0
    <3>2. chain'[Len(chain) + 1].of = c
      BY <1>1, <1>3
    <3>3. \A i, k \in Snaps : chain'[i].of = chain'[k].of => i = k
      BY <1>5, <2>0 DEF Separated
    <3>4. QED
      BY <3>1, <3>2, <3>3, <1>3
  <2>3. ASSUME NEW i \in Snaps'
        PROVE  /\ written' <= attachedAt'[chain'[i].of]
               /\ \A k \in Bytes' : k < i => chain'[k].of <= attachedAt'[chain'[i].of]
               /\ \A k \in Bytes' : k > i => chain'[k].of > attachedAt'[chain'[i].of]
               /\ \A n \in Chunk : attachedAt'[chain'[i].of] < n /\ n <= seq' =>
                     \E k \in Bytes' : k > i /\ chain'[k].of = n
    <3>1. CASE i \in Snaps
      <4>1. chain'[i] = chain[i] /\ attachedAt'[chain'[i].of] = attachedAt[chain[i].of]
        BY <3>1, <1>4, <1>6
      <4>2. QED
        BY <3>1, <4>1, <1>2, <1>3, <1>4, <1>5 DEF Separated
    <3>2. CASE i = Len(chain) + 1
      <4>1. attachedAt'[chain'[i].of] = seq
        BY <3>2, <1>1, <1>3, <1>6
      <4>2. written <= seq /\ \A k \in Bytes : chain[k].of <= seq
        BY <1>5 DEF InOrder
      <4>3. \A n \in Chunk : ~(seq < n /\ n <= seq)
        BY Sorts
      <4>4. QED
        BY <3>2, <4>1, <4>2, <4>3, <1>2, <1>3, <1>4
    <3>3. QED
      BY <3>1, <3>2, <1>3
  <2>4. QED
    BY <2>1, <2>2, <2>3 DEF Separated, Chunk
<1>10. OnTheWay'
  <2> SUFFICES ASSUME NEW d \in Client
               PROVE  /\ attachedAt'[d] <= seq'
                      /\ (d \in Attaching)' => Keeps(d)'
                      /\ phase'[d] = "captured" => Captured(d)'
                      /\ phase'[d] # "done" => view'[d] = Nothing' /\ d \notin clients'
                      /\ phase'[d] \in {"new", "done"} => held'[d] = {}
    BY DEF OnTheWay
  <2>1. /\ attachedAt[d] <= seq
        /\ d \in Attaching => Keeps(d)
        /\ phase[d] = "captured" => Captured(d)
        /\ phase[d] # "done" => view[d] = Nothing /\ d \notin clients
        /\ phase[d] \in {"new", "done"} => held[d] = {}
    BY <1>5 DEF OnTheWay
  <2>2. CASE d # c
    <3>1. phase[d] = "captured" => Captured(d)'
      BY <2>1, <2>2, <1>2, <1>3, <1>4, <1>6 DEF Captured, Past, Chunk
    <3>2. d \in Attaching => Keeps(d)'
      BY <2>1, <2>2, <1>2, <1>6 DEF Keeps, Chunk
    <3>3. QED
      BY <2>1, <2>2, <3>1, <3>2, <1>2, <1>6 DEF Attaching, Nothing, Promise!Nothing
  <2>3. CASE d = c
    <3>1. held[c] = {}
      BY <1>2, <1>5 DEF OnTheWay
    <3>2. Keeps(d)'
      BY <2>3, <3>1, <1>2, <1>6, Sorts DEF Keeps
    <3>3. QED
      BY <2>1, <2>3, <3>2, <1>2, <1>6, Sorts DEF Nothing, Promise!Nothing
  <2>4. QED
    BY <2>2, <2>3
<1>11. Live'
  <2>1. \A d \in clients : d \in Client /\ d # c
    BY <1>2, <1>5 DEF OnTheWay, TypeOK
  <2>2. QED
    BY <2>1, <1>2, <1>3, <1>4, <1>5, <1>6 DEF Live, Follows, Past, Chunk
<1>12. QED
  BY <1>2, <1>5, <1>7, <1>8, <1>9, <1>10, <1>11 DEF Shape, UnframedSeen

(* Links that stay where they are keep separating and settling.            *)
LEMMA SameWork ==
  ASSUME TypeOK, Shape, Bytes' = Bytes, Snaps' = Snaps,
         \A i \in Bytes \cup Snaps : chain'[i] = chain[i],
         UNCHANGED <<seq, written, attachedAt, screen, failed>>,
         \A i \in Snaps : phase'[chain[i].of] = "waiting"
  PROVE  Separated' /\ Settled'
<1>1. Separated /\ Settled
  BY DEF Shape
<1>2. \A i \in Snaps' : phase'[chain'[i].of] = "waiting"
  OBVIOUS
<1>3. \A i, j \in Snaps' : chain'[i].of = chain'[j].of => i = j
  BY <1>1 DEF Separated
<1>4. ASSUME NEW i \in Snaps'
      PROVE  /\ written' <= attachedAt'[chain'[i].of]
             /\ \A j \in Bytes' : j < i => chain'[j].of <= attachedAt'[chain'[i].of]
             /\ \A j \in Bytes' : j > i => chain'[j].of > attachedAt'[chain'[i].of]
             /\ \A n \in Chunk : attachedAt'[chain'[i].of] < n /\ n <= seq' =>
                   \E j \in Bytes' : j > i /\ chain'[j].of = n
  <2>1. i \in Snaps /\ chain'[i] = chain[i] /\ \A j \in Bytes : chain'[j] = chain[j]
    BY <1>4
  <2>2. QED
    BY <1>1, <2>1 DEF Separated
<1>5. Settled'
  BY <1>1 DEF Settled, Chunk
<1>6. QED
  BY <1>2, <1>3, <1>4, <1>5 DEF Separated, Chunk

(* The end of attach(): the client joins with the snapshot and the frames  *)
(* kept for it, which together are the stream so far.                      *)
LEMMA JoinKeepsShape ==
  ASSUME TypeOK, Shape, NEW c \in Client, NEW jobs \in Jobs, JoinBroadcast(c, jobs)
  PROVE  Shape'
<1>1. /\ UNCHANGED <<seq, written, screen, failed, snapSeq, frame, attachedAt, unframed>>
      /\ phase[c] = "captured"
      /\ phase' = [phase EXCEPT ![c] = "done"]
      /\ held' = [held EXCEPT ![c] = {}]
      /\ clients' = clients \cup {c}
      /\ view' = [view EXCEPT ![c] = Show(Show(@, frame[c]), Late(c))]
  BY DEF JoinBroadcast, CloseArray
<1>2. chain' = chain \o jobs
  BY DEF JoinBroadcast, Queued
<1>3. InOrder /\ Settled /\ Separated /\ OnTheWay /\ Live /\ UnframedSeen
  BY DEF Shape
<1>4. /\ Bytes' = Bytes /\ Snaps' = Snaps
      /\ \A i \in Bytes \cup Snaps : chain'[i] = chain[i]
      /\ InOrder'
  BY <1>1, <1>2, <1>3, MoreJobs
<1>5. /\ \A d \in Client : d # c => phase'[d] = phase[d] /\ held'[d] = held[d] /\ view'[d] = view[d]
      /\ phase'[c] = "done" /\ held'[c] = {}
      /\ view'[c] = Show(Show(view[c], frame[c]), Late(c))
  BY <1>1 DEF TypeOK
<1>6. /\ Captured(c) /\ Keeps(c) /\ view[c] = Nothing
      /\ attachedAt[c] \in Nat /\ snapSeq[c] \in Nat
  BY <1>1, <1>3, Sorts DEF OnTheWay, Attaching
<1>7. Late(c) = held[c]
  BY <1>6, Sorts DEF Late, Captured, Keeps
<1>8. view'[c].clean /\ view'[c].shown = frame[c] \cup held[c]
  <2>1. frame[c] \in SUBSET Chunk /\ held[c] \in SUBSET Chunk
    BY DEF TypeOK
  <2>2. /\ Show(Nothing, frame[c]) \in [shown : SUBSET Chunk, clean : BOOLEAN]
        /\ Show(Nothing, frame[c]).shown = frame[c]
        /\ Show(Nothing, frame[c]).clean
    <3>1. /\ Nothing \in [shown : SUBSET Chunk, clean : BOOLEAN]
          /\ Nothing.shown = {} /\ Nothing.clean
      BY NothingType
    <3>2. /\ Show(Nothing, frame[c]) \in [shown : SUBSET Chunk, clean : BOOLEAN]
          /\ Show(Nothing, frame[c]).shown = Nothing.shown \cup frame[c]
          /\ Show(Nothing, frame[c]).clean
                = (Nothing.clean /\ \A k \in Nothing.shown, m \in frame[c] : k < m)
      BY <2>1, <3>1, ShowType
    <3>3. Nothing.shown \cup frame[c] = frame[c] /\ \A k \in Nothing.shown, m \in frame[c] : k < m
      BY <3>1
    <3>4. QED
      BY <3>1, <3>2, <3>3
  <2>3. \A k \in frame[c], m \in held[c] : k < m
    BY <1>6, Sorts DEF Captured, Past, Keeps
  <2>4. QED
    BY <2>1, <2>2, <2>3, <1>5, <1>6, <1>7, ShowType
<1>9. Follows(c)'
  BY <1>1, <1>2, <1>4, <1>6, <1>8 DEF Follows, Captured, Keeps, Past, Chunk
<1>10. Live'
  <2> SUFFICES ASSUME NEW d \in clients' PROVE Follows(d)'
    BY DEF Live
  <2>1. CASE d = c
    BY <2>1, <1>9
  <2>2. CASE d # c
    <3>1. d \in clients /\ d \in Client
      BY <2>2, <1>1 DEF TypeOK
    <3>2. Follows(d)
      BY <3>1, <1>3 DEF Live
    <3>3. QED
      BY <2>2, <3>1, <3>2, <1>1, <1>2, <1>4, <1>5 DEF Follows, Past, Chunk
  <2>3. QED
    BY <2>1, <2>2
<1>11. OnTheWay'
  <2>1. ASSUME NEW d \in Client, d # c
        PROVE  /\ (d \in Attaching)' => Keeps(d)'
               /\ phase'[d] = "captured" => Captured(d)'
               /\ phase'[d] # "done" => view'[d] = Nothing' /\ d \notin clients'
    BY <2>1, <1>1, <1>2, <1>3, <1>4, <1>5
       DEF OnTheWay, Attaching, Keeps, Captured, Past, Nothing, Promise!Nothing, Chunk
  <2>2. (c \notin Attaching)'
    BY <1>5 DEF Attaching
  <2>3. QED
    BY <2>1, <2>2, <1>1, <1>3, <1>5 DEF OnTheWay
<1>12. Separated'
  <2>1. \A i \in Snaps : chain[i].of # c /\ chain[i].of \in Client
    BY <1>1, <1>3, Carried DEF Separated
  <2>2. \A i \in Snaps : phase'[chain[i].of] = "waiting"
    BY <2>1, <1>3, <1>5 DEF Separated
  <2>3. QED
    BY <2>2, <1>1, <1>4, SameWork
<1>13. InOrder' /\ Settled' /\ UnframedSeen'
  <2>1. Settled'
    <3>1. \A i \in Snaps : phase'[chain[i].of] = "waiting"
      BY <1>1, <1>3, <1>5, Carried DEF Separated
    <3>2. QED
      BY <3>1, <1>1, <1>4, SameWork
  <2>2. QED
    BY <2>1, <1>1, <1>3, <1>4 DEF UnframedSeen
<1>14. QED
  BY <1>10, <1>11, <1>12, <1>13 DEF Shape

(* An attach that ends without joining, and a client that leaves.          *)
LEMMA LeaveKeepsShape ==
  ASSUME TypeOK, Shape, NEW c \in Client, NEW jobs \in Jobs, GiveUp(c) \/ Detach(c, jobs)
  PROVE  Shape'
<1>1. /\ UNCHANGED <<seq, written, screen, failed, snapSeq, frame, attachedAt, view, unframed>>
      /\ clients' \subseteq clients
      /\ \/ phase' = phase /\ held' = held
         \/ /\ phase[c] \in {"captured", "broken"}
            /\ phase' = [phase EXCEPT ![c] = "done"]
            /\ held' = [held EXCEPT ![c] = {}]
  BY DEF GiveUp, Detach, CloseArray, queueVars, attachVars
<1>2. \E more \in Jobs : chain' = chain \o more
  BY ConcatEmptySeq DEF GiveUp, Detach, Queued, TypeOK, queueVars, Jobs
<1>3. InOrder /\ Settled /\ Separated /\ OnTheWay /\ Live /\ UnframedSeen
  BY DEF Shape
<1>4. /\ Bytes' = Bytes /\ Snaps' = Snaps
      /\ \A i \in Bytes \cup Snaps : chain'[i] = chain[i]
      /\ InOrder'
  BY <1>1, <1>2, <1>3, MoreJobs
<1>5. /\ \A d \in Client : d # c => phase'[d] = phase[d] /\ held'[d] = held[d]
      /\ \/ phase'[c] = phase[c] /\ held'[c] = held[c]
         \/ phase[c] # "waiting" /\ phase'[c] = "done" /\ held'[c] = {}
  BY <1>1 DEF TypeOK
<1>6. Live'
  BY <1>1, <1>2, <1>3, <1>4 DEF Live, Follows, Past, Chunk
<1>7. OnTheWay'
  <2> SUFFICES ASSUME NEW d \in Client
               PROVE  /\ attachedAt'[d] <= seq'
                      /\ (d \in Attaching)' => Keeps(d)'
                      /\ phase'[d] = "captured" => Captured(d)'
                      /\ phase'[d] # "done" => view'[d] = Nothing' /\ d \notin clients'
                      /\ phase'[d] \in {"new", "done"} => held'[d] = {}
    BY DEF OnTheWay
  <2>1. CASE phase'[d] = phase[d] /\ held'[d] = held[d]
    BY <2>1, <1>1, <1>2, <1>3, <1>4
       DEF OnTheWay, Attaching, Keeps, Captured, Past, Nothing, Promise!Nothing, Chunk
  <2>2. CASE phase'[d] = "done" /\ held'[d] = {}
    BY <2>2, <1>1, <1>3 DEF OnTheWay, Attaching
  <2>3. QED
    BY <2>1, <2>2, <1>5
<1>8. Separated' /\ Settled'
  <2>1. \A i \in Snaps : chain[i].of \in Client /\ phase[chain[i].of] = "waiting"
    BY <1>3, Carried DEF Separated
  <2>2. \A i \in Snaps : phase'[chain[i].of] = "waiting"
    BY <2>1, <1>5
  <2>3. QED
    BY <2>2, <1>1, <1>4, SameWork
<1>9. InOrder' /\ UnframedSeen'
  BY <1>1, <1>3, <1>4 DEF UnframedSeen
<1>10. QED
  BY <1>6, <1>7, <1>8, <1>9 DEF Shape
---------------------------------------------------------------------------
(* TypeOK /\ Shape is inductive.                                           *)
LEMMA ShapeStep == TypeOK /\ Shape /\ [AQNext]_aqVars => Shape'
<1> SUFFICES ASSUME TypeOK, Shape, [AQNext]_aqVars PROVE Shape'
  OBVIOUS
<1>1. CASE Feed \/ FeedUnframed
  BY <1>1, FeedKeepsShape
<1>2. CASE WriteSettles
  BY <1>2, WriteKeepsShape
<1>3. CASE NoteWritten \/ RunQueued
  BY <1>3, DoneKeepsShape
<1>4. CASE TakeSnapshot
  BY <1>4, SnapshotKeepsShape
<1>5. ASSUME NEW w \in Work, Enqueue(w) PROVE Shape'
  BY <1>5, EnqueueKeepsShape
<1>6. ASSUME NEW c \in Client, Attach(c) PROVE Shape'
  BY <1>6, AttachKeepsShape
<1>7. ASSUME NEW c \in Client, NEW jobs \in Jobs, JoinBroadcast(c, jobs) PROVE Shape'
  BY <1>7, JoinKeepsShape
<1>8. ASSUME NEW c \in Client, NEW jobs \in Jobs, Detach(c, jobs) PROVE Shape'
  BY <1>8, LeaveKeepsShape
<1>9. ASSUME NEW c \in Client, GiveUp(c) PROVE Shape'
  <2>1. <<>> \in Jobs
    BY DEF Jobs
  <2>2. QED
    BY <1>9, <2>1, LeaveKeepsShape
<1>10. CASE UNCHANGED aqVars
  BY <1>10 DEF aqVars, Shape, InOrder, Settled, Separated, OnTheWay, Live, UnframedSeen, Bytes, Snaps,
     Attaching, Keeps, Captured, Follows, Past, Nothing, Promise!Nothing, Chunk
<1>11. QED
  BY <1>1, <1>2, <1>3, <1>4, <1>5, <1>6, <1>7, <1>8, <1>9, <1>10 DEF AQNext

THEOREM ShapeHolds == AQSpec => []Shape
<1>1. TypeOK /\ Shape /\ [AQNext]_aqVars => Shape'
  BY ShapeStep
<1>2. QED
  BY <1>1, ShapeInit, TypeCorrect, PTL DEF AQSpec

(* Each viewer rebuilds the stream from the point where it attached: no    *)
(* chunk lost, none twice, none out of order (attach-queue.js:16).         *)
THEOREM StreamIsExact == AQSpec => []ExactStream
<1>1. TypeOK /\ Shape => ExactStream
  <2> SUFFICES ASSUME TypeOK, Shape, NEW c \in clients
               PROVE  /\ view[c].clean
                      /\ view[c].shown = Promise!StreamFrom(attachedAt[c], seq, failed, unframed)
    BY DEF ExactStream
  <2>1. c \in Client /\ Follows(c) /\ attachedAt[c] <= seq
    BY DEF Shape, Live, OnTheWay, TypeOK
  <2>2. attachedAt[c] \in 0..MaxChunks /\ seq \in 0..MaxChunks
    BY <2>1 DEF TypeOK
  <2>3. {n \in 1..attachedAt[c] : n \notin failed} = Past(c)
    BY <2>2, BoundsAssumption DEF Past, Chunk
  <2>4. {n \in (attachedAt[c] + 1)..seq : n \notin unframed}
          = {n \in Chunk : attachedAt[c] < n /\ n <= seq /\ n \notin unframed}
    BY <2>2, BoundsAssumption DEF Chunk
  <2>5. QED
    BY <2>1, <2>3, <2>4 DEF Follows, Promise!StreamFrom
<1>2. QED
  BY <1>1, TypeCorrect, ShapeHolds, PTL

(* What the comment at attach-queue.js:113 says of seq > snapSeq.          *)
THEOREM ComparisonIsAlwaysTrue == AQSpec => []HeldIsNeverCaptured
<1>1. TypeOK /\ Shape => HeldIsNeverCaptured
  <2> SUFFICES ASSUME TypeOK, Shape, NEW c \in Client, phase[c] = "captured"
               PROVE  frame[c] \cap held[c] = {} /\ Late(c) = held[c]
    BY DEF HeldIsNeverCaptured
  <2>1. Captured(c) /\ Keeps(c) /\ attachedAt[c] \in Nat /\ snapSeq[c] \in Nat
    BY Sorts DEF Shape, OnTheWay, Attaching
  <2>2. frame[c] \cap held[c] = {}
    BY <2>1, Sorts DEF Captured, Keeps, Past
  <2>3. Late(c) = held[c]
    BY <2>1, Sorts DEF Captured, Keeps, Late
  <2>4. QED
    BY <2>2, <2>3
<1>2. QED
  BY <1>1, TypeCorrect, ShapeHolds, PTL

(* A socket that ended is out of the broadcast set: attach() asks          *)
(* stillWanted() in the turn in which it registers (attach-queue.js:157).  *)
THEOREM NobodyDead == AQSpec => []NoDeadClient
<1>1. AQInit => NoDeadClient
  BY DEF AQInit, NoDeadClient
<1>2. NoDeadClient /\ TypeOK /\ Shape /\ [AQNext]_aqVars => NoDeadClient'
  <2> SUFFICES ASSUME NoDeadClient, TypeOK, Shape, [AQNext]_aqVars PROVE NoDeadClient'
    OBVIOUS
  <2>1. CASE Feed \/ FeedUnframed \/ WriteSettles \/ NoteWritten \/ RunQueued \/ TakeSnapshot
    BY <2>1 DEF NoDeadClient, Feed, FeedUnframed, WriteSettles, NoteWritten, RunQueued, TakeSnapshot
  <2>2. CASE (\E w \in Work : Enqueue(w)) \/ (\E c \in Client : Attach(c))
    BY <2>2 DEF NoDeadClient, Enqueue, Attach
  <2>3. ASSUME NEW c \in Client, NEW jobs \in Jobs, JoinBroadcast(c, jobs) PROVE NoDeadClient'
    BY <2>3 DEF NoDeadClient, JoinBroadcast, StillWanted
  <2>4. ASSUME NEW c \in Client, GiveUp(c) PROVE NoDeadClient'
    <3>1. c \notin clients
      BY <2>4 DEF GiveUp, Shape, OnTheWay
    <3>2. QED
      BY <2>4, <3>1 DEF NoDeadClient, GiveUp, Destroyed
  <2>5. ASSUME NEW c \in Client, NEW jobs \in Jobs, Detach(c, jobs) PROVE NoDeadClient'
    BY <2>5 DEF NoDeadClient, Detach
  <2>6. CASE UNCHANGED aqVars
    BY <2>6 DEF NoDeadClient, aqVars
  <2>7. QED
    BY <2>1, <2>2, <2>3, <2>4, <2>5, <2>6 DEF AQNext
<1>3. QED
  BY <1>1, <1>2, TypeCorrect, ShapeHolds, PTL DEF AQSpec
---------------------------------------------------------------------------
(* The refinement, step by step.  Held is what LiveStream sees of `view`.  *)
Held == [c \in Client |-> IF c \in clients THEN view[c] ELSE [shown |-> {}, clean |-> TRUE]]

LEMMA JoinIsJoin ==
  ASSUME TypeOK, Shape, NEW c \in Client, NEW jobs, JoinBroadcast(c, jobs), Follows(c)'
  PROVE  Promise!Join(c)
<1>1. /\ UNCHANGED <<seq, failed, attachedAt, unframed>>
      /\ phase[c] = "captured"
      /\ clients' = clients \cup {c}
      /\ view' = [view EXCEPT ![c] = Show(Show(@, frame[c]), Late(c))]
  BY DEF JoinBroadcast
<1>2. c \notin clients /\ attachedAt[c] \in 0..seq /\ seq \in 0..MaxChunks
  BY <1>1, BoundsAssumption DEF Shape, OnTheWay, TypeOK
<1>3. \A d \in Client : d # c => view'[d] = view[d]
  BY <1>1 DEF TypeOK
<1>4. view'[c] = [shown |-> Promise!StreamFrom(attachedAt[c], seq, failed, unframed), clean |-> TRUE]
  <2>1. view'[c].clean /\ view'[c].shown
          = Past(c) \cup {n \in Chunk : attachedAt[c] < n /\ n <= seq /\ n \notin unframed}
    BY <1>1 DEF Follows, Past, Chunk
  <2>2. Past(c) = {n \in 1..attachedAt[c] : n \notin failed}
    BY <1>2, BoundsAssumption DEF Past, Chunk
  <2>3. {n \in Chunk : attachedAt[c] < n /\ n <= seq /\ n \notin unframed}
          = {n \in (attachedAt[c] + 1)..seq : n \notin unframed}
    BY <1>2, BoundsAssumption DEF Chunk
  <2>4. view'[c] \in [shown : SUBSET Chunk, clean : BOOLEAN]
    <3>1. Late(c) \in SUBSET Chunk /\ frame[c] \in SUBSET Chunk
      BY DEF Late, TypeOK
    <3>2. Show(view[c], frame[c]) \in [shown : SUBSET Chunk, clean : BOOLEAN]
      BY <3>1, ShowType DEF TypeOK
    <3>3. Show(Show(view[c], frame[c]), Late(c)) \in [shown : SUBSET Chunk, clean : BOOLEAN]
      BY <3>1, <3>2, ShowType
    <3>4. QED
      BY <3>3, <1>1 DEF TypeOK
  <2>5. QED
    BY <2>1, <2>2, <2>3, <2>4 DEF Promise!StreamFrom
<1>5. Held' = [Held EXCEPT ![c] = view'[c]]
  <2> DEFINE shown(d) == IF d \in clients' THEN view'[d] ELSE [shown |-> {}, clean |-> TRUE]
  <2>1. \A d \in Client : shown(d) = IF d = c THEN view'[c] ELSE Held[d]
    BY <1>1, <1>3 DEF Held
  <2>2. Held' = [d \in Client |-> shown(d)]
    BY DEF Held
  <2> HIDE DEF shown
  <2>3. Held' = [d \in Client |-> IF d = c THEN view'[c] ELSE Held[d]]
    BY <2>1, <2>2
  <2>4. [Held EXCEPT ![c] = view'[c]] = [d \in Client |-> IF d = c THEN view'[c] ELSE Held[d]]
    BY DEF Held
  <2>5. QED
    BY <2>3, <2>4
<1>6. QED
  BY <1>1, <1>2, <1>4, <1>5 DEF Promise!Join, Held

LEMMA PrintIsPrint ==
  ASSUME TypeOK, Feed \/ FeedUnframed
  PROVE  Promise!Prints
<1>1. CASE Feed
  <2>1. Held' = [c \in Client |-> IF c \in clients THEN Promise!Show(Held[c], {seq + 1}) ELSE Held[c]]
    BY <1>1 DEF Feed, Held, Show
  <2>2. QED
    BY <1>1, <2>1 DEF Feed, Promise!Prints, Held
<1>2. CASE FeedUnframed
  BY <1>2 DEF FeedUnframed, Promise!Prints
<1>3. QED
  BY <1>1, <1>2

LEMMA LeaveIsLeave ==
  ASSUME TypeOK, NEW c \in Client, NEW jobs, Detach(c, jobs)
  PROVE  Promise!Leave(c)
<1>1. Held' = [Held EXCEPT ![c] = [shown |-> {}, clean |-> TRUE]]
  BY DEF Detach, Held
<1>2. QED
  BY <1>1 DEF Detach, Promise!Leave, Promise!Nothing, Held

LEMMA WriteIsMiss ==
  ASSUME TypeOK, Shape, WriteSettles
  PROVE  Promise!Miss \/ UNCHANGED Promise!lsVars
<1>1. CASE failed' = failed
  BY <1>1 DEF WriteSettles, Promise!lsVars
<1>2. CASE failed' = failed \cup {Head(chain).of}
  <2>1. 1 \in Bytes /\ Head(chain) = chain[1]
    BY HeadDone DEF WriteSettles, Running, TypeOK, Bytes
  <2>2. chain[1].of \in Chunk /\ chain[1].of <= seq
    BY <2>1, Carried DEF Shape, InOrder
  <2>3. Head(chain).of \in 1..seq
    BY <2>1, <2>2, Sorts DEF Chunk
  <2>4. QED
    BY <1>2, <2>3 DEF WriteSettles, Promise!Miss
<1>3. QED
  BY <1>1, <1>2 DEF WriteSettles

(* The queue implements LiveStream: every step of the promise chain is a   *)
(* step of the abstract stream or none.                                    *)
THEOREM QueueImplementsLiveStream == AQSpec => ImplementsLiveStream
<1>1. AQInit => Promise!Init
  BY DEF AQInit, Promise!Init, Promise!Nothing
<1>2. TypeOK /\ Shape /\ Shape' /\ TypeOK' /\ [AQNext]_aqVars => [Promise!Next]_(Promise!lsVars)
  <2> SUFFICES ASSUME TypeOK, Shape, Shape', TypeOK', [AQNext]_aqVars
               PROVE  Promise!Next \/ UNCHANGED Promise!lsVars
    OBVIOUS
  <2>1. CASE Feed \/ FeedUnframed
    BY <2>1, PrintIsPrint DEF Promise!Next
  <2>2. CASE WriteSettles
    BY <2>2, WriteIsMiss DEF Promise!Next
  <2>3. CASE NoteWritten \/ RunQueued \/ TakeSnapshot
    BY <2>3 DEF NoteWritten, RunQueued, TakeSnapshot, Promise!lsVars
  <2>4. CASE (\E w \in Work : Enqueue(w)) \/ (\E c \in Client : Attach(c))
    BY <2>4 DEF Enqueue, Attach, Promise!lsVars
  <2>5. ASSUME NEW c \in Client, NEW jobs \in Jobs, JoinBroadcast(c, jobs) PROVE Promise!Next
    <3>1. Follows(c)'
      BY <2>5 DEF JoinBroadcast, Shape, Live
    <3>2. QED
      BY <2>5, <3>1, JoinIsJoin DEF Promise!Next
  <2>6. ASSUME NEW c \in Client, GiveUp(c) PROVE UNCHANGED Promise!lsVars
    BY <2>6 DEF GiveUp, queueVars, Promise!lsVars
  <2>7. ASSUME NEW c \in Client, NEW jobs \in Jobs, Detach(c, jobs) PROVE Promise!Next
    BY <2>7, LeaveIsLeave DEF Promise!Next
  <2>8. CASE UNCHANGED aqVars
    BY <2>8 DEF aqVars, Promise!lsVars
  <2>9. QED
    BY <2>1, <2>2, <2>3, <2>4, <2>5, <2>6, <2>7, <2>8 DEF AQNext
<1>3. QED
  BY <1>1, <1>2, TypeCorrect, ShapeHolds, PTL DEF AQSpec, ImplementsLiveStream, Promise!Spec

(***************************************************************************)
(* The host around it (Host, HostCore).                                    *)
(***************************************************************************)
(* The smallest number of a set is in it and below all the others.         *)
LEMMA MinIsMember ==
  ASSUME NEW S \in SUBSET Nat, S # {}
  PROVE  /\ Min(S) \in S
         /\ \A n \in S : Min(S) <= n
<1>1. \E m \in S : \A n \in S : m <= n
  <2> DEFINE R == {p \in Nat \X Nat : p[1] < p[2]}
  <2>1. IsWellFoundedOn(R, Nat)
    BY NatLessThanWellFounded DEF OpToRel, IsWellFoundedOn
  <2>2. PICK m \in S : \A k \in S : ~ (<<k, m>> \in R)
    BY <2>1, WFMin
  <2>3. ASSUME NEW n \in S PROVE m <= n
    <3>1. <<n, m>> \notin R /\ n \in Nat /\ m \in Nat
      BY <2>2
    <3>2. ~ (n < m)
      BY <3>1
    <3>3. QED
      BY <3>1, <3>2
  <2>4. QED
    BY <2>3
<1>2. QED
  BY <1>1 DEF Min
---------------------------------------------------------------------------
LEMMA JobsOfResize == ASSUME NEW size \in Work PROVE ResizeJobs(size) \in Jobs
  BY DEF ResizeJobs, Jobs

LEMMA SmallestIsSize ==
  ASSUME curSize \in Work, NEW C \in SUBSET Client,
         NEW d \in [Client -> Work \cup {Undeclared}]
  PROVE  SmallestOf(C, d) \in Work
<1>1. CASE Counted(C, d) = {}
  BY <1>1 DEF SmallestOf
<1>2. CASE Counted(C, d) # {}
  <2> DEFINE Ws == {d[c][1] : c \in Counted(C, d)}
             Hs == {d[c][2] : c \in Counted(C, d)}
  <2>1. \A c \in Counted(C, d) : d[c][1] \in Columns /\ d[c][2] \in Rows
    BY SizesAssumption DEF Counted
  <2>2. PICK c \in Counted(C, d) : TRUE
    BY <1>2
  <2>3. Ws \subseteq Columns /\ Hs \subseteq Rows /\ d[c][1] \in Ws /\ d[c][2] \in Hs
    BY <2>1
  <2>4. Min(Ws) \in Columns /\ Min(Hs) \in Rows
    <3>1. Ws \in SUBSET Nat /\ Hs \in SUBSET Nat /\ Ws # {} /\ Hs # {}
      BY <2>3, SizesAssumption
    <3> HIDE DEF Ws, Hs
    <3>2. Min(Ws) \in Ws /\ Min(Hs) \in Hs
      BY <3>1, MinIsMember
    <3>3. QED
      BY <2>3, <3>2
  <2>5. SmallestOf(C, d) = <<Min(Ws), Min(Hs)>>
    BY <1>2 DEF SmallestOf
  <2>6. QED
    <3> HIDE DEF Ws, Hs
    <3>1. QED
      BY <2>4, <2>5, SizesAssumption
<1>3. QED
  BY <1>1, <1>2
---------------------------------------------------------------------------
(* Every step of the host is a step of the queue.                          *)
LEMMA HostStepIsQueueStep ==
  ASSUME HostTypeOK, TypeOK, [HostNext]_hostVars
  PROVE  [AQNext]_aqVars
<1>1. CASE UNCHANGED hostVars
  BY <1>1 DEF hostVars
<1>2. CASE PtyPrints
  BY <1>2 DEF PtyPrints, AQNext
<1>3. ASSUME NEW c \in Client, Authenticate(c) PROVE AQNext
  BY <1>3 DEF Authenticate, AQNext
<1>4. ASSUME NEW c \in Client, Joins(c) PROVE AQNext
  <2>1. ResizeJobs(SmallestOf(clients \cup {c}, declared)) \in Jobs
    BY SmallestIsSize, JobsOfResize DEF HostTypeOK, TypeOK
  <2>2. QED
    BY <1>4, <2>1 DEF Joins, AQNext
<1>5. ASSUME NEW c \in Client, Abandons(c) PROVE AQNext
  BY <1>5 DEF Abandons, AQNext
<1>6. ASSUME NEW c \in Client, SocketEnds(c) PROVE AQNext
  <2>1. ResizeJobs(SmallestOf(clients \ {c}, declared)) \in Jobs
    BY SmallestIsSize, JobsOfResize DEF HostTypeOK, TypeOK
  <2>2. QED
    BY <1>6, <2>1 DEF SocketEnds, AQNext
<1>7. ASSUME NEW c \in Client, NEW size \in Work \cup {Undeclared}, Declare(c, size)
      PROVE  [AQNext]_aqVars
  <2> DEFINE new == SmallestOf(clients, declared')
  <2>1. declared' \in [Client -> Work \cup {Undeclared}]
    BY <1>7 DEF Declare, HostTypeOK
  <2>2. new \in Work
    BY <2>1, SmallestIsSize DEF HostTypeOK, TypeOK
  <2> HIDE DEF new
  <2>3. CASE new = curSize
    <3>1. chain' = chain
      BY <1>7, <2>3, ConcatEmptySeq DEF Declare, ResizeJobs, Queued, TypeOK, new
    <3>2. QED
      BY <1>7, <3>1 DEF Declare, aqVars, attachVars
  <2>4. CASE new # curSize
    <3>1. Enqueue(new)
      BY <1>7, <2>4 DEF Declare, Enqueue, ResizeJobs, new
    <3>2. QED
      BY <2>2, <3>1 DEF AQNext
  <2>5. QED
    BY <2>3, <2>4
<1>8. CASE HostWriteSettles \/ ScreenResizes \/ HostLink
  BY <1>8 DEF HostWriteSettles, ScreenResizes, HostLink, AQNext
<1>9. QED
  BY <1>1, <1>2, <1>3, <1>4, <1>5, <1>6, <1>7, <1>8 DEF HostNext
---------------------------------------------------------------------------
(* Types: the sizes are sizes, and every chunk has one it was received at. *)
LEMMA HostTypeStep ==
  ASSUME HostTypeOK, TypeOK, [HostNext]_hostVars
  PROVE  HostTypeOK'
<1>1. CASE UNCHANGED hostVars
  BY <1>1 DEF hostVars, sizeVars, aqVars, HostTypeOK
<1>2. CASE PtyPrints
  <2>1. receivedAt' \in Seq(Work) /\ Len(receivedAt') = Len(receivedAt) + 1
    BY <1>2 DEF PtyPrints, HostTypeOK
  <2>2. seq' = seq + 1
    BY <1>2 DEF PtyPrints, Feed, FeedUnframed
  <2>3. QED
    BY <1>2, <2>1, <2>2 DEF PtyPrints, HostTypeOK
<1>3. ASSUME NEW c \in Client, Authenticate(c) \/ Abandons(c) PROVE HostTypeOK'
  BY <1>3 DEF Authenticate, Abandons, Attach, GiveUp, queueVars, sizeVars, HostTypeOK
<1>4. ASSUME NEW c \in Client, Joins(c) PROVE HostTypeOK'
  <2>1. SmallestOf(clients \cup {c}, declared) \in Work
    BY SmallestIsSize DEF HostTypeOK, TypeOK
  <2>2. QED
    BY <1>4, <2>1 DEF Joins, OnAttached, ApplySize, JoinBroadcast, HostTypeOK
<1>5. ASSUME NEW c \in Client, SocketEnds(c) PROVE HostTypeOK'
  <2>1. SmallestOf(clients \ {c}, declared) \in Work
    BY SmallestIsSize DEF HostTypeOK, TypeOK
  <2>2. QED
    BY <1>5, <2>1 DEF SocketEnds, OnClose, ApplySize, Detach, HostTypeOK
<1>6. ASSUME NEW c \in Client, NEW size \in Work \cup {Undeclared}, Declare(c, size)
      PROVE  HostTypeOK'
  <2>1. declared' \in [Client -> Work \cup {Undeclared}]
    BY <1>6 DEF Declare, HostTypeOK
  <2>2. SmallestOf(clients, declared') \in Work
    BY <2>1, SmallestIsSize DEF HostTypeOK, TypeOK
  <2>3. QED
    BY <1>6, <2>1, <2>2 DEF Declare, ApplySize, HostTypeOK
<1>7. CASE HostWriteSettles
  BY <1>7 DEF HostWriteSettles, WriteSettles, HostTypeOK
<1>8. CASE ScreenResizes
  <2>1. Head(chain).of \in Work
    BY <1>8, HeadDone, JobType DEF ScreenResizes, RunQueued, Running, TypeOK
  <2>2. QED
    BY <1>8, <2>1 DEF ScreenResizes, RunQueued, HostTypeOK
<1>9. CASE HostLink
  BY <1>9 DEF HostLink, NoteWritten, TakeSnapshot, sizeVars, HostTypeOK
<1>10. QED
  BY <1>1, <1>2, <1>3, <1>4, <1>5, <1>6, <1>7, <1>8, <1>9 DEF HostNext

(* The host's variables keep their types, and so do the queue's in it.     *)
THEOREM HostTypeCorrect == HostSpec => [](HostTypeOK /\ TypeOK)
<1>1. HostInit => HostTypeOK /\ TypeOK
  <2>1. HostInit => TypeOK
    BY TypeInit DEF HostInit
  <2>2. HostInit => HostTypeOK
    BY SizesAssumption DEF HostInit, AQInit, HostTypeOK
  <2>3. QED
    BY <2>1, <2>2
<1>2. (HostTypeOK /\ TypeOK) /\ [HostNext]_hostVars => (HostTypeOK /\ TypeOK)'
  BY HostStepIsQueueStep, HostTypeStep, TypeStep
<1>3. QED
  BY <1>1, <1>2, PTL DEF HostSpec

(* ccrc-host.js uses the queue and nothing but the queue for its output.   *)
THEOREM HostImplementsQueue == HostSpec => HostRunsTheQueue
<1>1. HostInit => AQInit
  BY DEF HostInit
<1>2. HostTypeOK /\ TypeOK /\ [HostNext]_hostVars => [AQNext]_aqVars
  BY HostStepIsQueueStep
<1>3. QED
  BY <1>1, <1>2, HostTypeCorrect, PTL DEF HostSpec, HostRunsTheQueue, AQSpec

(* So every viewer on the pipe rebuilds the exact stream.                  *)
THEOREM HostStreamIsExact == HostSpec => []ExactStream
  BY HostImplementsQueue, StreamIsExact, PTL DEF HostRunsTheQueue
---------------------------------------------------------------------------
(* The inductive invariant of the size rule: every write in the chain will *)
(* run at the size its chunk was received at, the chain ends at the size   *)
(* of the pty, and what is on the screen was laid out as received.         *)
Writes == {i \in 1..Len(chain) : chain[i].op = "write"}

SizeInv ==
  /\ \A i \in Writes : chain[i].of \in 1..seq /\ WillBe(chain, screenSize, i, receivedAt[chain[i].of])
  /\ ScreenFollowsPty
  /\ screen \subseteq 1..seq
  /\ LaidAsReceived

(* WillBe looks only at the resizes before link i.                         *)
LEMMA SameBefore ==
  ASSUME NEW q, NEW r, NEW now, NEW i \in Nat, NEW size, WillBe(q, now, i, size),
         \A j \in 1..(i - 1) : r[j].op = q[j].op /\ r[j].of = q[j].of
  PROVE  WillBe(r, now, i, size)
  BY DEF WillBe

(* The link after a resize runs at its size; after another, at the same.   *)
LEMMA AfterResize ==
  ASSUME NEW q, NEW now, NEW i \in Nat \ {0}, NEW size, q[i].op = "run", q[i].of = size
  PROVE  WillBe(q, now, i + 1, size)
  BY DEF WillBe

LEMMA AfterOther ==
  ASSUME NEW q, NEW now, NEW i \in Nat \ {0}, NEW size, q[i].op # "run", WillBe(q, now, i, size)
  PROVE  WillBe(q, now, i + 1, size)
<1>1. \A j \in 1..i : j # i => j \in 1..(i - 1)
  OBVIOUS
<1>2. ASSUME \A j \in 1..i : q[j].op # "run" PROVE size = now
  BY <1>1, <1>2 DEF WillBe
<1>3. ASSUME NEW j \in 1..i, q[j].op = "run", \A k \in (j + 1)..i : q[k].op # "run"
      PROVE  size = q[j].of
  BY <1>1, <1>3 DEF WillBe
<1>4. QED
  BY <1>2, <1>3 DEF WillBe

(* The head is done: the links behind it move up, and if it was a resize   *)
(* the screen now has its size.                                            *)
LEMMA HeadGone ==
  ASSUME NEW q, NEW r, NEW i \in Nat \ {0}, NEW now, NEW then, NEW size,
         WillBe(q, now, i + 1, size),
         \A j \in 1..(i - 1) : r[j] = q[j + 1],
         then = IF q[1].op = "run" THEN q[1].of ELSE now
  PROVE  WillBe(r, then, i, size)
<1>1. ASSUME \A j \in 1..(i - 1) : r[j].op # "run" PROVE size = then
  <2>1. \A k \in 2..i : q[k].op # "run"
    <3> SUFFICES ASSUME NEW k \in 2..i PROVE q[k].op # "run"
      OBVIOUS
    <3>1. k - 1 \in 1..(i - 1) /\ q[(k - 1) + 1] = q[k]
      OBVIOUS
    <3>2. QED
      BY <1>1, <3>1
  <2>2. QED
    BY <2>1 DEF WillBe
<1>2. ASSUME NEW j \in 1..(i - 1), r[j].op = "run", \A k \in (j + 1)..(i - 1) : r[k].op # "run"
      PROVE  size = r[j].of
  <2>1. \A k \in (j + 2)..i : q[k].op # "run"
    <3> SUFFICES ASSUME NEW k \in (j + 2)..i PROVE q[k].op # "run"
      OBVIOUS
    <3>1. k - 1 \in (j + 1)..(i - 1) /\ k - 1 \in 1..(i - 1) /\ q[(k - 1) + 1] = q[k]
      OBVIOUS
    <3>2. QED
      BY <1>2, <3>1
  <2>2. j + 1 \in 1..i /\ q[j + 1].op = "run"
    BY <1>2
  <2>3. QED
    BY <1>2, <2>1, <2>2 DEF WillBe
<1>3. QED
  BY <1>1, <1>2 DEF WillBe
---------------------------------------------------------------------------
(* applySize() moves the pty and puts the screen's resize behind the bytes *)
(* that were received before.                                              *)
LEMMA ResizeKeepsSizes ==
  ASSUME HostTypeOK, TypeOK, SizeInv, NEW size \in Work,
         chain' = chain \o ResizeJobs(size), curSize' = size,
         UNCHANGED <<seq, screen, screenSize, receivedAt, laidAt>>
  PROVE  SizeInv'
<1>1. CASE size = curSize
  <2>1. chain' = chain
    BY <1>1, ConcatEmptySeq DEF ResizeJobs, TypeOK
  <2>2. QED
    BY <1>1, <2>1 DEF SizeInv, Writes, ScreenFollowsPty, LaidAsReceived
<1>2. CASE size # curSize
  <2> DEFINE j == [op |-> "run", of |-> size]
  <2>1. j \in Job /\ j.op = "run" /\ j.of = size /\ chain' = chain \o <<j>>
    BY <1>2, JobsMade DEF ResizeJobs
  <2> HIDE DEF j
  <2>2. /\ Len(chain) \in Nat
        /\ Len(chain') = Len(chain) + 1
        /\ \A i \in 1..Len(chain) : chain'[i] = chain[i]
        /\ chain'[Len(chain) + 1] = j
    BY <2>1, QueuedOne DEF TypeOK
  <2>3. Writes' = Writes
    BY <2>1, <2>2 DEF Writes
  <2>4. ASSUME NEW i \in Writes
        PROVE  chain'[i].of \in 1..seq' /\ WillBe(chain', screenSize', i, receivedAt'[chain'[i].of])
    <3>1. i \in 1..Len(chain) /\ chain'[i] = chain[i]
      BY <2>2 DEF Writes
    <3>2. i \in Nat /\ WillBe(chain, screenSize, i, receivedAt[chain[i].of])
      BY <2>2, <3>1 DEF SizeInv
    <3>3. \A k \in 1..(i - 1) : chain'[k].op = chain[k].op /\ chain'[k].of = chain[k].of
      BY <2>2, <3>1
    <3>4. WillBe(chain', screenSize, i, receivedAt[chain[i].of])
      BY <3>2, <3>3, SameBefore
    <3>5. QED
      BY <3>1, <3>4 DEF SizeInv
  <2>5. ScreenFollowsPty'
    <3>1. /\ Len(chain) + 1 \in Nat \ {0}
          /\ chain'[Len(chain) + 1].op = "run" /\ chain'[Len(chain) + 1].of = size
      BY <2>1, <2>2
    <3>2. WillBe(chain', screenSize', (Len(chain) + 1) + 1, size)
      BY <3>1, AfterResize
    <3>3. QED
      BY <2>2, <3>2 DEF ScreenFollowsPty
  <2>6. QED
    BY <2>3, <2>4, <2>5 DEF SizeInv, LaidAsReceived
<1>3. QED
  BY <1>1, <1>2

(* attach() queues a snapshot link, which resizes nothing.                 *)
LEMMA SnapKeepsSizes ==
  ASSUME HostTypeOK, TypeOK, SizeInv, NEW j \in Job, j.op = "snap", chain' = chain \o <<j>>,
         UNCHANGED <<seq, screen, curSize, screenSize, receivedAt, laidAt>>
  PROVE  SizeInv'
<1>1. /\ Len(chain) \in Nat
      /\ Len(chain') = Len(chain) + 1
      /\ \A i \in 1..Len(chain) : chain'[i] = chain[i]
      /\ chain'[Len(chain) + 1] = j
  BY QueuedOne DEF TypeOK
<1>2. Writes' = Writes
  BY <1>1 DEF Writes
<1>3. ASSUME NEW i \in Writes
      PROVE  chain'[i].of \in 1..seq' /\ WillBe(chain', screenSize', i, receivedAt'[chain'[i].of])
  <2>1. i \in 1..Len(chain) /\ chain'[i] = chain[i]
    BY <1>1 DEF Writes
  <2>2. i \in Nat /\ WillBe(chain, screenSize, i, receivedAt[chain[i].of])
    BY <1>1, <2>1 DEF SizeInv
  <2>3. \A k \in 1..(i - 1) : chain'[k].op = chain[k].op /\ chain'[k].of = chain[k].of
    BY <1>1, <2>1
  <2>4. WillBe(chain', screenSize, i, receivedAt[chain[i].of])
    BY <2>2, <2>3, SameBefore
  <2>5. QED
    BY <2>1, <2>4 DEF SizeInv
<1>4. ScreenFollowsPty'
  <2>1. Len(chain) + 1 \in Nat \ {0} /\ Len(chain) + 1 \in Nat /\ chain'[Len(chain) + 1].op # "run"
    BY <1>1
  <2>2. \A k \in 1..((Len(chain) + 1) - 1) : chain'[k].op = chain[k].op /\ chain'[k].of = chain[k].of
    BY <1>1
  <2>3. WillBe(chain, screenSize, Len(chain) + 1, curSize)
    BY DEF SizeInv, ScreenFollowsPty
  <2>4. WillBe(chain', screenSize, Len(chain) + 1, curSize)
    BY <2>1, <2>2, <2>3, SameBefore
  <2>5. WillBe(chain', screenSize, (Len(chain) + 1) + 1, curSize)
    BY <2>1, <2>4, AfterOther
  <2>6. QED
    BY <1>1, <2>5 DEF ScreenFollowsPty
<1>5. QED
  BY <1>2, <1>3, <1>4 DEF SizeInv, LaidAsReceived

(* A chunk is received at the size of the pty, and its write is queued     *)
(* behind the resize that gives the screen that size.                      *)
LEMMA PrintKeepsSizes ==
  ASSUME HostTypeOK, TypeOK, SizeInv, PtyPrints
  PROVE  SizeInv'
<1> DEFINE j == [op |-> "write", of |-> seq + 1]
<1>1. /\ j \in Job /\ j.op = "write" /\ j.of = seq + 1 /\ chain' = chain \o <<j>>
      /\ seq \in Nat /\ seq' = seq + 1
      /\ UNCHANGED <<screen, curSize, screenSize, laidAt>>
  <2>1. seq \in 0..MaxChunks /\ seq < MaxChunks
    BY DEF PtyPrints, Feed, FeedUnframed, TypeOK
  <2>2. j \in Job /\ j.op = "write" /\ j.of = seq + 1 /\ seq \in Nat
    <3>1. seq + 1 \in Chunk
      BY <2>1, NextChunk
    <3>2. seq \in Nat
      BY <2>1, BoundsAssumption
    <3>3. j \in Job
      BY <3>1, JobsMade
    <3>4. QED
      BY <3>2, <3>3
  <2>3. /\ chain' = chain \o <<j>> /\ seq' = seq + 1
        /\ UNCHANGED <<screen, curSize, screenSize, laidAt>>
    BY DEF PtyPrints, Feed, FeedUnframed, Queued
  <2>4. QED
    BY <2>2, <2>3
<1> HIDE DEF j
<1>2. /\ Len(chain) \in Nat
      /\ Len(chain') = Len(chain) + 1
      /\ \A i \in 1..Len(chain) : chain'[i] = chain[i]
      /\ chain'[Len(chain) + 1] = j
  BY <1>1, QueuedOne DEF TypeOK
<1>3. /\ \A n \in 1..seq : receivedAt'[n] = receivedAt[n]
      /\ receivedAt'[seq + 1] = curSize
  BY <1>1 DEF PtyPrints, HostTypeOK
<1>4. Writes' = Writes \cup {Len(chain) + 1}
  BY <1>1, <1>2 DEF Writes
<1>5. WillBe(chain', screenSize, Len(chain) + 1, curSize)
  <2>1. \A k \in 1..((Len(chain) + 1) - 1) : chain'[k].op = chain[k].op /\ chain'[k].of = chain[k].of
    BY <1>2
  <2>2. Len(chain) + 1 \in Nat /\ WillBe(chain, screenSize, Len(chain) + 1, curSize)
    BY <1>2 DEF SizeInv, ScreenFollowsPty
  <2>3. QED
    BY <2>1, <2>2, SameBefore
<1>6. ASSUME NEW i \in Writes'
      PROVE  chain'[i].of \in 1..seq' /\ WillBe(chain', screenSize', i, receivedAt'[chain'[i].of])
  <2>1. CASE i \in Writes
    <3>1. /\ i \in 1..Len(chain) /\ chain'[i] = chain[i] /\ chain[i].of \in 1..seq
          /\ receivedAt'[chain[i].of] = receivedAt[chain[i].of]
      BY <2>1, <1>2, <1>3 DEF Writes, SizeInv
    <3>2. \A k \in 1..(i - 1) : chain'[k].op = chain[k].op /\ chain'[k].of = chain[k].of
      BY <1>2, <3>1
    <3>3. i \in Nat /\ WillBe(chain, screenSize, i, receivedAt[chain[i].of])
      BY <2>1, <1>2, <3>1 DEF SizeInv
    <3>4. WillBe(chain', screenSize, i, receivedAt[chain[i].of])
      BY <3>2, <3>3, SameBefore
    <3>5. QED
      BY <1>1, <3>1, <3>4
  <2>2. CASE i = Len(chain) + 1
    BY <2>2, <1>1, <1>2, <1>3, <1>5
  <2>3. QED
    BY <2>1, <2>2, <1>4
<1>7. ScreenFollowsPty'
  <2>1. Len(chain) + 1 \in Nat \ {0} /\ chain'[Len(chain) + 1].op # "run"
    BY <1>1, <1>2
  <2>2. WillBe(chain', screenSize, (Len(chain) + 1) + 1, curSize)
    BY <2>1, <1>5, AfterOther
  <2>3. QED
    BY <1>1, <1>2, <2>2 DEF ScreenFollowsPty
<1>8. screen' \subseteq 1..seq' /\ LaidAsReceived'
  <2>1. \A n \in screen : n \in 1..seq /\ n \in 1..(seq + 1) /\ laidAt[n] = receivedAt[n]
    BY <1>1 DEF SizeInv, LaidAsReceived
  <2>2. QED
    BY <2>1, <1>1, <1>3 DEF LaidAsReceived
<1>9. QED
  BY <1>6, <1>7, <1>8 DEF SizeInv

(* The head of the chain is done, whatever it was.                         *)
LEMMA DoneKeepsSizes ==
  ASSUME HostTypeOK, TypeOK, SizeInv, chain # <<>>, chain' = Tail(chain),
         screenSize' = (IF Head(chain).op = "run" THEN Head(chain).of ELSE screenSize),
         UNCHANGED <<seq, screen, curSize, receivedAt>>,
         \A n \in screen : laidAt'[n] = receivedAt[n]
  PROVE  SizeInv'
<1>1. /\ Len(chain) \in Nat /\ Len(chain) >= 1
      /\ Head(chain) = chain[1]
      /\ Len(chain') = Len(chain) - 1
      /\ \A i \in 1..Len(chain') : chain'[i] = chain[i + 1] /\ i + 1 \in 1..Len(chain)
  BY HeadDone DEF TypeOK
<1>2. ASSUME NEW i \in Writes'
      PROVE  chain'[i].of \in 1..seq' /\ WillBe(chain', screenSize', i, receivedAt'[chain'[i].of])
  <2>1. i \in 1..Len(chain') /\ chain'[i] = chain[i + 1] /\ i + 1 \in Writes
    BY <1>1 DEF Writes
  <2>2. WillBe(chain, screenSize, i + 1, receivedAt[chain[i + 1].of])
    BY <2>1 DEF SizeInv
  <2>3. \A j \in 1..(i - 1) : chain'[j] = chain[j + 1]
    BY <1>1, <2>1
  <2>4. WillBe(chain', screenSize', i, receivedAt[chain[i + 1].of])
    <3>1. /\ i \in Nat \ {0}
          /\ screenSize' = IF chain[1].op = "run" THEN chain[1].of ELSE screenSize
      BY <1>1, <2>1
    <3> DEFINE size == receivedAt[chain[i + 1].of]
    <3>2. WillBe(chain, screenSize, i + 1, size)
      BY <2>2
    <3> HIDE DEF size
    <3>3. WillBe(chain', screenSize', i, size)
      BY <2>3, <3>1, <3>2, HeadGone
    <3>4. QED
      BY <3>3 DEF size
  <2>5. QED
    BY <2>1, <2>4 DEF SizeInv
<1>3. ScreenFollowsPty'
  <2>1. WillBe(chain, screenSize, Len(chain) + 1, curSize)
    BY DEF SizeInv, ScreenFollowsPty
  <2>2. WillBe(chain', screenSize', Len(chain), curSize)
    <3>1. /\ Len(chain) \in Nat \ {0}
          /\ \A j \in 1..(Len(chain) - 1) : chain'[j] = chain[j + 1]
          /\ screenSize' = IF chain[1].op = "run" THEN chain[1].of ELSE screenSize
      BY <1>1
    <3>2. QED
      BY <2>1, <3>1, HeadGone
  <2>3. QED
    BY <1>1, <2>2 DEF ScreenFollowsPty
<1>4. QED
  BY <1>2, <1>3 DEF SizeInv, LaidAsReceived

(* A write settles: the chunk is laid out at the size it was received at.  *)
LEMMA WriteKeepsSizes ==
  ASSUME HostTypeOK, TypeOK, SizeInv, HostWriteSettles
  PROVE  SizeInv'
<1> DEFINE n == Head(chain).of
<1>1. /\ chain # <<>> /\ Head(chain) = chain[1] /\ 1 \in Writes /\ Head(chain).op = "write"
      /\ Len(chain) \in Nat /\ n \in 1..seq /\ n \in Chunk
  <2>1. chain # <<>> /\ Head(chain).op = "write"
    BY DEF HostWriteSettles, WriteSettles, Running
  <2>2. Head(chain) = chain[1] /\ 1 \in 1..Len(chain) /\ Head(chain) \in Job /\ Len(chain) \in Nat
    BY <2>1, HeadDone DEF TypeOK
  <2>3. 1 \in Writes
    BY <2>1, <2>2 DEF Writes
  <2>4. QED
    BY <2>1, <2>2, <2>3, JobType DEF SizeInv
<1>2. receivedAt[n] = screenSize
  BY <1>1 DEF SizeInv, WillBe
<1>3. /\ UNCHANGED <<seq, curSize, screenSize, receivedAt>>
      /\ laidAt' = [laidAt EXCEPT ![n] = screenSize]
  BY DEF HostWriteSettles, WriteSettles
<1>4. \A m \in screen \cup {n} : laidAt'[m] = receivedAt[m]
  BY <1>1, <1>2, <1>3 DEF SizeInv, LaidAsReceived, HostTypeOK, TypeOK
<1>5. CASE chain' = Tail(chain) /\ screen' = screen
  BY <1>1, <1>3, <1>4, <1>5, DoneKeepsSizes
<1>6. CASE chain' = [chain EXCEPT ![1] = [op |-> "mark", of |-> n]] /\ screen' = screen \cup {n}
  <2>1. /\ Len(chain') = Len(chain)
        /\ chain'[1].op = "mark"
        /\ chain[1].op = "write"
        /\ \A i \in 2..Len(chain) : chain'[i] = chain[i]
    BY <1>1, <1>6, JobsMade, HeadChanged DEF TypeOK
  <2> HIDE DEF n
  <2>2. ASSUME NEW i \in 1..(Len(chain) + 1), NEW size \in Work, WillBe(chain, screenSize, i, size)
        PROVE  WillBe(chain', screenSize, i, size)
    <3>1. \A k \in 1..(i - 1) : chain'[k].op = "run" <=> chain[k].op = "run"
      BY <1>1, <2>1
    <3>2. \A k \in 1..(i - 1) : chain[k].op = "run" => chain'[k] = chain[k]
      BY <1>1, <2>1
    <3>3. QED
      BY <2>2, <3>1, <3>2 DEF WillBe
  <2>3. ASSUME NEW i \in Writes'
        PROVE  chain'[i].of \in 1..seq' /\ WillBe(chain', screenSize', i, receivedAt'[chain'[i].of])
    <3>1. i \in 2..Len(chain) /\ chain'[i] = chain[i] /\ i \in Writes
      BY <1>1, <2>1 DEF Writes
    <3>2. /\ chain[i].of \in 1..seq
          /\ receivedAt[chain[i].of] \in Work
          /\ WillBe(chain, screenSize, i, receivedAt[chain[i].of])
      BY <3>1 DEF SizeInv, HostTypeOK
    <3>3. QED
      BY <1>1, <1>3, <2>2, <3>1, <3>2
  <2>4. ScreenFollowsPty'
    <3>1. WillBe(chain, screenSize, Len(chain) + 1, curSize)
      BY DEF SizeInv, ScreenFollowsPty
    <3>2. WillBe(chain', screenSize, Len(chain) + 1, curSize)
      BY <1>1, <2>2, <3>1 DEF HostTypeOK
    <3>3. QED
      BY <1>3, <2>1, <3>2 DEF ScreenFollowsPty
  <2>5. screen' \subseteq 1..seq' /\ LaidAsReceived'
    BY <1>1, <1>3, <1>4, <1>6 DEF SizeInv, LaidAsReceived
  <2>6. QED
    BY <2>3, <2>4, <2>5 DEF SizeInv
<1>7. QED
  BY <1>5, <1>6 DEF HostWriteSettles, WriteSettles
---------------------------------------------------------------------------
LEMMA SizeInit == HostInit => SizeInv
  BY SizesAssumption
     DEF HostInit, AQInit, SizeInv, Writes, ScreenFollowsPty, LaidAsReceived, WillBe

LEMMA SizeStep ==
  ASSUME HostTypeOK, TypeOK, SizeInv, [HostNext]_hostVars
  PROVE  SizeInv'
<1>1. CASE UNCHANGED hostVars
  BY <1>1 DEF hostVars, aqVars, sizeVars, SizeInv, Writes, ScreenFollowsPty, LaidAsReceived, WillBe
<1>2. CASE PtyPrints
  BY <1>2, PrintKeepsSizes
<1>3. ASSUME NEW c \in Client, Authenticate(c) PROVE SizeInv'
  <2>1. /\ chain' = chain \o <<[op |-> "snap", of |-> c]>>
        /\ UNCHANGED <<seq, screen, curSize, screenSize, receivedAt, laidAt>>
    BY <1>3 DEF Authenticate, Attach, Queued, sizeVars
  <2>2. QED
    BY <2>1, JobsMade, SnapKeepsSizes
<1>4. ASSUME NEW c \in Client, Joins(c) PROVE SizeInv'
  <2>1. SmallestOf(clients \cup {c}, declared) \in Work
    BY SmallestIsSize DEF HostTypeOK, TypeOK
  <2>2. QED
    BY <1>4, <2>1, ResizeKeepsSizes DEF Joins, OnAttached, ApplySize, JoinBroadcast, Queued
<1>5. ASSUME NEW c \in Client, Abandons(c) PROVE SizeInv'
  BY <1>5 DEF Abandons, GiveUp, queueVars, sizeVars, SizeInv, Writes, ScreenFollowsPty,
     LaidAsReceived, WillBe
<1>6. ASSUME NEW c \in Client, SocketEnds(c) PROVE SizeInv'
  <2>1. SmallestOf(clients \ {c}, declared) \in Work
    BY SmallestIsSize DEF HostTypeOK, TypeOK
  <2>2. QED
    BY <1>6, <2>1, ResizeKeepsSizes DEF SocketEnds, OnClose, ApplySize, Detach, Queued
<1>7. ASSUME NEW c \in Client, NEW size \in Work \cup {Undeclared}, Declare(c, size)
      PROVE  SizeInv'
  <2>1. declared' \in [Client -> Work \cup {Undeclared}]
    BY <1>7 DEF Declare, HostTypeOK
  <2>2. SmallestOf(clients, declared') \in Work
    BY <2>1, SmallestIsSize DEF HostTypeOK, TypeOK
  <2>3. QED
    BY <1>7, <2>2, ResizeKeepsSizes DEF Declare, ApplySize, Queued
<1>8. CASE HostWriteSettles
  BY <1>8, WriteKeepsSizes
<1>9. CASE ScreenResizes
  BY <1>9, DoneKeepsSizes DEF ScreenResizes, RunQueued, Running, SizeInv, LaidAsReceived
<1>10. CASE HostLink
  BY <1>10, DoneKeepsSizes
     DEF HostLink, NoteWritten, TakeSnapshot, Running, sizeVars, SizeInv, LaidAsReceived
<1>11. QED
  BY <1>1, <1>2, <1>3, <1>4, <1>5, <1>6, <1>7, <1>8, <1>9, <1>10 DEF HostNext

(* No byte that was received is laid out at another size than the pty had  *)
(* when it came (ccrc-host.js:224), for any number of viewers and resizes. *)
THEOREM ReceivedSizeIsKept == HostSpec => []LaidAsReceived
<1>1. HostTypeOK /\ TypeOK /\ SizeInv /\ [HostNext]_hostVars => SizeInv'
  BY SizeStep
<1>2. SizeInv => LaidAsReceived
  BY DEF SizeInv
<1>3. QED
  BY <1>1, <1>2, SizeInit, HostTypeCorrect, PTL DEF HostSpec

(* The screen ends up with the size of the pty.                            *)
THEOREM ScreenCatchesUp == HostSpec => []ScreenFollowsPty
<1>1. HostTypeOK /\ TypeOK /\ SizeInv /\ [HostNext]_hostVars => SizeInv'
  BY SizeStep
<1>2. SizeInv => ScreenFollowsPty
  BY DEF SizeInv
<1>3. QED
  BY <1>1, <1>2, SizeInit, HostTypeCorrect, PTL DEF HostSpec
---------------------------------------------------------------------------
(* What applySize() computes fits every client it counts, and is as large  *)
(* as they allow.                                                          *)
LEMMA SmallestFits ==
  ASSUME NEW C \in SUBSET Client, NEW d \in [Client -> Work \cup {Undeclared}],
         Counted(C, d) # {}
  PROVE  /\ \A c \in Counted(C, d) : SmallestOf(C, d)[1] <= d[c][1] /\ SmallestOf(C, d)[2] <= d[c][2]
         /\ \E c, e \in Counted(C, d) : SmallestOf(C, d) = <<d[c][1], d[e][2]>>
<1> DEFINE Ws == {d[c][1] : c \in Counted(C, d)}
           Hs == {d[c][2] : c \in Counted(C, d)}
<1>1. \A c \in Counted(C, d) : d[c][1] \in Nat /\ d[c][2] \in Nat /\ d[c][1] \in Ws /\ d[c][2] \in Hs
  BY SizesAssumption DEF Counted
<1>2. Ws \in SUBSET Nat /\ Hs \in SUBSET Nat /\ Ws # {} /\ Hs # {}
  BY <1>1
<1>3. SmallestOf(C, d) = <<Min(Ws), Min(Hs)>>
  BY DEF SmallestOf
<1>4. PICK c \in Counted(C, d), e \in Counted(C, d) : Min(Ws) = d[c][1] /\ Min(Hs) = d[e][2]
  <2>1. Min(Ws) \in Ws /\ Min(Hs) \in Hs
    <3> HIDE DEF Ws, Hs
    <3>1. QED
      BY <1>2, MinIsMember
  <2>2. QED
    BY <2>1
<1>5. (\A w \in Ws : Min(Ws) <= w) /\ (\A h \in Hs : Min(Hs) <= h)
  <2> HIDE DEF Ws, Hs
  <2>1. QED
    BY <1>2, MinIsMember
<1> HIDE DEF Ws, Hs
<1>6. QED
  BY <1>1, <1>3, <1>4, <1>5

(* The smallest screen wins, whoever joins, leaves, declares or withdraws  *)
(* (ccrc-host.js:198).                                                     *)
THEOREM SmallestScreenWins == HostSpec => []SmallestWins
<1>1. HostInit => SmallestWins
  BY DEF HostInit, AQInit, SmallestWins, Counted
<1>2. ASSUME HostTypeOK, HostTypeOK', TypeOK, TypeOK', SmallestWins, [HostNext]_hostVars
      PROVE  SmallestWins'
  <2>1. \/ UNCHANGED <<clients, declared, curSize>>
        \/ curSize' = SmallestOf(clients', declared')
    BY <1>2 DEF HostNext, hostVars, aqVars, sizeVars, PtyPrints, Feed, FeedUnframed, Authenticate, Attach,
       Joins, OnAttached, JoinBroadcast, Abandons, GiveUp, SocketEnds, OnClose, Detach, Declare,
       ApplySize, HostWriteSettles, WriteSettles, ScreenResizes, RunQueued, HostLink, NoteWritten,
       TakeSnapshot
  <2>2. CASE UNCHANGED <<clients, declared, curSize>>
    BY <1>2, <2>2 DEF SmallestWins, Counted
  <2>3. CASE curSize' = SmallestOf(clients', declared') /\ Counted(clients', declared') # {}
    <3>1. clients' \in SUBSET Client /\ declared' \in [Client -> Work \cup {Undeclared}]
      BY <1>2 DEF HostTypeOK, TypeOK
    <3>2. QED
      BY <2>3, <3>1, SmallestFits DEF SmallestWins
  <2>4. CASE Counted(clients', declared') = {}
    BY <2>4 DEF SmallestWins
  <2>5. QED
    BY <2>1, <2>2, <2>3, <2>4
<1>3. QED
  BY <1>1, <1>2, HostTypeCorrect, PTL DEF HostSpec
=============================================================================
