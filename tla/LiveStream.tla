---------------------------- MODULE LiveStream ----------------------------
(***************************************************************************)
(* What the attach queue of term/src/attach-queue.js promises, without the *)
(* promise chain, the held frames or the snapshot: each viewer rebuilds    *)
(* exactly the byte stream from the point where it attached, nothing lost  *)
(* and nothing twice.  A chunk is its number in the order the pty printed  *)
(* it.  Two kinds of chunk are outside the promise, because the code says  *)
(* so: one whose write to the screen was rejected (unrecorded) and one too *)
(* large to be framed (unframed).                                          *)
(***************************************************************************)
EXTENDS Naturals

CONSTANTS Client,     \* everybody who may watch
          MaxChunks   \* bound on the number of chunks the pty prints

VARIABLES stream,      \* number of chunks printed so far
          unrecorded,  \* chunks the screen never took
          unframed,    \* chunks that could not be sent live
          viewers,     \* who is attached
          view         \* what each viewer holds, and whether it only grew at the end

lsVars == <<stream, unrecorded, unframed, viewers, view>>

Chunk == 1..MaxChunks

(* The screen up to chunk a, then the live chunks after it.                *)
StreamFrom(a, upTo, lost, cut) ==
    {n \in 1..a : n \notin lost} \cup {n \in (a + 1)..upTo : n \notin cut}

(* A frame that shows the chunks B.  It is clean when every chunk in it is *)
(* newer than all that the viewer already has, so a repeated or reordered  *)
(* chunk spoils it.                                                        *)
Show(v, B) == [shown |-> v.shown \cup B,
               clean |-> v.clean /\ \A k \in v.shown, m \in B : k < m]

Nothing == [shown |-> {}, clean |-> TRUE]

Init == /\ stream = 0
        /\ unrecorded = {}
        /\ unframed = {}
        /\ viewers = {}
        /\ view = [c \in Client |-> Nothing]

(* The pty prints: everybody attached sees the chunk unless it has no frame. *)
Prints ==
  /\ stream < MaxChunks
  /\ stream' = stream + 1
  /\ \/ /\ view' = [c \in Client |-> IF c \in viewers THEN Show(view[c], {stream + 1}) ELSE view[c]]
        /\ UNCHANGED unframed
     \/ /\ unframed' = unframed \cup {stream + 1}
        /\ UNCHANGED view
  /\ UNCHANGED <<unrecorded, viewers>>

(* The screen rejects a chunk; what viewers already hold is not affected.  *)
Miss == /\ \E n \in 1..stream : unrecorded' = unrecorded \cup {n}
        /\ UNCHANGED <<stream, unframed, viewers, view>>

(* A viewer attaches at some point a of the stream.                        *)
Join(c) == /\ c \notin viewers
           /\ viewers' = viewers \cup {c}
           /\ \E a \in 0..stream :
                view' = [view EXCEPT ![c] = [shown |-> StreamFrom(a, stream, unrecorded, unframed),
                                             clean |-> TRUE]]
           /\ UNCHANGED <<stream, unrecorded, unframed>>

Leave(c) == /\ viewers' = viewers \ {c}
            /\ view' = [view EXCEPT ![c] = Nothing]
            /\ UNCHANGED <<stream, unrecorded, unframed>>

Next == \/ Prints
        \/ Miss
        \/ \E c \in Client : Join(c) \/ Leave(c)

Spec == Init /\ [][Next]_lsVars
===========================================================================
