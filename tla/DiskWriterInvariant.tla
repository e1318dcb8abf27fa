-------------------------- MODULE DiskWriterInvariant --------------------------
(***************************************************************************)
(* The inductive invariant behind the safety properties of DiskWriter.     *)
(*                                                                         *)
(* The argument follows a part of a chunk from the call that queues it to  *)
(* the file: it is "settled" at a position of the queue when performing    *)
(* the commands up to that position leaves it with the wanted content.     *)
(* Position 0 is the command in the writer thread's hand.                  *)
(***************************************************************************)
EXTENDS DiskWriter

IsOf(x, c) == x # Sentinel /\ x.chunk = c

\* Command x decides part p of chunk c, and decides that it becomes v.
Gives(x, c, p, v) ==
  /\ IsOf(x, c)
  /\ \/ x.op = "write" /\ x.n = p /\ v = x.by
     \/ x.op = "truncate" /\ x.n < p /\ v = Hole

Affects(x, c, p) ==
  /\ IsOf(x, c)
  /\ (x.op = "write" /\ x.n = p) \/ (x.op = "truncate" /\ x.n < p)

Keeps(x, c, p, v) == Affects(x, c, p) => Gives(x, c, p, v)

Settled(i, c, p, v) ==
  \/ \E j \in 1..i : /\ Gives(queue[j], c, p, v)
                     /\ \A k \in (j + 1)..i : Keeps(queue[k], c, p, v)
  \/ /\ \A k \in 1..i : Keeps(queue[k], c, p, v)
     /\ Gives(hand, c, p, v) \/ (disk[c][p] = v /\ Keeps(hand, c, p, v))

\* The first n parts of c are t's at position i, and nothing lies beyond them.
Whole(i, c, n, t) ==
  /\ \A p \in 1..n : Settled(i, c, p, t)
  /\ ~SizeKnown => \A p \in (n + 1)..NumParts : Settled(i, c, p, Hole)

\* The parts a fetch in progress has queued, when it may still queue its mark.
Active(t) == call[t].pc \in {"put", "orphan"} \/ (call[t].pc \in {"ready", "retry"} /\ ~stopped)

Promised(t) ==
  LET r == call[t]
  IN  /\ \A p \in 1..r.parts : p < r.next => Settled(Len(queue), r.chunk, p, t)
      /\ r.next = r.parts + 2 =>
           \A p \in (r.parts + 1)..NumParts : Settled(Len(queue), r.chunk, p, Hole)

-------------------------------------------------------------------------------
\* Well-formed fetches, and a hand that is empty exactly when nothing is performed.
Shape ==
  /\ (hand # Sentinel) <=> (thread = "work")
  /\ \A t \in Tasks : call[t].pc # "idle" =>
       /\ call[t].next <= MarkStep(call[t])
       /\ SizeKnown => call[t].parts = NumParts
       /\ call[t].pc = "orphan" => owner # "pool"

\* A chunk is in one task's hands, which is then the only one to command it.
Exclusive ==
  /\ \A c \in Chunks, t \in Tasks, u \in Tasks : Holds(t, c) /\ Holds(u, c) => t = u
  /\ \A c \in Chunks, t \in Tasks : Holds(t, c) => c \notin completed /\ ~Reported(c)
  /\ \A c \in Chunks : owner = "pool" /\ Reported(c) => c \in completed

\* The mark of a chunk is the last command about it.
MarkIsLast ==
  \A c \in Chunks :
    /\ IsOnDisk(c) => ~IsOf(hand, c) /\ \A i \in 1..Len(queue) : ~IsOf(queue[i], c)
    /\ IsMark(hand, c) => \A i \in 1..Len(queue) : ~IsOf(queue[i], c)
    /\ \A i \in 1..Len(queue) :
         IsMark(queue[i], c) => \A j \in (i + 1)..Len(queue) : ~IsOf(queue[j], c)

\* Every mark in the hand or the queue will be true when it is performed, and so
\* will the mark of every fetch that may still queue one.
MarksSettled ==
  /\ \A c \in Chunks : IsMark(hand, c) => Whole(0, c, hand.n, hand.by)
  /\ \A c \in Chunks, i \in 1..Len(queue) :
       IsMark(queue[i], c) => Whole(i, c, queue[i].n, queue[i].by)

PromisesKept == \A t \in Tasks : Active(t) => Promised(t)

\* A dead thread performs nothing more: what it leaves behind need not be true.
MarksWillHold == thread # "done" => MarksSettled /\ PromisesKept

Inductive ==
  TypeOK /\ Shape /\ Exclusive /\ MarkIsLast /\ MarksWillHold /\ MarkedIsWhole

\* Until the stop event is set the fetches are over before the sentinel is queued,
\* and the thread leaves nothing behind it.
OrderlyEnd ==
  ~stopped =>
    /\ owner \in {"pool", "stop", "join", "joined"}
    /\ owner # "pool" => \A t \in Tasks : call[t] = Idle
    /\ owner \in {"pool", "stop"} =>
         thread # "done" /\ \A i \in 1..Len(queue) : queue[i] # Sentinel
    /\ \A i \in 1..Len(queue) : queue[i] = Sentinel => i = Len(queue)
    /\ thread = "done" => queue = <<>>
    /\ \A t \in Tasks : call[t].pc # "orphan"

JoinIsSound == owner = "joined" /\ ~SlowDisk => thread = "done"
===============================================================================
