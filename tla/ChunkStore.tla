------------------------------ MODULE ChunkStore ------------------------------
(***************************************************************************)
(* What a disk writer promises to the rest of mrdl, whatever queues and    *)
(* threads it is made of.  The destination file holds chunks, a chunk is   *)
(* the sequence of the parts its fetch flushed.  The hasher and the        *)
(* progress file rely on two things only:                                  *)
(*                                                                         *)
(*   - a chunk is reported as on disk (is_on_disk) only when every part of *)
(*     it is in the file, all of them from the one fetch that reported it, *)
(*     and, in a file of unknown size, nothing lies beyond them;           *)
(*   - once a chunk is reported, no later write or truncation touches it.  *)
(***************************************************************************)
EXTENDS Naturals

CONSTANTS
  Chunks,     \* the chunk indices of the file
  NumParts,   \* the most parts (flushes of the fetch buffer) of one chunk
  Tasks,      \* the fetching worker tasks, one mirror each
  Earlier,    \* the origin of what an earlier session wrote
  Hole        \* the content of a part nobody has written yet

Parts   == 1..NumParts
Origins == Tasks \cup {Earlier}

VARIABLES
  disk,       \* disk[c][p]: who wrote part p of chunk c, or Hole
  marked,     \* the reports: chunk, number of its parts, and their origin
  known       \* the size of the file is known beforehand; never changes

vars == <<disk, marked, known>>

Marks == [chunk : Chunks, parts : Parts, by : Origins]

IsOnDisk(c) == \E m \in marked : m.chunk = c

\* The chunks of an earlier session's progress file are taken to be in the file.
Init ==
  /\ known \in BOOLEAN
  /\ \E resumed \in SUBSET Chunks :
       /\ disk = [c \in Chunks |->
                    [p \in Parts |-> IF c \in resumed THEN Earlier ELSE Hole]]
       /\ marked = {[chunk |-> c, parts |-> NumParts, by |-> Earlier] : c \in resumed}

Store(c, p, t) ==
  /\ ~IsOnDisk(c)
  /\ disk' = [disk EXCEPT ![c][p] = t]
  /\ UNCHANGED <<marked, known>>

Cut(c, n) ==
  /\ ~IsOnDisk(c)
  /\ disk' = [disk EXCEPT ![c] = [p \in Parts |-> IF p > n THEN Hole ELSE disk[c][p]]]
  /\ UNCHANGED <<marked, known>>

Report(c, n, t) ==
  /\ ~IsOnDisk(c)
  /\ \A p \in 1..n : disk[c][p] = t
  /\ ~known => \A p \in (n + 1)..NumParts : disk[c][p] = Hole
  /\ marked' = marked \cup {[chunk |-> c, parts |-> n, by |-> t]}
  /\ UNCHANGED <<disk, known>>

\* What may happen to one chunk.
StepOf(c) ==
  \E n \in Parts :
    \/ \E t \in Tasks : Store(c, n, t) \/ Report(c, n, t)
    \/ Cut(c, n)

Next == \E c \in Chunks : StepOf(c)

Spec == Init /\ [][Next]_vars
===============================================================================
