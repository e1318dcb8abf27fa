------------------------------- MODULE ChunkPool -------------------------------
(***************************************************************************)
(* What WorkerPool.run promises its caller, whatever the sources do: it    *)
(* returns True only when every chunk is in the completed set, the set     *)
(* only grows, and the answer is given once.                               *)
(***************************************************************************)
CONSTANT Chunks

VARIABLES
  completed,   \* the completed set the caller shares with the pool
  result       \* the value of run(), "none" until it is known

vars == <<completed, result>>

Init == completed \in SUBSET Chunks /\ result = "none"

Complete(c) == completed' = completed \cup {c} /\ UNCHANGED result

Succeed ==
  /\ result = "none"
  /\ completed = Chunks
  /\ result' = "true"
  /\ UNCHANGED completed

GiveUp ==
  /\ result = "none"
  /\ result' \in {"false", "cancelled"}
  /\ UNCHANGED completed

\* A second cancellation while run() waits for its workers.
Cancelled == result' = "cancelled" /\ UNCHANGED completed

Next == (\E c \in Chunks : Complete(c)) \/ Succeed \/ GiveUp \/ Cancelled

Spec == Init /\ [][Next]_vars
================================================================================
