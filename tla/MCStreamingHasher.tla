-------------------------- MODULE MCStreamingHasher --------------------------
(* Bounded instances of StreamingHasher for TLC. *)
EXTENDS StreamingHasher, TLC
================================================================================
