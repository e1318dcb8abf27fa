----------------------------- MODULE MCDownloader -----------------------------
(* Bounded instances of Downloader for TLC. *)
EXTENDS Downloader, TLC

Symmetry == Permutations(Chunks)
================================================================================
