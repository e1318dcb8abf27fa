------------------------------- MODULE MCSession -------------------------------
(* Bounded instances of Session for TLC. *)
EXTENDS Session, TLC

\* Two servers with and without ranges; the file changes between sessions.
Changing == [safe |-> FALSE, tags |-> TRUE, power |-> FALSE, overwrite |-> FALSE,
             mmap |-> FALSE, stops |-> FALSE, serves |-> {"ranges", "plain", "dead"}]

\* The power may fail, and saves are synced.
Failing == [Changing EXCEPT !.safe = TRUE, !.power = TRUE, !.serves = {"ranges"}]

\* The destination may be overwritten, and stops may end the writer.
Overwriting == [Changing EXCEPT !.overwrite = TRUE, !.stops = TRUE, !.serves = {"ranges"}]

\* The file is mapped unless the mirrors have no ranges.
Mapping == [Changing EXCEPT !.mmap = TRUE, !.serves = {"ranges", "plain"}]

All == {Changing, Failing, Overwriting, Mapping}

\* A server with ranges and a process that may die.
Crashing == {[Changing EXCEPT !.serves = {"ranges"}]}

\* No definition tells one mirror from another.
Symmetry == Permutations(Mirrors)
================================================================================
