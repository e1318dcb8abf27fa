------------------------------- MODULE MCFetcher -------------------------------
(* Bounded instances of Fetcher for TLC. *)
EXTENDS Fetcher, TLC

CONSTANTS t1, t2, s1, s2

\* Two mirrors, of which one sends more than it is asked for.
Ranged == [size |-> 5, told |-> 5, ranges |-> TRUE, chunk |-> 3, window |-> 2, mmap |-> FALSE,
           lingers |-> FALSE, rate |-> 0, rates |-> {}, minimum |-> 0, faults |-> 1,
           source |-> (t1 :> s1) @@ (t2 :> s2), kind |-> (s1 :> "exact") @@ (s2 :> "generous")]

\* A limit of one unit per tick, which the user changes.
Limited == [Ranged EXCEPT !.size = 4, !.told = 4, !.chunk = 2, !.mmap = TRUE,
                          !.rate = 1, !.rates = {0, 1, 2}]

\* A minimum speed, behind the same limit.
Enforced == [Ranged EXCEPT !.size = 2, !.told = 2, !.chunk = 1, !.window = 1, !.rate = 1,
                           !.minimum = 1]
Lingering == [Enforced EXCEPT !.lingers = TRUE]

\* One of the mirrors does not know ranges.
Mixed == [Ranged EXCEPT !.size = 4, !.told = 4, !.chunk = 2,
                        !.kind = (s1 :> "exact") @@ (s2 :> "plain")]

\* No ranges: one task, one chunk.
Whole == [Ranged EXCEPT !.size = 4, !.told = 4, !.chunk = 4, !.ranges = FALSE, !.faults = 2]

\* The length is not known, or told by a response only.
Unknown == [Whole EXCEPT !.told = 0]

\* The same file, beyond the chunk size it falls back to.
Long == [Unknown EXCEPT !.chunk = 2]

All == {Ranged, Limited, Enforced, Lingering, Mixed, Whole, Unknown, Long}
================================================================================
