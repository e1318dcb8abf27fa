--------------------------------- MODULE Sums ---------------------------------
(* Sums of functions into the naturals, as the number of what they count. *)
EXTENDS Naturals, FiniteSets

\* One element for each unit.
Heap(f) == UNION {{x} \X (1..f[x]) : x \in DOMAIN f}

Sum(f) == Cardinality(Heap(f))
===============================================================================
