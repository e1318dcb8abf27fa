------------------------------ MODULE MCProgress -------------------------------
(* Bounded instances of Progress for TLC. *)
EXTENDS Progress, TLC

CONSTANTS loop, user

\* One thread sets the bars up, updates them and closes the display, the other reports too,
\* and logs.
Divided == (loop :> {"add", "start", "update", "close"}) @@
           (user :> {"update", "overlay", "barLog", "log"})

Few == (loop :> 1) @@ (user :> 2)
================================================================================
