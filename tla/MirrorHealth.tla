----------------------------- MODULE MirrorHealth -----------------------------
(***************************************************************************)
(* The bans of the mirrors (mirror_health.py).  A ban is kept as the time  *)
(* it still lasts.                                                         *)
(***************************************************************************)
EXTENDS Naturals, FiniteSets

CONSTANTS
  Sources,     \* the mirrors
  SlowBan,     \* 120 s: a slow mirror, or 429 without a usable Retry-After
  FailBan,     \* 60 s: every other failure
  RetryAfter   \* the values of Retry-After a mirror may send

VARIABLE ban   \* for each mirror the time until the end of its ban

IsBanned(s) == ban[s] > 0

ActiveCount(S) == Cardinality({s \in S : ~IsBanned(s)})

InitHealth == ban = [s \in Sources |-> 0]

Bans(why) ==
  CASE why = "slow"    -> {SlowBan}
    [] why = "refused" -> RetryAfter \cup {SlowBan}
    [] OTHER           -> {FailBan}

\* The new end replaces the old one, even when it is earlier.
RecordFailure(s, why) == \E d \in Bans(why) : ban' = [ban EXCEPT ![s] = d]

TickHealth == ban' = [s \in Sources |-> IF ban[s] > 0 THEN ban[s] - 1 ELSE 0]
===============================================================================
