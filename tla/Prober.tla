-------------------------------- MODULE Prober --------------------------------
(***************************************************************************)
(* probe() of MirrorProber (prober.py): all mirrors are asked at once, the *)
(* answers are taken in the order in which they come.  The first mirror    *)
(* that supports ranges ends it; the first of the others is kept for the   *)
(* case that there is none.                                                *)
(***************************************************************************)
CONSTANTS
  Mirrors,     \* the URLs
  None         \* no mirror

VARIABLES
  serves,      \* what each mirror does: "ranges" (206), "plain" (200), "dead"
  out,         \* the mirrors whose probe is under way
  fallback,    \* fallback_result, by its mirror
  answered,    \* history: the mirrors with a usable answer
  found        \* "no" until the probe ends, then "ranges", "plain" or "missing"

proberVars == <<serves, out, fallback, answered, found>>

\* Slip: the first usable answer ends the probe.
BestFirst(m, answer) ==
  IF answer # "dead" THEN answer
  ELSE IF out = {m} THEN "missing" ELSE "no"

\* What the probe has come to with the answer of m.
Best(m, answer) ==
  IF answer = "ranges" THEN "ranges"
  ELSE IF out # {m} THEN "no"
  ELSE IF answer = "plain" \/ fallback # None THEN "plain" ELSE "missing"

Asks(how) ==
  /\ serves' = how
  /\ out' = Mirrors /\ fallback' = None /\ answered' = {} /\ found' = "no"

\* A probe ends, with an answer or by its timeout; an answer with ranges cancels the others.
ProbeEnds(m) ==
  /\ m \in out
  /\ \E answer \in {serves[m], "dead"} :
       /\ found' = Best(m, answer)
       /\ out' = IF found' = "ranges" THEN {} ELSE out \ {m}
       /\ fallback' = IF answer = "plain" /\ fallback = None THEN m ELSE fallback
       /\ answered' = IF answer = "dead" THEN answered ELSE answered \cup {m}
  /\ UNCHANGED serves

\* Ranges are given up only when every mirror was heard and none of them has any; the file
\* is missing only when nobody answered (probe).
BestAnswerWins ==
  /\ found = "plain" => \A m \in answered : serves[m] = "plain"
  /\ found \in {"plain", "missing"} => out = {}
  /\ found = "missing" <=> found # "no" /\ answered = {}
================================================================================
