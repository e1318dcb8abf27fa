------------------------------ MODULE TokenBucket ------------------------------
(***************************************************************************)
(* The rate limiter (throttle.py) in integer time.  A tick is the unit of  *)
(* time, a rate is tokens per tick.  A consumer takes its tokens at once,  *)
(* into debt if need be, and then sleeps until the debt of that moment is  *)
(* worked off.  Nothing awaits inside the asyncio lock, so consume() is    *)
(* one step up to its sleep.                                               *)
(***************************************************************************)
EXTENDS Integers, Sums

CONSTANTS
  Consumers,   \* the tasks that call consume()
  Burst        \* burst_seconds, in ticks

VARIABLES
  rate,        \* _rate_bps, 0 for None
  tokens,      \* _tokens at the last refill
  since,       \* time since the last refill, as far as it matters
  sleep,       \* for each consumer the sleep it is in
  credit,      \* history: what an honest limiter may still let pass
  lowered      \* history: the rate was lowered while somebody slept

bucketVars == <<rate, tokens, since, sleep, credit, lowered>>

Awake == [bytes |-> 0, owed |-> 0, pace |-> 0, slept |-> 0]

Asleep(c) == sleep[c] # Awake
AnyAsleep == \E c \in Consumers : Asleep(c)

\* asyncio.sleep never ends early; it may end late.
Due(c) == sleep[c].slept * sleep[c].pace >= sleep[c].owed

Least(a, b) == IF a < b THEN a ELSE b
Capacity(r) == r * Burst
Waiting == Sum([c \in Consumers |-> sleep[c].bytes])

\* What _refill makes of the tokens.
Accrued == IF rate = 0 THEN tokens ELSE Least(Capacity(rate), tokens + since * rate)

InitBucket(r) ==
  /\ rate = r /\ tokens = Capacity(r) /\ since = 0
  /\ sleep = [c \in Consumers |-> Awake]
  /\ credit = Capacity(r) /\ lowered = FALSE

\* Slip: a debt is forgiven at the next call.
TakesForgiving(n) == (IF Accrued < 0 THEN 0 ELSE Accrued) - n

\* What is left when n tokens are taken.
Takes(n) == Accrued - n

Consume(c, n) ==
  /\ UNCHANGED <<rate, lowered>>
  /\ IF rate = 0 \/ n = 0 THEN UNCHANGED <<tokens, since, sleep, credit>>
     ELSE /\ tokens' = Takes(n) /\ since' = 0
          /\ IF Takes(n) < 0
             THEN /\ sleep' = [sleep EXCEPT ![c] = [bytes |-> n, owed |-> -Takes(n),
                                                   pace |-> rate, slept |-> 0]]
                  /\ UNCHANGED credit
             ELSE /\ credit' = credit - n
                  /\ UNCHANGED sleep

Wake(c) ==
  /\ Asleep(c) /\ Due(c)
  /\ sleep' = [sleep EXCEPT ![c] = Awake]
  /\ credit' = IF rate = 0 THEN credit ELSE credit - sleep[c].bytes
  /\ UNCHANGED <<rate, tokens, since, lowered>>

\* update_rate, which does not take the lock: sleepers go on sleeping as they were.
UpdateRate(r) ==
  /\ rate' = r /\ since' = 0
  /\ tokens' = IF r = 0 THEN Accrued
               ELSE IF rate = 0 THEN Capacity(r)
               ELSE Least(Accrued, Capacity(r))
  /\ credit' = IF r = 0 THEN 0
               ELSE IF rate = 0 THEN Capacity(r) + Waiting
               ELSE Least(credit, Capacity(r) + Waiting)
  /\ lowered' = (lowered \/ (0 < r /\ r < rate /\ AnyAsleep))
  /\ UNCHANGED sleep

TickBucket ==
  /\ since' = IF rate # 0 /\ tokens + since * rate < Capacity(rate) THEN since + 1 ELSE since
  /\ sleep' = [c \in Consumers |->
                 IF Due(c) THEN sleep[c] ELSE [sleep[c] EXCEPT !.slept = @ + 1]]
  /\ credit' = IF rate = 0 THEN 0 ELSE Least(credit + rate, Capacity(rate) + Waiting)
  /\ UNCHANGED <<rate, tokens, lowered>>

\* In every stretch of time the consumers get no more than the burst, what the rate allows
\* for that time, and what was waiting already when the rate was set.
NothingForFree == rate = 0 \/ lowered \/ credit >= 0
================================================================================
