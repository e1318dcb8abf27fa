------------------------------ MODULE WorkerPool ------------------------------
(***************************************************************************)
(* The pool of download workers (worker_pool.py).                          *)
(*                                                                         *)
(* Workers, a fixed number per source, share one asyncio.PriorityQueue of  *)
(* (retry_time, chunk, retries).  A worker takes the first item, puts it   *)
(* back when its retry time has not come or its source is banned, and      *)
(* fetches it otherwise; a failed fetch bans the source and queues the     *)
(* chunk again until its retries are used up.  run() waits for the queue's *)
(* join() or the stop event, queues one sentinel per worker and waits for  *)
(* the workers, at most two seconds.                                       *)
(*                                                                         *)
(* All of it runs on one event loop: an action is what a coroutine does    *)
(* between two points where it may be suspended.                           *)
(***************************************************************************)
EXTENDS Naturals, FiniteSets

CONSTANTS
  Chunks,      \* the chunk indices of the file
  Sources,     \* the mirrors
  Workers,     \* the worker tasks
  SourceOf,    \* the source each worker downloads from
  MaxRetries   \* how often a chunk is queued again (5 in the code)

ASSUME WorkerPoolAssumption ==
  /\ IsFiniteSet(Chunks)
  /\ IsFiniteSet(Workers)
  /\ SourceOf \in [Workers -> Sources]
  /\ MaxRetries \in Nat

VARIABLES
  queue,       \* _chunk_queue: the chunk items in it
  sentinels,   \* _chunk_queue: how many stop sentinels are in it
  unfinished,  \* the queue's count of items got and not yet task_done
  worker,      \* worker[w]: where the task is, and the item it fetches
  banned,      \* the sources within their ban window
  completed,   \* _completed_set
  stop,        \* the asyncio stop event
  paused,      \* the pause event is cleared
  lastError,   \* _last_error is set
  phase,       \* where run() is
  result,      \* its answer, "none" until it is known
  userStopped  \* the stop event was set from outside the pool

vars == <<queue, sentinels, unfinished, worker, banned, completed, stop, paused,
          lastError, phase, result, userStopped>>

\* retries = 0: queued with retry time 0.0.  due: the retry time has come.
Items   == [chunk : Chunks, retries : 0..MaxRetries, due : BOOLEAN]
At(pc)  == [pc |-> pc]
Resting == {At(pc) : pc \in {"start", "top", "pause", "get", "nap", "exit"}}
Fetches == [pc : {"fetch"}, item : Items]

Fresh(c)   == [chunk |-> c, retries |-> 0, due |-> TRUE]
Fetching   == {w \in Workers : worker[w].pc = "fetch"}
Napping    == {w \in Workers : worker[w].pc = "nap"}
IsBanned(w) == SourceOf[w] \in banned
AllBanned  == Sources \subseteq banned

\* The order of the priority queue: retry time 0.0 first, then past retry times, then
\* those still to come.
Rank(x) == IF x.retries = 0 THEN 0 ELSE IF x.due THEN 1 ELSE 2
Earliest == {x \in queue : \A y \in queue : Rank(x) <= Rank(y)}

Init ==
  /\ \E resumed \in SUBSET Chunks :
       /\ completed = resumed
       /\ queue = {Fresh(c) : c \in Chunks \ resumed}
  /\ unfinished = Cardinality(queue)
  /\ sentinels = 0
  /\ worker = [w \in Workers |-> At("start")]
  /\ banned = {}
  /\ stop = FALSE /\ paused = FALSE /\ lastError = FALSE
  /\ phase = "wait" /\ result = "none"
  /\ userStopped = FALSE

Goto(w, pc) == worker' = [worker EXCEPT ![w] = At(pc)]

-------------------------------------------------------------------------------
\* The loop of a worker.

\* The staggered start, then the fetcher is made.
Start(w) ==
  /\ worker[w].pc = "start"
  /\ Goto(w, "top")
  /\ UNCHANGED <<queue, sentinels, unfinished, banned, completed, stop, paused,
                 lastError, phase, result, userStopped>>

CheckStop(w) ==
  /\ worker[w].pc = "top"
  /\ Goto(w, IF stop THEN "exit" ELSE "pause")
  /\ UNCHANGED <<queue, sentinels, unfinished, banned, completed, stop, paused,
                 lastError, phase, result, userStopped>>

PassPause(w) ==
  /\ worker[w].pc = "pause"
  /\ ~paused
  /\ Goto(w, "get")
  /\ UNCHANGED <<queue, sentinels, unfinished, banned, completed, stop, paused,
                 lastError, phase, result, userStopped>>

GetTimesOut(w) ==
  /\ worker[w].pc = "get"
  /\ sentinels = 0 /\ queue = {}
  /\ Goto(w, "top")
  /\ UNCHANGED <<queue, sentinels, unfinished, banned, completed, stop, paused,
                 lastError, phase, result, userStopped>>

\* The sentinel sorts before every chunk.
TakeSentinel(w) ==
  /\ worker[w].pc = "get"
  /\ sentinels > 0
  /\ sentinels' = sentinels - 1
  /\ unfinished' = unfinished - 1
  /\ Goto(w, "exit")
  /\ UNCHANGED <<queue, banned, completed, stop, paused, lastError, phase, result,
                 userStopped>>

\* Slip: the put is not counted.
PutBackUncounted(w, x) ==
  /\ worker[w].pc = "get"
  /\ sentinels = 0
  /\ x \in Earliest
  /\ ~x.due \/ (IsBanned(w) /\ ~AllBanned)
  /\ Goto(w, "nap")
  /\ UNCHANGED <<queue, sentinels, unfinished, banned, completed, stop, paused,
                 lastError, phase, result, userStopped>>

\* The item goes back and the worker sleeps before its task_done: the retry time has
\* not come, or the worker's source is banned and another is not.
PutBack(w, x) ==
  /\ worker[w].pc = "get"
  /\ sentinels = 0
  /\ x \in Earliest
  /\ ~x.due \/ (IsBanned(w) /\ ~AllBanned)
  /\ unfinished' = unfinished + 1
  /\ Goto(w, "nap")
  /\ UNCHANGED <<queue, sentinels, banned, completed, stop, paused, lastError, phase,
                 result, userStopped>>

\* Slip: giving up leaves the stop event alone.
GiveUpGoesOn(w, x) ==
  /\ worker[w].pc = "get"
  /\ sentinels = 0
  /\ x \in Earliest /\ x.due
  /\ IsBanned(w) /\ AllBanned
  /\ queue' = queue \ {x}
  /\ unfinished' = unfinished - 1
  /\ lastError' = TRUE
  /\ Goto(w, "exit")
  /\ UNCHANGED <<sentinels, banned, completed, stop, paused, phase, result, userStopped>>

\* Slip: giving up without a message.
GiveUpSilently(w, x) ==
  /\ worker[w].pc = "get"
  /\ sentinels = 0
  /\ x \in Earliest /\ x.due
  /\ IsBanned(w) /\ AllBanned
  /\ queue' = queue \ {x}
  /\ unfinished' = unfinished - 1
  /\ stop' = TRUE
  /\ Goto(w, "exit")
  /\ UNCHANGED <<sentinels, banned, completed, paused, lastError, phase, result,
                 userStopped>>

\* No source is left to take the item: the pool gives up, the item is gone.
GiveUp(w, x) ==
  /\ worker[w].pc = "get"
  /\ sentinels = 0
  /\ x \in Earliest /\ x.due
  /\ IsBanned(w) /\ AllBanned
  /\ queue' = queue \ {x}
  /\ unfinished' = unfinished - 1
  /\ lastError' = TRUE
  /\ stop' = TRUE
  /\ Goto(w, "exit")
  /\ UNCHANGED <<sentinels, banned, completed, paused, phase, result, userStopped>>

\* Slip: the chunk is added to the completed set before its fetch.
FetchAfterCompletion(w, x) ==
  /\ worker[w].pc = "get"
  /\ sentinels = 0
  /\ x \in Earliest /\ x.due
  /\ ~IsBanned(w)
  /\ queue' = queue \ {x}
  /\ completed' = completed \cup {x.chunk}
  /\ worker' = [worker EXCEPT ![w] = [pc |-> "fetch", item |-> x]]
  /\ UNCHANGED <<sentinels, unfinished, banned, stop, paused, lastError, phase, result,
                 userStopped>>

Fetch(w, x) ==
  /\ worker[w].pc = "get"
  /\ sentinels = 0
  /\ x \in Earliest /\ x.due
  /\ ~IsBanned(w)
  /\ queue' = queue \ {x}
  /\ worker' = [worker EXCEPT ![w] = [pc |-> "fetch", item |-> x]]
  /\ UNCHANGED <<sentinels, unfinished, banned, completed, stop, paused, lastError,
                 phase, result, userStopped>>

\* Slip: the continue after the sleep skips task_done.
NapEndsUncounted(w) ==
  /\ worker[w].pc = "nap"
  /\ Goto(w, "top")
  /\ UNCHANGED <<queue, sentinels, unfinished, banned, completed, stop, paused,
                 lastError, phase, result, userStopped>>

NapEnds(w) ==
  /\ worker[w].pc = "nap"
  /\ unfinished' = unfinished - 1
  /\ Goto(w, "top")
  /\ UNCHANGED <<queue, sentinels, banned, completed, stop, paused, lastError, phase,
                 result, userStopped>>

-------------------------------------------------------------------------------
\* The outcomes of a fetch (_process_chunk, _handle_chunk_failure).

FetchSucceeds(w) ==
  /\ worker[w].pc = "fetch"
  /\ completed' = completed \cup {worker[w].item.chunk}
  /\ unfinished' = unfinished - 1
  /\ Goto(w, "top")
  /\ UNCHANGED <<queue, sentinels, banned, stop, paused, lastError, phase, result,
                 userStopped>>

\* StoppedException: the chunk is dropped.
FetchStopped(w) ==
  /\ worker[w].pc = "fetch"
  /\ stop
  /\ unfinished' = unfinished - 1
  /\ Goto(w, "top")
  /\ UNCHANGED <<queue, sentinels, banned, completed, stop, paused, lastError, phase,
                 result, userStopped>>

\* What a failed fetch does; again: whether the chunk is queued once more.
Failure(w, again, count) ==
  LET x == worker[w].item
  IN  /\ worker[w].pc = "fetch"
      /\ banned' = banned \cup {SourceOf[w]}
      /\ IF ~stop /\ again
         THEN /\ queue' = queue \cup
                   {[chunk |-> x.chunk, retries |-> x.retries + 1, due |-> FALSE]}
              /\ unfinished' = count
              /\ UNCHANGED <<stop, lastError>>
         ELSE /\ unfinished' = unfinished - 1
              /\ stop' = TRUE
              /\ lastError' = (lastError \/ ~stop)
              /\ UNCHANGED queue
      /\ Goto(w, "top")
      /\ UNCHANGED <<sentinels, completed, paused, phase, result, userStopped>>

\* Slip: one retry too many.
FetchFailsOnceMore(w) == Failure(w, worker[w].item.retries <= MaxRetries, unfinished)

\* Slip: task_done without the count of the put.
FetchFailsUncounted(w) == Failure(w, worker[w].item.retries < MaxRetries, unfinished - 1)

\* The put of the chunk comes before the task_done of the failed attempt.
FetchFails(w) == Failure(w, worker[w].item.retries < MaxRetries, unfinished)

-------------------------------------------------------------------------------
\* Time: a backoff is over, a ban window ends.

Elapse(x) ==
  /\ x \in queue /\ ~x.due
  /\ queue' = (queue \ {x}) \cup {[x EXCEPT !.due = TRUE]}
  /\ UNCHANGED <<sentinels, unfinished, worker, banned, completed, stop, paused,
                 lastError, phase, result, userStopped>>

BanEnds(s) ==
  /\ s \in banned
  /\ banned' = banned \ {s}
  /\ UNCHANGED <<queue, sentinels, unfinished, worker, completed, stop, paused,
                 lastError, phase, result, userStopped>>

-------------------------------------------------------------------------------
\* run(): the answer is taken when the wait ends; then one sentinel per worker.

Drain(answer) ==
  /\ phase = "wait"
  /\ result' = answer
  /\ phase' = "drain"
  /\ sentinels' = sentinels + Cardinality(Workers)
  /\ unfinished' = unfinished + Cardinality(Workers)
  /\ UNCHANGED <<queue, worker, banned, completed, paused, lastError, userStopped>>

\* Slip: the answer does not look at the stop event.
JoinedIgnoresStop ==
  /\ unfinished = 0
  /\ Drain("true")
  /\ UNCHANGED stop

Joined ==
  /\ unfinished = 0
  /\ Drain(IF stop THEN "false" ELSE "true")
  /\ UNCHANGED stop

Stopped ==
  /\ stop
  /\ Drain("false")
  /\ UNCHANGED stop

RunCancelled ==
  /\ Drain("cancelled")
  /\ stop' = TRUE

AllExit ==
  /\ phase = "drain"
  /\ \A w \in Workers : worker[w].pc = "exit"
  /\ phase' = "done"
  /\ UNCHANGED <<queue, sentinels, unfinished, worker, banned, completed, stop, paused,
                 lastError, result, userStopped>>

\* What is still running is cancelled; the finally clause of a worker that holds an item
\* still counts it as done.
Abandon ==
  /\ phase = "drain"
  /\ \E w \in Workers : worker[w].pc # "exit"
  /\ phase' = "done"
  /\ worker' = [w \in Workers |-> At("exit")]
  /\ unfinished' = unfinished - Cardinality(Fetching \cup Napping)
  /\ UNCHANGED <<queue, sentinels, banned, completed, stop, paused, lastError, userStopped>>

DrainTimesOut == Abandon /\ UNCHANGED result

DrainCancelled == Abandon /\ result' = "cancelled"

-------------------------------------------------------------------------------
\* The user, through the downloader: stop and cancel also set the pause event.

UserStop ==
  /\ phase = "wait" /\ ~userStopped
  /\ stop' = TRUE /\ paused' = FALSE /\ userStopped' = TRUE
  /\ UNCHANGED <<queue, sentinels, unfinished, worker, banned, completed, lastError,
                 phase, result>>

UserPauses ==
  /\ phase = "wait" /\ ~userStopped
  /\ paused' = ~paused
  /\ UNCHANGED <<queue, sentinels, unfinished, worker, banned, completed, stop,
                 lastError, phase, result, userStopped>>

-------------------------------------------------------------------------------
Work(w) ==
  \/ Start(w) \/ CheckStop(w) \/ PassPause(w) \/ GetTimesOut(w) \/ TakeSentinel(w)
  \/ NapEnds(w)
  \/ \E x \in queue : PutBack(w, x) \/ GiveUp(w, x) \/ Fetch(w, x)

Outcome(w) == FetchSucceeds(w) \/ FetchStopped(w) \/ FetchFails(w)

RunStep == Joined \/ Stopped \/ AllExit \/ DrainTimesOut

Finished == phase = "done" /\ UNCHANGED vars

Next ==
  \/ \E w \in Workers : Work(w) \/ Outcome(w)
  \/ \E x \in queue : Elapse(x)
  \/ \E s \in Sources : BanEnds(s)
  \/ RunStep \/ RunCancelled \/ DrainCancelled
  \/ UserStop \/ UserPauses
  \/ Finished

Spec == Init /\ [][Next]_vars

\* The loop runs every task that can go on, every sleep and ban ends, every fetch ends one
\* way or the other (its socket timeouts see to that).
Fairness ==
  /\ \A w \in Workers : WF_vars(Work(w)) /\ WF_vars(Outcome(w))
  /\ \A c \in Chunks : WF_vars(\E x \in queue : x.chunk = c /\ Elapse(x))
  /\ \A s \in Sources : WF_vars(BanEnds(s))
  /\ WF_vars(RunStep)

FairSpec == Spec /\ Fairness

-------------------------------------------------------------------------------
\* Every variable keeps to its type; a chunk is never queued beyond its last retry.
TypeOK ==
  /\ queue \subseteq Items
  /\ sentinels \in Nat /\ unfinished \in Nat
  /\ worker \in [Workers -> Resting \cup Fetches]
  /\ banned \subseteq Sources
  /\ completed \subseteq Chunks
  /\ stop \in BOOLEAN /\ paused \in BOOLEAN /\ lastError \in BOOLEAN
  /\ phase \in {"wait", "drain", "done"}
  /\ result \in {"none", "true", "false", "cancelled"}
  /\ userStopped \in BOOLEAN

Queued(c) == \E x \in queue : x.chunk = c
HeldBy(w, c) == worker[w].pc = "fetch" /\ worker[w].item.chunk = c

\* A chunk is in one place: completed, queued once, or fetched by one worker.  Retries,
\* bans and put-backs never make a second copy of it.
OnePlace ==
  \A c \in Chunks :
    /\ c \in completed => ~Queued(c) /\ \A w \in Workers : ~HeldBy(w, c)
    /\ \A w \in Workers : HeldBy(w, c) =>
         ~Queued(c) /\ \A v \in Workers : HeldBy(v, c) => v = w
    /\ \A x \in queue, y \in queue : x.chunk = c /\ y.chunk = c => x = y

\* And it is in some place, as long as nobody has stopped the pool: a chunk is dropped
\* only after the stop event is set.
NoChunkLost ==
  ~stop => \A c \in Chunks :
             c \in completed \/ Queued(c) \/ \E w \in Workers : HeldBy(w, c)

\* The queue's count of unfinished items is what is queued or in a worker's hands, so
\* join() fires neither early nor never (task_done once per get, put before task_done).
CountIsExact ==
  unfinished = Cardinality(queue) + sentinels + Cardinality(Fetching) + Cardinality(Napping)

\* run() answers True only when every chunk is completed.
TrueMeansAll == result = "true" => completed = Chunks

\* A run that gave up of its own accord says why.
GivingUpHasAReason == result = "false" => userStopped \/ lastError

\* Unless the user pauses the download for ever, run() returns.
RunReturns == <>[]~paused => <>(phase = "done")

\* WorkerPool does what ChunkPool promises.
Pool == INSTANCE ChunkPool WITH
          Chunks <- Chunks, completed <- completed, result <- result
PoolSpec == Pool!Spec
================================================================================
