--------------------------- MODULE WorkerPoolProofs ---------------------------
(***************************************************************************)
(* Proofs about WorkerPool, for any finite numbers of chunks and workers,  *)
(* any sources and any number of retries.                                  *)
(***************************************************************************)
EXTENDS WorkerPool, FiniteSetTheorems, TLAPS

\* The types, the queue a finite one, the count that keeps unfinished a natural number.
Counted == TypeOK /\ IsFiniteSet(queue) /\ CountIsExact

\* A chunk is lost only to the stop event, and there is none to lose once run() has
\* stopped waiting without it.
Kept == NoChunkLost /\ (phase # "wait" /\ ~stop => completed = Chunks)

\* The answer is there from the end of the wait on, and the stop event has its reasons.
Answered ==
  /\ phase = "wait" <=> result = "none"
  /\ TrueMeansAll
  /\ stop => userStopped \/ lastError \/ result = "cancelled"
  /\ GivingUpHasAReason

PoolInv == Counted /\ OnePlace /\ Kept /\ Answered

-------------------------------------------------------------------------------
\* Counting.

LEMMA WorkersCounted ==
  /\ IsFiniteSet(Fetching) /\ IsFiniteSet(Napping)
  /\ Cardinality(Fetching) \in Nat /\ Cardinality(Napping) \in Nat
<1>1. Fetching \in SUBSET Workers /\ Napping \in SUBSET Workers BY DEF Fetching, Napping
<1>2. IsFiniteSet(Fetching) /\ IsFiniteSet(Napping)
  BY <1>1, FS_Subset, WorkerPoolAssumption
<1> QED BY <1>2, FS_CardinalityType

\* How the sets of fetching and of napping workers change when one worker moves.
LEMMA WorkerMoves ==
  ASSUME NEW w \in Workers, NEW v, worker'[w] = v,
         \A u \in Workers : u # w => worker'[u] = worker[u]
  PROVE  /\ Fetching' = IF v.pc = "fetch" THEN Fetching \cup {w} ELSE Fetching \ {w}
         /\ Napping' = IF v.pc = "nap" THEN Napping \cup {w} ELSE Napping \ {w}
  BY DEF Fetching, Napping

LEMMA MoveCounted ==
  ASSUME NEW w \in Workers, NEW v, worker'[w] = v,
         \A u \in Workers : u # w => worker'[u] = worker[u]
  PROVE  /\ Cardinality(Fetching)' = (IF v.pc = "fetch" THEN 1 ELSE 0)
              + (IF worker[w].pc = "fetch" THEN Cardinality(Fetching) - 1
                                           ELSE Cardinality(Fetching))
         /\ Cardinality(Napping)' = (IF v.pc = "nap" THEN 1 ELSE 0)
              + (IF worker[w].pc = "nap" THEN Cardinality(Napping) - 1
                                         ELSE Cardinality(Napping))
<1>1. PICK F : F = Fetching OBVIOUS
<1>2. PICK N : N = Napping OBVIOUS
<1>3. /\ IsFiniteSet(F) /\ IsFiniteSet(N)
      /\ Cardinality(F) \in Nat /\ Cardinality(N) \in Nat
  BY <1>1, <1>2, WorkersCounted
<1>4. /\ Cardinality(F \cup {w}) = IF w \in F THEN Cardinality(F) ELSE Cardinality(F) + 1
      /\ Cardinality(N \cup {w}) = IF w \in N THEN Cardinality(N) ELSE Cardinality(N) + 1
  BY <1>3, FS_AddElement
<1>5. /\ Cardinality(F \ {w}) = IF w \in F THEN Cardinality(F) - 1 ELSE Cardinality(F)
      /\ Cardinality(N \ {w}) = IF w \in N THEN Cardinality(N) - 1 ELSE Cardinality(N)
  BY <1>3, FS_RemoveElement
<1>6. (w \in F <=> worker[w].pc = "fetch") /\ (w \in N <=> worker[w].pc = "nap")
  BY <1>1, <1>2 DEF Fetching, Napping
<1>7. /\ Fetching' = IF v.pc = "fetch" THEN F \cup {w} ELSE F \ {w}
      /\ Napping' = IF v.pc = "nap" THEN N \cup {w} ELSE N \ {w}
  BY <1>1, <1>2, WorkerMoves
<1>8. Cardinality(Fetching') = (IF v.pc = "fetch" THEN 1 ELSE 0)
        + (IF worker[w].pc = "fetch" THEN Cardinality(F) - 1 ELSE Cardinality(F))
  BY <1>3, <1>4, <1>5, <1>6, <1>7
<1>9. Cardinality(Napping') = (IF v.pc = "nap" THEN 1 ELSE 0)
        + (IF worker[w].pc = "nap" THEN Cardinality(N) - 1 ELSE Cardinality(N))
  BY <1>3, <1>4, <1>5, <1>6, <1>7
<1> QED BY <1>1, <1>2, <1>8, <1>9

\* A worker that fetches or sleeps is counted.
LEMMA HoldersCounted ==
  ASSUME NEW w \in Workers
  PROVE  /\ worker[w].pc = "fetch" => Cardinality(Fetching) >= 1
         /\ worker[w].pc = "nap" => Cardinality(Napping) >= 1
<1>1. worker[w].pc = "fetch" => Fetching # {} BY DEF Fetching
<1>2. worker[w].pc = "nap" => Napping # {} BY DEF Napping
<1> QED BY <1>1, <1>2, WorkersCounted, FS_EmptySet

LEMMA OneLess ==
  ASSUME NEW q, IsFiniteSet(q), NEW x \in q
  PROVE  /\ IsFiniteSet(q \ {x})
         /\ Cardinality(q) \in Nat /\ Cardinality(q) >= 1
         /\ Cardinality(q \ {x}) = Cardinality(q) - 1
<1>1. IsFiniteSet(q \ {x}) /\ Cardinality(q \ {x}) = Cardinality(q) - 1 BY FS_RemoveElement
<1>2. Cardinality(q) \in Nat /\ Cardinality(q \ {x}) \in Nat BY <1>1, FS_CardinalityType
<1> QED BY <1>1, <1>2

LEMMA OneMore ==
  ASSUME NEW q, IsFiniteSet(q), NEW x, x \notin q
  PROVE  /\ IsFiniteSet(q \cup {x})
         /\ Cardinality(q \cup {x}) = Cardinality(q) + 1
BY FS_AddElement

-------------------------------------------------------------------------------
\* Types and the count, action by action.

LEMMA CountedInit == Init => Counted
<1> SUFFICES ASSUME Init PROVE Counted OBVIOUS
<1>1. PICK resumed \in SUBSET Chunks :
        completed = resumed /\ queue = {Fresh(c) : c \in Chunks \ resumed}
  BY DEF Init
<1>2. IsFiniteSet(queue)
  <2> DEFINE S == Chunks \ resumed
  <2> DEFINE f == [c \in S |-> Fresh(c)]
  <2>1. IsFiniteSet(S) BY FS_Subset, WorkerPoolAssumption
  <2>2. f \in Surjection(S, queue) BY <1>1 DEF Surjection
  <2> QED BY <2>1, <2>2, FS_Surjection
<1>3. Cardinality(queue) \in Nat BY <1>2, FS_CardinalityType
<1>4. \A w \in Workers : worker[w] = At("start") BY DEF Init
<1>5. Fetching = {} /\ Napping = {} BY <1>4 DEF Fetching, Napping, At
<1>6. CountIsExact BY <1>3, <1>5, FS_EmptySet DEF CountIsExact, Init
<1>7. queue \subseteq Items
  <2>1. 0 \in 0..MaxRetries BY WorkerPoolAssumption
  <2>2. \A c \in Chunks : Fresh(c) \in Items BY <2>1 DEF Items, Fresh
  <2> QED BY <1>1, <2>2
<1>8. TypeOK BY <1>1, <1>3, <1>7 DEF TypeOK, Init, Resting
<1> QED BY <1>2, <1>6, <1>8 DEF Counted

LEMMA CountedWork ==
  ASSUME Counted, NEW w \in Workers, Work(w)
  PROVE  Counted'
<1>1. PICK q : q = Cardinality(queue) OBVIOUS
<1>2. PICK f : f = Cardinality(Fetching) OBVIOUS
<1>3. PICK n : n = Cardinality(Napping) OBVIOUS
<1>4. /\ q \in Nat /\ f \in Nat /\ n \in Nat
      /\ unfinished = q + sentinels + f + n
      /\ worker[w].pc = "nap" => n >= 1
  BY <1>1, <1>2, <1>3, FS_CardinalityType, WorkersCounted, HoldersCounted
  DEF Counted, CountIsExact
<1>typed. worker \in [Workers -> Resting \cup Fetches] BY DEF Counted, TypeOK
<1>5. ASSUME NEW pc \in {"top", "pause", "get", "exit"}, Goto(w, pc)
      PROVE  /\ worker' \in [Workers -> Resting \cup Fetches]
             /\ worker[w].pc \notin {"fetch", "nap"} =>
                  Cardinality(Fetching)' = f /\ Cardinality(Napping)' = n
             /\ worker[w].pc = "nap" =>
                  Cardinality(Fetching)' = f /\ Cardinality(Napping)' = n - 1
  <2>1. At(pc) \in Resting \cup Fetches /\ At(pc).pc = pc BY DEF At, Resting
  <2>2. worker' = [worker EXCEPT ![w] = At(pc)] BY <1>5 DEF Goto
  <2>4. worker' \in [Workers -> Resting \cup Fetches] BY <1>typed, <2>1, <2>2
  <2>moved. worker'[w] = At(pc) /\ \A u \in Workers : u # w => worker'[u] = worker[u]
    BY <1>typed, <2>2
  <2>5. /\ Cardinality(Fetching)' = IF worker[w].pc = "fetch" THEN f - 1 ELSE f
        /\ Cardinality(Napping)' = IF worker[w].pc = "nap" THEN n - 1 ELSE n
    BY <1>2, <1>3, <1>4, <2>1, <2>2, <2>moved, MoveCounted
  <2> QED BY <1>4, <2>4, <2>5
<1>6. CASE Start(w) \/ CheckStop(w) \/ PassPause(w) \/ GetTimesOut(w)
  <2>1. /\ \E pc \in {"top", "pause", "get", "exit"} : Goto(w, pc)
        /\ worker[w].pc \notin {"fetch", "nap"}
    BY <1>6 DEF Start, CheckStop, PassPause, GetTimesOut
  <2>2. UNCHANGED <<queue, sentinels, unfinished, banned, completed, stop, paused,
                    lastError, phase, result, userStopped>>
    BY <1>6 DEF Start, CheckStop, PassPause, GetTimesOut
  <2> QED BY <1>1, <1>4, <1>5, <2>1, <2>2 DEF Counted, TypeOK, CountIsExact
<1>7. CASE TakeSentinel(w)
  <2>1. Goto(w, "exit") /\ worker[w].pc \notin {"fetch", "nap"} BY <1>7 DEF TakeSentinel
  <2>2. sentinels' \in Nat /\ unfinished' \in Nat
    BY <1>4, <1>7 DEF TakeSentinel, Counted, TypeOK
  <2> QED BY <1>1, <1>4, <1>5, <1>7, <2>1, <2>2
      DEF Counted, TypeOK, CountIsExact, TakeSentinel
<1>8. CASE NapEnds(w)
  <2>1. Goto(w, "top") /\ worker[w].pc = "nap" BY <1>8 DEF NapEnds
  <2>2. unfinished' \in Nat BY <1>4, <1>8, <2>1 DEF NapEnds, Counted, TypeOK
  <2> QED BY <1>1, <1>4, <1>5, <1>8, <2>1, <2>2 DEF Counted, TypeOK, CountIsExact, NapEnds
<1>9. ASSUME NEW x \in queue, PutBack(w, x) PROVE Counted'
  <2>1. worker' = [worker EXCEPT ![w] = At("nap")] /\ worker[w].pc = "get"
    BY <1>9 DEF PutBack, Goto
  <2>2. At("nap") \in Resting \cup Fetches /\ At("nap").pc = "nap" BY DEF At, Resting
  <2>moved. worker'[w] = At("nap") /\ \A u \in Workers : u # w => worker'[u] = worker[u]
    BY <1>typed, <2>1
  <2>3. Cardinality(Fetching)' = f /\ Cardinality(Napping)' = n + 1
    BY <1>2, <1>3, <1>4, <2>1, <2>2, <2>moved, MoveCounted
  <2> QED BY <1>1, <1>4, <1>9, <2>1, <2>2, <2>3 DEF Counted, TypeOK, CountIsExact, PutBack
<1>10. ASSUME NEW x \in queue, GiveUp(w, x) PROVE Counted'
  <2>1. Goto(w, "exit") /\ worker[w].pc = "get" BY <1>10 DEF GiveUp
  <2>2. queue' = queue \ {x} BY <1>10 DEF GiveUp
  <2>3. IsFiniteSet(queue') /\ Cardinality(queue') = q - 1 /\ q >= 1
    BY <1>1, <2>2, OneLess DEF Counted
  <2>4. unfinished' \in Nat BY <1>4, <1>10, <2>3 DEF GiveUp, Counted, TypeOK
  <2> QED BY <1>4, <1>5, <1>10, <2>1, <2>2, <2>3, <2>4
      DEF Counted, TypeOK, CountIsExact, GiveUp
<1>11. ASSUME NEW x \in queue, Fetch(w, x) PROVE Counted'
  <2> DEFINE v == [pc |-> "fetch", item |-> x]
  <2>1. worker' = [worker EXCEPT ![w] = v] /\ worker[w].pc = "get" BY <1>11 DEF Fetch
  <2>2. v \in Resting \cup Fetches /\ v.pc = "fetch" BY DEF Fetches, Counted, TypeOK
  <2>moved. worker'[w] = v /\ \A u \in Workers : u # w => worker'[u] = worker[u]
    BY <1>typed, <2>1
  <2>3. Cardinality(Fetching)' = f + 1 /\ Cardinality(Napping)' = n
    BY <1>2, <1>3, <1>4, <2>1, <2>2, <2>moved, MoveCounted
  <2>4. queue' = queue \ {x} BY <1>11 DEF Fetch
  <2>5. IsFiniteSet(queue') /\ Cardinality(queue') = q - 1 /\ q >= 1
    BY <1>1, <2>4, OneLess DEF Counted
  <2> QED BY <1>4, <1>11, <2>1, <2>2, <2>3, <2>4, <2>5 DEF Counted, TypeOK, CountIsExact, Fetch
<1> QED BY <1>6, <1>7, <1>8, <1>9, <1>10, <1>11 DEF Work

LEMMA CountedOutcome ==
  ASSUME Counted, OnePlace, NEW w \in Workers, Outcome(w)
  PROVE  Counted'
<1>1. PICK q : q = Cardinality(queue) OBVIOUS
<1>2. PICK f : f = Cardinality(Fetching) OBVIOUS
<1>3. PICK n : n = Cardinality(Napping) OBVIOUS
<1>4. worker[w].pc = "fetch" /\ Goto(w, "top")
  BY DEF Outcome, FetchSucceeds, FetchStopped, FetchFails, Failure
<1>5. /\ q \in Nat /\ f \in Nat /\ n \in Nat /\ f >= 1
      /\ unfinished = q + sentinels + f + n
  BY <1>1, <1>2, <1>3, <1>4, FS_CardinalityType, WorkersCounted, HoldersCounted
  DEF Counted, CountIsExact
<1>6. /\ worker \in [Workers -> Resting \cup Fetches]
      /\ At("top") \in Resting \cup Fetches /\ At("top").pc = "top"
  BY DEF Counted, TypeOK, At, Resting
<1>7. /\ worker' \in [Workers -> Resting \cup Fetches]
      /\ worker'[w] = At("top") /\ \A u \in Workers : u # w => worker'[u] = worker[u]
  BY <1>4, <1>6 DEF Goto
<1>8. Cardinality(Fetching)' = f - 1 /\ Cardinality(Napping)' = n
  BY <1>2, <1>3, <1>4, <1>5, <1>6, <1>7, MoveCounted
<1>9. worker[w].item \in Items
  BY <1>4, <1>6 DEF Resting, At, Fetches
<1>10. CASE FetchSucceeds(w)
  <2>1. completed' \subseteq Chunks BY <1>9, <1>10 DEF FetchSucceeds, Counted, TypeOK, Items
  <2>2. unfinished' \in Nat BY <1>5, <1>10 DEF FetchSucceeds, Counted, TypeOK
  <2> QED BY <1>1, <1>5, <1>7, <1>8, <1>10, <2>1, <2>2
      DEF Counted, TypeOK, CountIsExact, FetchSucceeds
<1>11. CASE FetchStopped(w)
  <2>1. unfinished' \in Nat BY <1>5, <1>11 DEF FetchStopped, Counted, TypeOK
  <2> QED BY <1>1, <1>5, <1>7, <1>8, <1>11, <2>1 DEF Counted, TypeOK, CountIsExact, FetchStopped
<1>12. CASE FetchFails(w)
  <2>1. /\ banned' \subseteq Sources
        /\ UNCHANGED <<sentinels, completed, paused, phase, result, userStopped>>
    BY <1>12, WorkerPoolAssumption DEF FetchFails, Failure, Counted, TypeOK
  <2>2. CASE ~stop /\ worker[w].item.retries < MaxRetries
    <3> DEFINE x == worker[w].item
    <3> DEFINE y == [chunk |-> x.chunk, retries |-> x.retries + 1, due |-> FALSE]
    <3>1. queue' = queue \cup {y} /\ unfinished' = unfinished /\ UNCHANGED <<stop, lastError>>
      BY <1>12, <2>2 DEF FetchFails, Failure
    <3>2. x.retries + 1 \in 0..MaxRetries BY <1>9, <2>2, WorkerPoolAssumption DEF Items
    <3>3. y \in Items BY <1>9, <3>2 DEF Items
    <3>4. y \notin queue
      <4>1. x.chunk \in Chunks BY <1>9 DEF Items
      <4>2. HeldBy(w, x.chunk) BY <1>4 DEF HeldBy
      <4>3. ~Queued(x.chunk) BY <4>1, <4>2 DEF OnePlace
      <4>4. y.chunk = x.chunk OBVIOUS
      <4> HIDE DEF x, y
      <4> QED BY <4>3, <4>4 DEF Queued
    <3>5. IsFiniteSet(queue') /\ Cardinality(queue') = q + 1
      BY <1>1, <3>1, <3>4, OneMore DEF Counted
    <3>6. queue' \subseteq Items BY <3>1, <3>3 DEF Counted, TypeOK
    <3> HIDE DEF x, y
    <3>7. CountIsExact' /\ unfinished' \in Nat
      BY <1>5, <1>8, <2>1, <3>1, <3>5 DEF Counted, TypeOK, CountIsExact
    <3> QED BY <1>7, <2>1, <3>1, <3>5, <3>6, <3>7 DEF Counted, TypeOK
  <2>3. CASE ~(~stop /\ worker[w].item.retries < MaxRetries)
    <3>1. /\ unfinished' = unfinished - 1 /\ stop' = TRUE /\ lastError' \in BOOLEAN
          /\ UNCHANGED queue
      BY <1>12, <2>3 DEF FetchFails, Failure, Counted, TypeOK
    <3>2. unfinished' \in Nat BY <1>5, <3>1 DEF Counted, TypeOK
    <3> QED BY <1>1, <1>5, <1>7, <1>8, <2>1, <3>1, <3>2 DEF Counted, TypeOK, CountIsExact
  <2> QED BY <2>2, <2>3
<1> QED BY <1>10, <1>11, <1>12 DEF Outcome

\* What time, run() and the user do; the workers stay where they are, or all are ended.
LEMMA CountedRest ==
  ASSUME Counted, OnePlace,
         \/ \E x \in queue : Elapse(x)
         \/ \E s \in Sources : BanEnds(s)
         \/ RunStep \/ RunCancelled \/ DrainCancelled \/ UserStop \/ UserPauses
  PROVE  Counted'
<1>1. PICK q : q = Cardinality(queue) OBVIOUS
<1>2. PICK f : f = Cardinality(Fetching) OBVIOUS
<1>3. PICK n : n = Cardinality(Napping) OBVIOUS
<1>4. /\ q \in Nat /\ f \in Nat /\ n \in Nat
      /\ unfinished = q + sentinels + f + n
  BY <1>1, <1>2, <1>3, FS_CardinalityType, WorkersCounted DEF Counted, CountIsExact
<1>5. UNCHANGED worker => Cardinality(Fetching)' = f /\ Cardinality(Napping)' = n
  BY <1>2, <1>3 DEF Fetching, Napping
<1>6. ASSUME NEW x \in queue, Elapse(x) PROVE Counted'
  <2> DEFINE y == [x EXCEPT !.due = TRUE]
  <2>1. queue' = (queue \ {x}) \cup {y} /\ ~x.due BY <1>6 DEF Elapse
  <2>2. x \in Items BY DEF Counted, TypeOK
  <2>3. y \in Items /\ y.chunk = x.chunk /\ y.due /\ x.chunk \in Chunks
    BY <2>2 DEF Items
  <2>4. y \notin queue \ {x} BY <2>1, <2>3 DEF OnePlace
  <2>5. IsFiniteSet(queue \ {x}) /\ Cardinality(queue \ {x}) = q - 1
    BY <1>1, OneLess DEF Counted
  <2> HIDE DEF y
  <2>6. IsFiniteSet(queue') /\ Cardinality(queue') = q
    <3>1. PICK rest : rest = queue \ {x} OBVIOUS
    <3>2. Cardinality(rest \cup {y}) = Cardinality(rest) + 1 /\ IsFiniteSet(rest \cup {y})
      BY <2>4, <2>5, <3>1, OneMore
    <3> QED BY <1>4, <2>1, <2>5, <3>1, <3>2
  <2> QED BY <1>4, <1>5, <1>6, <2>1, <2>3, <2>6 DEF Counted, TypeOK, CountIsExact, Elapse
<1>7. ASSUME NEW answer \in {"true", "false", "cancelled"}, Drain(answer), stop' \in BOOLEAN
      PROVE  Counted'
  <2>1. Cardinality(Workers) \in Nat BY FS_CardinalityType, WorkerPoolAssumption
  <2> QED BY <1>1, <1>4, <1>5, <1>7, <2>1 DEF Counted, TypeOK, CountIsExact, Drain
<1>8. CASE Joined \/ Stopped \/ RunCancelled
  <2>1. \E answer \in {"true", "false", "cancelled"} : Drain(answer)
    BY <1>8 DEF Joined, Stopped, RunCancelled
  <2>2. stop' \in BOOLEAN BY <1>8 DEF Joined, Stopped, RunCancelled, Counted, TypeOK
  <2> QED BY <1>7, <2>1, <2>2
<1>9. CASE AllExit \/ UserStop \/ UserPauses \/ \E s \in Sources : BanEnds(s)
  <2>1. UNCHANGED <<queue, sentinels, unfinished, worker>>
    BY <1>9 DEF AllExit, UserStop, UserPauses, BanEnds
  <2>2. TypeOK' BY <1>9 DEF Counted, TypeOK, AllExit, UserStop, UserPauses, BanEnds
  <2> QED BY <1>1, <1>4, <1>5, <2>1, <2>2 DEF Counted, CountIsExact
<1>10. CASE DrainTimesOut \/ DrainCancelled
  <2>1. Abandon /\ result' \in {"none", "true", "false", "cancelled"}
    BY <1>10 DEF DrainTimesOut, DrainCancelled, Counted, TypeOK
  <2>2. \A w \in Workers : worker'[w].pc = "exit" BY <2>1 DEF Abandon, At
  <2>3. Fetching' = {} /\ Napping' = {} BY <2>2 DEF Fetching, Napping
  <2>4. Cardinality(Fetching \cup Napping) = f + n
    <3>1. PICK F : F = Fetching OBVIOUS
    <3>2. PICK N : N = Napping OBVIOUS
    <3>3. F \cap N = {} BY <3>1, <3>2 DEF Fetching, Napping
    <3>4. IsFiniteSet(F) /\ IsFiniteSet(N) BY <3>1, <3>2, WorkersCounted
    <3>5. Cardinality(F \cup N) = Cardinality(F) + Cardinality(N) - Cardinality(F \cap N)
      BY <3>4, FS_Union
    <3>6. Cardinality(F \cap N) = 0 BY <3>3, FS_EmptySet
    <3> QED BY <1>2, <1>3, <1>4, <3>1, <3>2, <3>5, <3>6
  <2>5. worker' \in [Workers -> Resting \cup Fetches] BY <2>1 DEF Abandon, Resting
  <2>6. unfinished' = q + sentinels BY <1>4, <2>1, <2>4 DEF Abandon, Counted, TypeOK
  <2>7. Cardinality(Fetching)' = 0 /\ Cardinality(Napping)' = 0 BY <2>3, FS_EmptySet
  <2> QED BY <1>1, <1>4, <2>1, <2>5, <2>6, <2>7 DEF Counted, TypeOK, CountIsExact, Abandon
<1> QED BY <1>6, <1>8, <1>9, <1>10 DEF RunStep

LEMMA CountedStep ==
  ASSUME Counted, OnePlace, [Next]_vars
  PROVE  Counted'
<1>1. CASE UNCHANGED vars
  <2>1. UNCHANGED <<queue, sentinels, unfinished, worker>> BY <1>1 DEF vars
  <2>2. Fetching' = Fetching /\ Napping' = Napping BY <2>1 DEF Fetching, Napping
  <2> QED BY <1>1, <2>1, <2>2 DEF vars, Counted, TypeOK, CountIsExact
<1> QED BY <1>1, CountedWork, CountedOutcome, CountedRest DEF Next, Finished

-------------------------------------------------------------------------------
\* Where the chunks are.

\* A worker that goes to another place than a fetch holds nothing there.
LEMMA Released ==
  ASSUME TypeOK, NEW w \in Workers, NEW pc, pc # "fetch", Goto(w, pc)
  PROVE  \A u \in Workers : \A c : HeldBy(u, c)' <=> u # w /\ HeldBy(u, c)
<1>1. worker'[w] = At(pc) /\ \A u \in Workers : u # w => worker'[u] = worker[u]
  BY DEF TypeOK, Goto
<1>2. At(pc).pc # "fetch" BY DEF At
<1> QED BY <1>1, <1>2 DEF HeldBy

LEMMA OnePlaceInit == Init => OnePlace
<1> SUFFICES ASSUME Init PROVE OnePlace OBVIOUS
<1>1. \A w \in Workers : \A c : ~HeldBy(w, c) BY DEF Init, HeldBy, At
<1>2. \A c : Queued(c) => c \notin completed BY DEF Init, Queued, Fresh
<1>3. \A x \in queue : x = Fresh(x.chunk) BY DEF Init, Fresh
<1> QED BY <1>1, <1>2, <1>3 DEF OnePlace

LEMMA OnePlaceWork ==
  ASSUME TypeOK, OnePlace, NEW w \in Workers, Work(w)
  PROVE  OnePlace'
<1>1. ASSUME NEW pc, pc # "fetch", Goto(w, pc), queue' \subseteq queue, UNCHANGED completed
      PROVE  OnePlace'
  <2>1. \A u \in Workers : \A c : HeldBy(u, c)' => HeldBy(u, c) BY <1>1, Released
  <2>2. \A c : Queued(c)' => Queued(c) BY <1>1 DEF Queued
  <2> QED BY <1>1, <2>1, <2>2 DEF OnePlace
<1>2. CASE Start(w) \/ CheckStop(w) \/ PassPause(w) \/ GetTimesOut(w)
  <2>1. \E pc \in {"top", "pause", "get", "exit"} : Goto(w, pc)
    BY <1>2 DEF Start, CheckStop, PassPause, GetTimesOut
  <2>2. UNCHANGED <<queue, completed>>
    BY <1>2 DEF Start, CheckStop, PassPause, GetTimesOut
  <2> QED BY <1>1, <2>1, <2>2
<1>3. CASE TakeSentinel(w) \/ NapEnds(w) \/ \E x \in queue : PutBack(w, x) \/ GiveUp(w, x)
  <2>1. \E pc \in {"top", "exit", "nap"} : Goto(w, pc)
    BY <1>3 DEF TakeSentinel, NapEnds, PutBack, GiveUp
  <2>2. queue' \subseteq queue /\ completed' = completed
    BY <1>3 DEF TakeSentinel, NapEnds, PutBack, GiveUp
  <2> QED BY <1>1, <2>1, <2>2
<1>4. ASSUME NEW x \in queue, Fetch(w, x) PROVE OnePlace'
  <2>1. queue' = queue \ {x} /\ completed' = completed BY <1>4 DEF Fetch
  <2>2. \A u \in Workers : \A c :
          HeldBy(u, c)' <=> IF u = w THEN c = x.chunk ELSE HeldBy(u, c)
    BY <1>4 DEF Fetch, TypeOK, HeldBy
  <2>3. \A c : Queued(c)' => Queued(c) BY <2>1 DEF Queued
  <2>4. x.chunk \in Chunks /\ Queued(x.chunk) BY DEF TypeOK, Items, Queued
  <2>5. x.chunk \notin completed /\ ~Queued(x.chunk)' BY <2>1, <2>4 DEF OnePlace, Queued
  <2>6. \A u \in Workers : ~HeldBy(u, x.chunk) BY <2>4 DEF OnePlace
  <2> QED BY <2>1, <2>2, <2>3, <2>5, <2>6 DEF OnePlace
<1> QED BY <1>2, <1>3, <1>4 DEF Work

LEMMA OnePlaceOutcome ==
  ASSUME TypeOK, OnePlace, NEW w \in Workers, Outcome(w)
  PROVE  OnePlace'
<1>1. worker[w].pc = "fetch" /\ Goto(w, "top")
  BY DEF Outcome, FetchSucceeds, FetchStopped, FetchFails, Failure
<1>2. PICK d : d = worker[w].item.chunk OBVIOUS
<1>3. worker[w].item \in Items BY <1>1 DEF TypeOK, Resting, At, Fetches
<1>4. d \in Chunks /\ HeldBy(w, d) BY <1>1, <1>2, <1>3 DEF Items, HeldBy
<1>5. \A u \in Workers : \A c : HeldBy(u, c)' <=> u # w /\ HeldBy(u, c) BY <1>1, Released
<1>6. /\ d \notin completed /\ ~Queued(d)
      /\ \A u \in Workers : ~HeldBy(u, d)'
  BY <1>4, <1>5 DEF OnePlace
<1>7. CASE queue' = queue /\ completed' \subseteq completed \cup {d}
  <2>1. \A c : Queued(c)' <=> Queued(c) BY <1>7 DEF Queued
  <2> QED BY <1>5, <1>6, <1>7, <2>1 DEF OnePlace
<1>8. ASSUME NEW y, y.chunk = d, queue' = queue \cup {y}, completed' = completed
      PROVE  OnePlace'
  <2>1. \A c : Queued(c)' <=> Queued(c) \/ c = d BY <1>8 DEF Queued
  <2>2. ASSUME NEW c \in Chunks, NEW a \in queue', NEW b \in queue', a.chunk = c, b.chunk = c
        PROVE  a = b
    BY <1>6, <1>8, <2>2 DEF OnePlace, Queued
  <2> QED BY <1>5, <1>6, <1>8, <2>1, <2>2 DEF OnePlace
<1>9. CASE FetchSucceeds(w) \/ FetchStopped(w)
  BY <1>2, <1>7, <1>9 DEF FetchSucceeds, FetchStopped
<1>10. CASE FetchFails(w)
  <2>1. completed' = completed BY <1>10 DEF FetchFails, Failure
  <2>2. \/ queue' = queue
        \/ queue' = queue \cup {[chunk |-> d, retries |-> worker[w].item.retries + 1,
                                 due |-> FALSE]}
    BY <1>2, <1>10 DEF FetchFails, Failure
  <2> QED BY <1>7, <1>8, <2>1, <2>2
<1> QED BY <1>9, <1>10 DEF Outcome

LEMMA OnePlaceStep ==
  ASSUME TypeOK, OnePlace, [Next]_vars
  PROVE  OnePlace'
<1>1. ASSUME UNCHANGED <<queue, completed>>,
             \A u \in Workers : \A c : HeldBy(u, c)' => HeldBy(u, c)
      PROVE  OnePlace'
  <2>1. \A c : Queued(c)' <=> Queued(c) BY <1>1 DEF Queued
  <2> QED BY <1>1, <2>1 DEF OnePlace
<1>2. ASSUME NEW x \in queue, Elapse(x) PROVE OnePlace'
  <2> DEFINE y == [x EXCEPT !.due = TRUE]
  <2>1. queue' = (queue \ {x}) \cup {y} /\ UNCHANGED <<worker, completed>>
    BY <1>2 DEF Elapse
  <2>2. y.chunk = x.chunk /\ x.chunk \in Chunks BY DEF TypeOK, Items
  <2>3. \A u \in Workers : \A c : HeldBy(u, c)' <=> HeldBy(u, c) BY <2>1 DEF HeldBy
  <2> HIDE DEF y
  <2>4. \A c : Queued(c)' <=> Queued(c) BY <2>1, <2>2 DEF Queued
  <2>5. ASSUME NEW c \in Chunks, NEW a \in queue', NEW b \in queue', a.chunk = c, b.chunk = c
        PROVE  a = b
    BY <2>1, <2>2, <2>5 DEF OnePlace
  <2> QED BY <2>1, <2>3, <2>4, <2>5 DEF OnePlace
<1>3. CASE RunStep \/ RunCancelled \/ DrainCancelled
  <2>1. UNCHANGED <<queue, completed>>
    BY <1>3 DEF RunStep, Joined, Stopped, Drain, AllExit, DrainTimesOut, RunCancelled,
                DrainCancelled, Abandon
  <2>2. worker' = worker \/ \A u \in Workers : worker'[u] = At("exit")
    BY <1>3 DEF RunStep, Joined, Stopped, Drain, AllExit, DrainTimesOut, RunCancelled,
                DrainCancelled, Abandon
  <2> QED BY <1>1, <2>1, <2>2 DEF HeldBy, At
<1>4. CASE UserStop \/ UserPauses \/ (\E s \in Sources : BanEnds(s)) \/ UNCHANGED vars
  <2>1. UNCHANGED <<queue, completed, worker>>
    BY <1>4 DEF UserStop, UserPauses, BanEnds, vars
  <2> QED BY <1>1, <2>1 DEF HeldBy
<1> QED BY <1>2, <1>3, <1>4, OnePlaceWork, OnePlaceOutcome DEF Next, Finished

LEMMA KeptInit == Init => Kept
<1> SUFFICES ASSUME Init PROVE Kept OBVIOUS
<1>1. ASSUME NEW c \in Chunks, c \notin completed PROVE Queued(c)
  <2>1. Fresh(c) \in queue /\ Fresh(c).chunk = c BY <1>1 DEF Init, Fresh
  <2> QED BY <2>1 DEF Queued
<1> QED BY <1>1 DEF Kept, NoChunkLost, Init

\* When nothing is unfinished, every chunk that is not lost is completed.
LEMMA JoinedHasAll ==
  ASSUME Counted, NoChunkLost, ~stop, unfinished = 0
  PROVE  completed = Chunks
<1>1. PICK q : q = Cardinality(queue) OBVIOUS
<1>2. PICK f : f = Cardinality(Fetching) OBVIOUS
<1>3. PICK n : n = Cardinality(Napping) OBVIOUS
<1>4. q \in Nat /\ f \in Nat /\ n \in Nat /\ sentinels \in Nat /\ 0 = q + sentinels + f + n
  BY <1>1, <1>2, <1>3, FS_CardinalityType, WorkersCounted DEF Counted, CountIsExact, TypeOK
<1>5. queue = {} /\ Fetching = {}
  <2>1. q = 0 /\ f = 0 BY <1>4
  <2>2. queue = {} BY <1>1, <2>1, FS_EmptySet DEF Counted
  <2>3. Fetching = {} BY <1>2, <2>1, FS_EmptySet, WorkersCounted
  <2> QED BY <2>2, <2>3
<1>6. \A c : ~Queued(c) /\ \A w \in Workers : ~HeldBy(w, c)
  BY <1>5 DEF Queued, HeldBy, Fetching
<1> QED BY <1>6 DEF NoChunkLost, Counted, TypeOK

LEMMA KeptWorker ==
  ASSUME Counted, Kept, NEW w \in Workers, Work(w) \/ Outcome(w), Counted'
  PROVE  Kept'
<1> SUFFICES ASSUME ~stop' PROVE Kept' BY DEF Kept, NoChunkLost
<1>1. TypeOK /\ TypeOK' BY DEF Counted
<1>2. phase' = phase /\ ~stop /\ completed \subseteq completed'
  BY DEF Work, Outcome, Start, CheckStop, PassPause, GetTimesOut, TakeSentinel, NapEnds,
         PutBack, GiveUp, Fetch, FetchSucceeds, FetchStopped, FetchFails, Failure
<1>3. phase' # "wait" => completed' = Chunks BY <1>1, <1>2 DEF Kept, TypeOK
<1>4. \A c \in Chunks : c \in completed \/ Queued(c) \/ \E u \in Workers : HeldBy(u, c)
  BY <1>2 DEF Kept, NoChunkLost
<1>5. ASSUME NEW pc, pc # "fetch", Goto(w, pc), worker[w].pc # "fetch", UNCHANGED queue
      PROVE  NoChunkLost'
  <2>1. \A u \in Workers : \A c : HeldBy(u, c) => HeldBy(u, c)'
    BY <1>1, <1>5, Released DEF HeldBy
  <2>2. \A c : Queued(c)' <=> Queued(c) BY <1>5 DEF Queued
  <2> QED BY <1>2, <1>4, <2>1, <2>2 DEF NoChunkLost
<1>6. CASE Start(w) \/ CheckStop(w) \/ PassPause(w) \/ GetTimesOut(w)
           \/ TakeSentinel(w) \/ NapEnds(w) \/ \E x \in queue : PutBack(w, x)
  <2>1. \E pc \in {"top", "pause", "get", "exit", "nap"} : Goto(w, pc)
    BY <1>6 DEF Start, CheckStop, PassPause, GetTimesOut, TakeSentinel, NapEnds, PutBack
  <2>2. UNCHANGED queue /\ worker[w].pc # "fetch"
    BY <1>6 DEF Start, CheckStop, PassPause, GetTimesOut, TakeSentinel, NapEnds, PutBack
  <2> QED BY <1>3, <1>5, <2>1, <2>2 DEF Kept
<1>7. CASE \E x \in queue : GiveUp(w, x) BY <1>7 DEF GiveUp
<1>8. ASSUME NEW x \in queue, Fetch(w, x) PROVE Kept'
  <2>1. queue' = queue \ {x} /\ worker[w].pc = "get" BY <1>8 DEF Fetch
  <2>2. \A u \in Workers : \A c :
          HeldBy(u, c)' <=> IF u = w THEN c = x.chunk ELSE HeldBy(u, c)
    BY <1>1, <1>8 DEF Fetch, TypeOK, HeldBy
  <2>3. \A c : Queued(c) => Queued(c)' \/ HeldBy(w, c)' BY <2>1, <2>2 DEF Queued
  <2>4. \A u \in Workers : \A c : HeldBy(u, c) => HeldBy(u, c)' BY <2>1, <2>2 DEF HeldBy
  <2> QED BY <1>2, <1>3, <1>4, <2>3, <2>4 DEF Kept, NoChunkLost
<1>9. CASE Outcome(w)
  <2>1. PICK d : d = worker[w].item.chunk OBVIOUS
  <2>2. Goto(w, "top")
    BY <1>9 DEF Outcome, FetchSucceeds, FetchStopped, FetchFails, Failure
  <2>3. \A u \in Workers : \A c : HeldBy(u, c) => HeldBy(u, c)' \/ c = d
    BY <1>1, <2>1, <2>2, Released DEF HeldBy
  <2>4. queue \subseteq queue' /\ (d \in completed' \/ Queued(d)')
    <3>1. CASE FetchSucceeds(w) BY <2>1, <3>1 DEF FetchSucceeds
    <3>2. CASE FetchStopped(w) BY <1>2, <3>2 DEF FetchStopped
    <3>3. CASE FetchFails(w)
      <4> DEFINE y == [chunk |-> d, retries |-> worker[w].item.retries + 1, due |-> FALSE]
      <4>1. y \in queue' /\ queue \subseteq queue' BY <2>1, <3>3 DEF FetchFails, Failure
      <4>2. y.chunk = d OBVIOUS
      <4> HIDE DEF y
      <4> QED BY <4>1, <4>2 DEF Queued
    <3> QED BY <1>9, <3>1, <3>2, <3>3 DEF Outcome
  <2>5. \A c : Queued(c) => Queued(c)' BY <2>4 DEF Queued
  <2> QED BY <1>2, <1>3, <1>4, <2>3, <2>4, <2>5 DEF Kept, NoChunkLost
<1> QED BY <1>6, <1>7, <1>8, <1>9 DEF Work

LEMMA KeptStep ==
  ASSUME Counted, Kept, [Next]_vars, Counted'
  PROVE  Kept'
<1>1. ASSUME UNCHANGED <<queue, worker, completed>>, stop => stop', phase' # "wait" => phase # "wait"
      PROVE  Kept'
  <2>1. \A c : (Queued(c)' <=> Queued(c)) /\ \A w \in Workers : HeldBy(w, c)' <=> HeldBy(w, c)
    BY <1>1 DEF Queued, HeldBy
  <2> QED BY <1>1, <2>1 DEF Kept, NoChunkLost
<1>2. ASSUME NEW x \in queue, Elapse(x) PROVE Kept'
  <2> DEFINE y == [x EXCEPT !.due = TRUE]
  <2>1. /\ queue' = (queue \ {x}) \cup {y}
        /\ UNCHANGED <<worker, completed, stop, phase>>
    BY <1>2 DEF Elapse
  <2>2. y.chunk = x.chunk BY DEF Counted, TypeOK, Items
  <2> HIDE DEF y
  <2>3. \A c : (Queued(c)' <=> Queued(c)) /\ \A w \in Workers : HeldBy(w, c)' <=> HeldBy(w, c)
    BY <2>1, <2>2 DEF Queued, HeldBy
  <2> QED BY <2>1, <2>3 DEF Kept, NoChunkLost
<1>3. ASSUME completed' = Chunks \/ stop' PROVE Kept' BY <1>3 DEF Kept, NoChunkLost
<1>4. CASE Joined
  <2>1. stop' = stop /\ completed' = completed /\ unfinished = 0 BY <1>4 DEF Joined, Drain
  <2> QED BY <1>3, <2>1, JoinedHasAll DEF Kept
<1>5. CASE Stopped \/ RunCancelled BY <1>3, <1>5 DEF Stopped, RunCancelled
<1>6. CASE AllExit \/ DrainTimesOut \/ DrainCancelled
  <2>1. phase = "drain" /\ UNCHANGED <<stop, completed>>
    BY <1>6 DEF AllExit, DrainTimesOut, DrainCancelled, Abandon
  <2> QED BY <1>3, <2>1 DEF Kept
<1>7. CASE UserStop \/ UserPauses \/ (\E s \in Sources : BanEnds(s)) \/ UNCHANGED vars
  <2>1. UNCHANGED <<queue, worker, completed, phase>> /\ (stop => stop')
    BY <1>7 DEF UserStop, UserPauses, BanEnds, vars
  <2> QED BY <1>1, <2>1
<1> QED BY <1>2, <1>4, <1>5, <1>6, <1>7, KeptWorker DEF Next, RunStep, Finished

-------------------------------------------------------------------------------
\* The answer.

LEMMA AnsweredInit == Init => Answered
BY DEF Init, Answered, TrueMeansAll, GivingUpHasAReason

LEMMA AnsweredStep ==
  ASSUME Counted, Kept, Answered, [Next]_vars, Counted'
  PROVE  Answered'
<1>1. stop \in BOOLEAN /\ lastError \in BOOLEAN /\ userStopped \in BOOLEAN
  BY DEF Counted, TypeOK
<1>2. ASSUME UNCHANGED <<phase, result>>, completed \subseteq completed',
             userStopped => userStopped', lastError => lastError',
             stop' => stop \/ userStopped' \/ lastError'
      PROVE  Answered'
  <2>1. completed' \subseteq Chunks BY DEF Counted, TypeOK
  <2> QED BY <1>2, <2>1 DEF Answered, TrueMeansAll, GivingUpHasAReason
<1>3. ASSUME NEW w \in Workers, Work(w) PROVE Answered'
  <2>1. /\ UNCHANGED <<phase, result, completed, userStopped>>
        /\ UNCHANGED <<lastError, stop>> \/ lastError'
    BY <1>3 DEF Work, Start, CheckStop, PassPause, GetTimesOut, TakeSentinel, NapEnds, PutBack,
                GiveUp, Fetch
  <2> QED BY <1>2, <2>1
<1>4. ASSUME NEW w \in Workers, Outcome(w) PROVE Answered'
  <2>1. UNCHANGED <<phase, result, userStopped>> /\ completed \subseteq completed'
    BY <1>4 DEF Outcome, FetchSucceeds, FetchStopped, FetchFails, Failure
  <2>2. CASE UNCHANGED <<lastError, stop>> BY <1>2, <2>1, <2>2
  <2>3. CASE stop' = TRUE /\ lastError' = (lastError \/ ~stop)
    <3>1. lastError => lastError' BY <1>1, <2>3
    <3>2. stop \/ lastError' BY <1>1, <2>3
    <3> QED BY <1>2, <2>1, <3>1, <3>2
  <2>4. \/ UNCHANGED <<lastError, stop>>
        \/ stop' = TRUE /\ lastError' = (lastError \/ ~stop)
    BY <1>4 DEF Outcome, FetchSucceeds, FetchStopped, FetchFails, Failure
  <2> QED BY <2>2, <2>3, <2>4
<1>5. CASE (\E x \in queue : Elapse(x)) \/ (\E s \in Sources : BanEnds(s))
           \/ UserStop \/ UserPauses \/ UNCHANGED vars
  <2>1. /\ UNCHANGED <<phase, result, completed, lastError>>
        /\ UNCHANGED <<userStopped, stop>> \/ userStopped'
    BY <1>5 DEF Elapse, BanEnds, UserStop, UserPauses, vars
  <2> QED BY <1>2, <2>1
<1>6. CASE Joined
  <2>1. /\ phase = "wait" /\ phase' = "drain" /\ unfinished = 0
        /\ result' = IF stop THEN "false" ELSE "true"
        /\ UNCHANGED <<completed, stop, lastError, userStopped>>
    BY <1>6 DEF Joined, Drain
  <2>2. ~stop => completed = Chunks BY <2>1, JoinedHasAll DEF Kept
  <2> QED BY <2>1, <2>2 DEF Answered, TrueMeansAll, GivingUpHasAReason
<1>7. CASE Stopped
  <2>1. /\ phase = "wait" /\ phase' = "drain" /\ stop /\ result' = "false"
        /\ UNCHANGED <<stop, lastError, userStopped>>
    BY <1>7 DEF Stopped, Drain
  <2> QED BY <2>1 DEF Answered, TrueMeansAll, GivingUpHasAReason
<1>8. CASE RunCancelled \/ DrainCancelled
  <2>1. result' = "cancelled" /\ phase' # "wait"
    BY <1>8 DEF RunCancelled, DrainCancelled, Drain, Abandon
  <2> QED BY <2>1 DEF Answered, TrueMeansAll, GivingUpHasAReason
<1>9. CASE AllExit \/ DrainTimesOut
  <2>1. /\ phase = "drain" /\ phase' = "done"
        /\ UNCHANGED <<completed, stop, lastError, userStopped, result>>
    BY <1>9 DEF AllExit, DrainTimesOut, Abandon
  <2> QED BY <2>1 DEF Answered, TrueMeansAll, GivingUpHasAReason
<1> QED BY <1>3, <1>4, <1>5, <1>6, <1>7, <1>8, <1>9 DEF Next, RunStep, Finished

-------------------------------------------------------------------------------
\* The theorems.

LEMMA PoolInvariant == Spec => []PoolInv
<1>1. Init => PoolInv BY CountedInit, OnePlaceInit, KeptInit, AnsweredInit DEF PoolInv
<1>2. PoolInv /\ [Next]_vars => PoolInv'
  <2> SUFFICES ASSUME PoolInv, [Next]_vars PROVE PoolInv' OBVIOUS
  <2>1. Counted /\ OnePlace /\ Kept /\ Answered BY DEF PoolInv
  <2>2. Counted' BY <2>1, CountedStep
  <2>3. OnePlace' BY <2>1, OnePlaceStep DEF Counted
  <2>4. Kept' /\ Answered' BY <2>1, <2>2, KeptStep, AnsweredStep
  <2> QED BY <2>2, <2>3, <2>4 DEF PoolInv
<1> QED BY <1>1, <1>2, PTL DEF Spec

\* Every variable keeps to its type: no item is queued beyond its last retry, and the count
\* of unfinished items never falls below zero (task_done() would raise).
THEOREM PoolIsTyped == Spec => []TypeOK
<1>1. PoolInv => TypeOK BY DEF PoolInv, Counted
<1> QED BY <1>1, PoolInvariant, PTL

\* A chunk is completed, queued once, or fetched by one worker, never two of these,
\* whatever retries, bans and put-backs do.
THEOREM ChunksAreInOnePlace == Spec => []OnePlace
<1>1. PoolInv => OnePlace BY DEF PoolInv
<1> QED BY <1>1, PoolInvariant, PTL

\* Until the stop event is set, every chunk is completed, queued or fetched.
THEOREM ChunksAreKept == Spec => []NoChunkLost
<1>1. PoolInv => NoChunkLost BY DEF PoolInv, Kept
<1> QED BY <1>1, PoolInvariant, PTL

\* The count join() waits for is exact at every suspension of a coroutine.
THEOREM JoinCountsRight == Spec => []CountIsExact
<1>1. PoolInv => CountIsExact BY DEF PoolInv, Counted
<1> QED BY <1>1, PoolInvariant, PTL

\* run() answers True only when every chunk is completed.
THEOREM TrueIsTrue == Spec => []TrueMeansAll
<1>1. PoolInv => TrueMeansAll BY DEF PoolInv, Answered
<1> QED BY <1>1, PoolInvariant, PTL

\* run() answers False only after a stop from outside or a failure it reports.
THEOREM FalseHasAReason == Spec => []GivingUpHasAReason
<1>1. PoolInv => GivingUpHasAReason BY DEF PoolInv, Answered
<1> QED BY <1>1, PoolInvariant, PTL

\* What the pool does to the completed set and the answer is what ChunkPool promises: an
\* answer given once, True only for the whole file, and completions that are never undone.
THEOREM PoolImplementsChunkPool == Spec => PoolSpec
<1>1. Init => Pool!Init BY DEF Init, Pool!Init
<1>2. PoolInv /\ [Next]_vars => [Pool!Next]_(Pool!vars)
  <2> SUFFICES ASSUME PoolInv, [Next]_vars PROVE [Pool!Next]_(Pool!vars) OBVIOUS
  <2>1. CASE UNCHANGED <<completed, result>> BY <2>1 DEF Pool!vars
  <2>2. ASSUME NEW w \in Workers, FetchSucceeds(w) PROVE Pool!Next
    <3>1. worker[w].item \in Items
      BY <2>2 DEF PoolInv, Counted, TypeOK, FetchSucceeds, Resting, At, Fetches
    <3>2. PICK c \in Chunks : c = worker[w].item.chunk BY <3>1 DEF Items
    <3>3. Pool!Complete(c) BY <2>2, <3>2 DEF FetchSucceeds, Pool!Complete
    <3> QED BY <3>3 DEF Pool!Next
  <2>3. CASE Joined /\ ~stop
    <3>1. /\ result = "none" /\ result' = "true" /\ completed' = completed /\ unfinished = 0
      BY <2>3 DEF Joined, Drain, PoolInv, Answered
    <3>2. completed = Chunks BY <2>3, <3>1, JoinedHasAll DEF PoolInv, Kept
    <3> QED BY <3>1, <3>2 DEF Pool!Next, Pool!Succeed
  <2>4. CASE (Joined /\ stop) \/ Stopped \/ RunCancelled
    <3>1. result = "none" /\ result' \in {"false", "cancelled"} /\ completed' = completed
      BY <2>4 DEF Joined, Stopped, RunCancelled, Drain, PoolInv, Answered
    <3> QED BY <3>1 DEF Pool!Next, Pool!GiveUp
  <2>5. CASE DrainCancelled
    BY <2>5 DEF DrainCancelled, Abandon, Pool!Next, Pool!Cancelled
  <2>6. ASSUME NEW w \in Workers, Work(w) \/ FetchStopped(w) \/ FetchFails(w)
        PROVE  UNCHANGED <<completed, result>>
    BY <2>6 DEF Work, Start, CheckStop, PassPause, GetTimesOut, TakeSentinel, NapEnds, PutBack,
                GiveUp, Fetch, FetchStopped, FetchFails, Failure
  <2>7. CASE (\E x \in queue : Elapse(x)) \/ (\E s \in Sources : BanEnds(s)) \/ AllExit
             \/ DrainTimesOut \/ UserStop \/ UserPauses \/ UNCHANGED vars
    BY <2>1, <2>7 DEF Elapse, BanEnds, AllExit, DrainTimesOut, Abandon, UserStop, UserPauses, vars
  <2> QED BY <2>1, <2>2, <2>3, <2>4, <2>5, <2>6, <2>7 DEF Next, Outcome, RunStep, Finished
<1> QED BY <1>1, <1>2, PoolInvariant, PTL DEF Spec, PoolSpec, Pool!Spec
================================================================================
