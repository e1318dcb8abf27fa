--------------------------- MODULE DiskWriterProofs ---------------------------
(***************************************************************************)
(* Proofs about DiskWriter, for any chunks, tasks, queue size and number   *)
(* of parts, on a good or a failing disk.                                  *)
(***************************************************************************)
EXTENDS DiskWriterInvariant, TLAPS

Items == Commands \cup {Sentinel}

Typed == TypeOK /\ Shape

-------------------------------------------------------------------------------
\* Types.

\* What a task puts in the queue is a command.
LEMMA CommandTypes ==
  ASSUME NEW t \in Tasks, TypeOK, call[t].pc # "idle"
  PROVE  Command(t) \in Commands
<1>1. call[t] \in Calls BY DEF TypeOK, Idle
<1>2. call[t].next <= call[t].parts => call[t].next \in Parts
  BY <1>1, DiskWriterAssumption DEF Calls, Parts
<1> QED BY <1>1, <1>2 DEF Command, Commands, OpAt, Calls

\* A returning call leaves the task in a well-formed fetch, or in none.
LEMMA ReturnTypes ==
  ASSUME NEW t \in Tasks, Typed, call[t].pc # "idle", Return(t), stopped' = stopped,
         owner' = owner
  PROVE  /\ call' \in [Tasks -> Calls \cup {Idle}]
         /\ completed' \subseteq Chunks
         /\ \A u \in Tasks : call'[u].pc # "idle" =>
              /\ call'[u].next <= MarkStep(call'[u])
              /\ SizeKnown => call'[u].parts = NumParts
              /\ call'[u].pc = "orphan" => owner # "pool"
<1> DEFINE r == call[t]
<1>1. r \in Calls BY DEF Typed, TypeOK, Idle
<1>2. r.next <= MarkStep(r) /\ (SizeKnown => r.parts = NumParts) BY DEF Typed, Shape
<1>3. CASE r.next = MarkStep(r)
  <2>1. call' = [call EXCEPT ![t] = Idle] /\ completed' = completed \cup {r.chunk}
    BY <1>3 DEF Return
  <2>2. r.chunk \in Chunks BY <1>1 DEF Calls
  <2>3. Idle.pc = "idle" BY DEF Idle
  <2> HIDE DEF r
  <2> QED BY <2>1, <2>2, <2>3 DEF Typed, TypeOK, Shape
<1>4. CASE r.next # MarkStep(r)
  <2> DEFINE s == [pc |-> "ready", chunk |-> r.chunk, parts |-> r.parts,
                   next |-> r.next + 1]
  <2>1. call' = [call EXCEPT ![t] = s] /\ completed' = completed BY <1>4 DEF Return
  <2>2. MarkStep(r) \in Nat /\ MarkStep(r) <= NumParts + 2
    BY <1>1, DiskWriterAssumption DEF MarkStep, Calls, Parts
  <2>3. s \in Calls
    <3>1. r.next + 1 \in 1..(NumParts + 2)
      BY <1>1, <1>2, <1>4, <2>2, DiskWriterAssumption DEF Calls
    <3> QED BY <1>1, <3>1 DEF Calls
  <2>4. s.next <= MarkStep(s) /\ s.parts = r.parts /\ s.pc = "ready"
    BY <1>1, <1>2, <1>4, <2>2 DEF Calls, MarkStep, Parts
  <2> QED BY <1>2, <2>1, <2>3, <2>4 DEF Typed, TypeOK, Shape, Idle
<1> QED BY <1>3, <1>4

LEMMA TypedInit == Init => Typed
<1> SUFFICES ASSUME Init PROVE Typed OBVIOUS
<1>1. PICK resumed \in SUBSET Chunks :
        /\ completed = resumed
        /\ disk = [c \in Chunks |->
                     [p \in Parts |-> IF c \in resumed THEN Earlier ELSE Hole]]
        /\ marked = {[chunk |-> c, parts |-> NumParts, by |-> Earlier] : c \in resumed}
  BY DEF Init
<1>2. marked \subseteq Marks
  BY <1>1, DiskWriterAssumption DEF Marks, Parts, Origins
<1>3. disk \in [Chunks -> [Parts -> Origins \cup {Hole}]] BY <1>1 DEF Origins
<1>4. queue \in Seq(Commands \cup {Sentinel}) /\ Len(queue) <= MaxSize
  BY DiskWriterAssumption DEF Init
<1>5. call \in [Tasks -> Calls \cup {Idle}] /\ completed \subseteq Chunks
  BY <1>1 DEF Init
<1>6. TypeOK
  <2>1. failures \in 0..MaxFailures
    BY DiskWriterAssumption DEF Init
  <2> QED BY <1>2, <1>3, <1>4, <1>5, <2>1 DEF Init, TypeOK
<1>7. Shape
  <2>1. hand = Sentinel /\ thread = "loop" BY DEF Init
  <2>2. \A t \in Tasks : call[t].pc = "idle" BY DEF Init, Idle
  <2> QED BY <2>1, <2>2 DEF Shape
<1> QED BY <1>6, <1>7 DEF Typed

LEMMA TypedTaskStep ==
  ASSUME Typed, NEW t \in Tasks, TaskStep(t)
  PROVE  Typed'
<1> USE DiskWriterAssumption DEF Typed
<1>1. ASSUME NEW c \in Chunks, NEW n \in Parts, Begin(t, c, n) PROVE Typed'
  <2> DEFINE s == [pc |-> "ready", chunk |-> c, parts |-> n, next |-> 1]
  <2>1. s \in Calls BY DEF Calls, Parts
  <2>2. 1 <= MarkStep(s) /\ (SizeKnown => s.parts = NumParts)
    BY <1>1 DEF MarkStep, Parts, Begin
  <2> QED BY <1>1, <2>1, <2>2 DEF Begin, TypeOK, Shape
<1>2. CASE Fail(t) BY <1>2 DEF Fail, TypeOK, Shape, Idle
<1>3. CASE Offer(t)
  <2>1. call[t] \in Calls BY <1>3 DEF Offer, TypeOK, Idle
  <2>2. [call[t] EXCEPT !.pc = "put"] \in Calls BY <2>1 DEF Calls
  <2> QED BY <1>3, <2>1, <2>2 DEF Offer, TypeOK, Shape, MarkStep, Calls
<1>4. CASE Drop(t)
  <2>1. call[t].pc # "idle" BY <1>4 DEF Drop
  <2> QED BY <1>4, <2>1, ReturnTypes DEF Drop, TypeOK, Shape
<1>5. CASE Put(t)
  <2>1. call[t].pc # "idle" BY <1>5 DEF Put
  <2>2. Command(t) \in Commands BY <2>1, CommandTypes
  <2>3. queue' \in Seq(Commands \cup {Sentinel}) /\ Len(queue') <= MaxSize
    BY <1>5, <2>2 DEF Put, TypeOK, Full
  <2> QED BY <1>5, <2>1, <2>3, ReturnTypes DEF Put, TypeOK, Shape
<1>6. CASE PutTimesOut(t)
  <2>1. call[t] \in Calls BY <1>6 DEF PutTimesOut, TypeOK, Idle
  <2>2. [call[t] EXCEPT !.pc = "retry"] \in Calls BY <2>1 DEF Calls
  <2> QED BY <1>6, <2>1, <2>2 DEF PutTimesOut, TypeOK, Shape, MarkStep, Calls
<1>7. CASE OrphanPut(t)
  <2>1. Command(t) \in Commands BY <1>7, CommandTypes DEF OrphanPut
  <2>2. queue' \in Seq(Commands \cup {Sentinel}) /\ Len(queue') <= MaxSize
    BY <1>7, <2>1 DEF OrphanPut, TypeOK, Full
  <2> QED BY <1>7, <2>2 DEF OrphanPut, TypeOK, Shape, Idle
<1>8. CASE OrphanTimesOut(t) BY <1>8 DEF OrphanTimesOut, TypeOK, Shape, Idle
<1> QED BY <1>1, <1>2, <1>3, <1>4, <1>5, <1>6, <1>7, <1>8 DEF TaskStep

LEMMA TypedThreadStep == Typed /\ ThreadStep => Typed'
<1> SUFFICES ASSUME Typed, ThreadStep PROVE Typed' OBVIOUS
<1> USE DiskWriterAssumption DEF Typed
<1>1. CASE ThreadChecks BY <1>1 DEF ThreadChecks, TypeOK, Shape
<1>2. CASE ThreadGets
  <2>1. Head(queue) \in Commands \cup {Sentinel} /\ Len(queue') <= MaxSize
        /\ queue' \in Seq(Commands \cup {Sentinel})
    BY <1>2 DEF ThreadGets, TypeOK
  <2> QED BY <1>2, <2>1 DEF ThreadGets, TypeOK, Shape
<1>3. CASE ThreadGetTimesOut BY <1>3 DEF ThreadGetTimesOut, TypeOK, Shape
<1>4. CASE ThreadWrites
  <2>1. hand \in Commands BY <1>4 DEF ThreadWrites, TypeOK, Shape
  <2>2. disk' \in [Chunks -> [Parts -> Origins \cup {Hole}]]
    BY <1>4, <2>1 DEF ThreadWrites, TypeOK, Commands, Origins
  <2> QED BY <1>4, <2>2 DEF ThreadWrites, Performed, TypeOK, Shape
<1>5. CASE ThreadTruncates
  <2>1. hand \in Commands BY <1>5 DEF ThreadTruncates, TypeOK, Shape
  <2>2. disk' \in [Chunks -> [Parts -> Origins \cup {Hole}]]
    BY <1>5, <2>1 DEF ThreadTruncates, TypeOK, Commands, Origins
  <2> QED BY <1>5, <2>2 DEF ThreadTruncates, Performed, TypeOK, Shape
<1>6. CASE ThreadMarks
  <2>1. hand \in Commands BY <1>6 DEF ThreadMarks, TypeOK, Shape
  <2>2. marked' \subseteq Marks
    BY <1>6, <2>1 DEF ThreadMarks, TypeOK, Commands, Marks, Origins
  <2> QED BY <1>6, <2>2 DEF ThreadMarks, Performed, TypeOK, Shape
<1>7. CASE ThreadFails BY <1>7 DEF ThreadFails, TypeOK, Shape
<1> QED BY <1>1, <1>2, <1>3, <1>4, <1>5, <1>6, <1>7 DEF ThreadStep

LEMMA TypedOwnerStep == Typed /\ (OwnerStep \/ UserStop) => Typed'
<1> SUFFICES ASSUME Typed, OwnerStep \/ UserStop PROVE Typed' OBVIOUS
<1> USE DiskWriterAssumption DEF Typed
<1>1. CASE PoolSucceeds BY <1>1 DEF PoolSucceeds, TypeOK, Shape
<1>2. CASE PoolAborts
  <2>1. ASSUME NEW t \in Tasks
        PROVE  /\ call'[t] \in Calls \cup {Idle}
               /\ call'[t].pc # "idle" =>
                    /\ call'[t].next <= MarkStep(call'[t])
                    /\ SizeKnown => call'[t].parts = NumParts
    <3>1. CASE call[t].pc = "put"
      <4>1. call[t] \in Calls BY <3>1 DEF TypeOK, Idle
      <4>2. call'[t] = [call[t] EXCEPT !.pc = "orphan"] BY <1>2, <3>1 DEF PoolAborts
      <4> QED BY <3>1, <4>1, <4>2 DEF Calls, Shape, MarkStep
    <3>2. CASE call[t].pc # "put" BY <1>2, <3>2 DEF PoolAborts, Idle
    <3> QED BY <3>1, <3>2
  <2> QED BY <1>2, <2>1 DEF PoolAborts, TypeOK, Shape
<1>3. CASE StopPut
  <2>1. queue' \in Seq(Commands \cup {Sentinel}) /\ Len(queue') <= MaxSize
    BY <1>3 DEF StopPut, TypeOK, Full
  <2> QED BY <1>3, <2>1 DEF StopPut, TypeOK, Shape
<1>4. CASE StopPutTimesOut BY <1>4 DEF StopPutTimesOut, TypeOK, Shape
<1>5. CASE Join BY <1>5 DEF Join, TypeOK, Shape
<1>6. CASE CloseFile BY <1>6 DEF CloseFile, TypeOK, Shape
<1>7. CASE UserStop BY <1>7 DEF UserStop, TypeOK, Shape
<1> QED BY <1>1, <1>2, <1>3, <1>4, <1>5, <1>6, <1>7 DEF OwnerStep, StopStep

LEMMA TypedStep == Typed /\ [Next]_vars => Typed'
<1> SUFFICES ASSUME Typed, [Next]_vars PROVE Typed' OBVIOUS
<1>1. CASE UNCHANGED vars BY <1>1 DEF vars, Typed, TypeOK, Shape
<1>2. CASE Finished BY <1>2 DEF Finished, vars, Typed, TypeOK, Shape
<1> QED BY <1>1, <1>2, TypedTaskStep, TypedThreadStep, TypedOwnerStep DEF Next

\* Every variable of the writer keeps to its type and the queue to its maxsize.
THEOREM TypeCorrect == Spec => []TypeOK
<1>1. Typed => TypeOK BY DEF Typed
<1> QED BY <1>1, TypedInit, TypedStep, PTL DEF Spec
-------------------------------------------------------------------------------
\* How each kind of step moves what is settled.

\* A command appended to the queue disturbs no earlier position; at the new last
\* position it settles what it gives and what it leaves alone.
LEMMA AppendSettled ==
  ASSUME TypeOK, NEW x \in Items, queue' = Append(queue, x), UNCHANGED <<hand, disk>>,
         NEW c, NEW p, NEW v
  PROVE  /\ \A i \in 0..Len(queue) : Settled(i, c, p, v) => Settled(i, c, p, v)'
         /\ Gives(x, c, p, v) => Settled(Len(queue), c, p, v)'
         /\ Settled(Len(queue), c, p, v) /\ Keeps(x, c, p, v) => Settled(Len(queue), c, p, v)'
<1> USE DEF Settled, Gives, Keeps, Affects, IsOf
<1>1. /\ Len(queue) \in Nat /\ Len(queue') = Len(queue) + 1
      /\ \A j \in 1..Len(queue) : queue'[j] = queue[j]
      /\ queue'[Len(queue) + 1] = x
  BY DEF TypeOK, Items
<1>2. ASSUME NEW i \in 0..Len(queue), Settled(i, c, p, v) PROVE Settled(i, c, p, v)'
  BY <1>1, <1>2
<1>3. Gives(x, c, p, v) => Settled(Len(queue), c, p, v)' BY <1>1
<1>4. ASSUME Settled(Len(queue), c, p, v), Keeps(x, c, p, v)
      PROVE  Settled(Len(queue), c, p, v)'
  <2>1. \A k \in 1..Len(queue') : k \in 1..Len(queue) \/ k = Len(queue) + 1 BY <1>1
  <2> QED BY <1>1, <1>4, <2>1
<1> QED BY <1>2, <1>3, <1>4

\* Taking the first command into an empty hand shifts every position by one.
LEMMA TakeSettled ==
  ASSUME TypeOK, queue # <<>>, hand = Sentinel, hand' = Head(queue), queue' = Tail(queue),
         UNCHANGED disk, NEW c, NEW p, NEW v, NEW i \in 1..Len(queue), Settled(i, c, p, v)
  PROVE  Settled(i - 1, c, p, v)'
<1>1. /\ Len(queue) \in Nat /\ Len(queue') = Len(queue) - 1 /\ hand' = queue[1]
      /\ \A j \in 1..(Len(queue) - 1) : queue'[j] = queue[j + 1]
  BY DEF TypeOK
<1>2. CASE \E j \in 1..i : /\ Gives(queue[j], c, p, v)
                           /\ \A k \in (j + 1)..i : Keeps(queue[k], c, p, v)
  <2>1. PICK j \in 1..i : /\ Gives(queue[j], c, p, v)
                          /\ \A k \in (j + 1)..i : Keeps(queue[k], c, p, v)
    BY <1>2
  <2>2. \A k \in j..(i - 1) : Keeps(queue'[k], c, p, v)
    BY <1>1, <2>1
  <2>3. CASE j = 1
    <3>1. Gives(hand', c, p, v) /\ \A k \in 1..(i - 1) : Keeps(queue'[k], c, p, v)
      BY <1>1, <2>1, <2>2, <2>3
    <3> QED BY <3>1 DEF Settled, Gives, Keeps, Affects, IsOf
  <2>4. CASE j # 1
    <3>1. j - 1 \in 1..(i - 1) /\ queue'[j - 1] = queue[j] BY <1>1, <2>4
    <3>2. /\ Gives(queue'[j - 1], c, p, v)
          /\ \A k \in ((j - 1) + 1)..(i - 1) : Keeps(queue'[k], c, p, v)
      BY <2>1, <2>2, <3>1
    <3> QED BY <3>1, <3>2 DEF Settled, Gives, Keeps, Affects, IsOf
  <2> QED BY <2>3, <2>4
<1>3. CASE /\ \A k \in 1..i : Keeps(queue[k], c, p, v)
           /\ Gives(hand, c, p, v) \/ (disk[c][p] = v /\ Keeps(hand, c, p, v))
  <2>1. disk'[c][p] = v BY <1>3 DEF Gives, IsOf
  <2>2. Keeps(hand', c, p, v) /\ \A k \in 1..(i - 1) : Keeps(queue'[k], c, p, v)
    BY <1>1, <1>3
  <2> QED BY <2>1, <2>2 DEF Settled, Gives, Keeps, Affects, IsOf
<1> QED BY <1>2, <1>3 DEF Settled

\* Performing the command in hand brings the file to what position 0 stood for.
LEMMA PerformSettled ==
  ASSUME Typed, hand' = Sentinel, UNCHANGED queue,
         \/ ThreadWrites
         \/ ThreadTruncates
         \/ ThreadMarks,
         NEW c \in Chunks, NEW p \in Parts, NEW v, NEW i \in 0..Len(queue),
         Settled(i, c, p, v)
  PROVE  Settled(i, c, p, v)'
<1>1. hand \in Commands
  BY DEF ThreadWrites, ThreadTruncates, ThreadMarks, Typed, TypeOK, Shape
<1>2. Gives(hand, c, p, v) \/ (disk[c][p] = v /\ Keeps(hand, c, p, v)) => disk'[c][p] = v
  <2>0. hand # Sentinel /\ disk \in [Chunks -> [Parts -> Origins \cup {Hole}]]
        /\ hand.chunk \in Chunks /\ hand.n \in Parts
    BY <1>1 DEF Typed, TypeOK, Commands, Sentinel
  <2>1. CASE ThreadWrites
    <3>1. disk'[c][p] = IF hand.chunk = c /\ hand.n = p THEN hand.by ELSE disk[c][p]
      BY <2>0, <2>1 DEF ThreadWrites
    <3> QED BY <2>0, <2>1, <3>1 DEF ThreadWrites, Gives, Keeps, Affects, IsOf
  <2>2. CASE ThreadTruncates
    <3>1. disk'[c][p] = IF hand.chunk = c /\ p > hand.n THEN Hole ELSE disk[c][p]
      BY <2>0, <2>2 DEF ThreadTruncates
    <3>2. p > hand.n <=> hand.n < p BY <2>0 DEF Parts
    <3> QED BY <2>0, <2>2, <3>1, <3>2 DEF ThreadTruncates, Gives, Keeps, Affects, IsOf
  <2>3. CASE ThreadMarks BY <2>3 DEF ThreadMarks, Gives, Keeps, Affects, IsOf
  <2> QED BY <2>1, <2>2, <2>3
<1>3. Keeps(hand', c, p, v) BY DEF Keeps, Affects, IsOf
<1> QED BY <1>2, <1>3 DEF Settled, Gives, Keeps, Affects, IsOf

LEMMA SameSettled ==
  ASSUME UNCHANGED <<queue, hand, disk>>, NEW i, NEW c, NEW p, NEW v
  PROVE  Settled(i, c, p, v) <=> Settled(i, c, p, v)'
BY DEF Settled, Gives, Keeps, Affects, IsOf

-------------------------------------------------------------------------------
\* The inductive invariant, one kind of step at a time.

LEMMA InductiveInit == Init => Inductive
<1> SUFFICES ASSUME Init PROVE Inductive OBVIOUS
<1>1. Typed BY TypedInit
<1>2. PICK resumed \in SUBSET Chunks :
        /\ completed = resumed
        /\ disk = [c \in Chunks |->
                     [p \in Parts |-> IF c \in resumed THEN Earlier ELSE Hole]]
        /\ marked = {[chunk |-> c, parts |-> NumParts, by |-> Earlier] : c \in resumed}
  BY DEF Init
<1>3. \A c \in Chunks : ~IsOf(hand, c) /\ ~IsMark(hand, c) /\ (IsOnDisk(c) <=> c \in completed)
  <2>1. \A c \in Chunks : ~IsOf(hand, c) /\ ~IsMark(hand, c) BY DEF Init, IsOf, IsMark
  <2>2. ASSUME NEW c \in Chunks, IsOnDisk(c) PROVE c \in completed
    BY <1>2, <2>2 DEF IsOnDisk
  <2>3. ASSUME NEW c \in completed PROVE IsOnDisk(c)
    <3>1. [chunk |-> c, parts |-> NumParts, by |-> Earlier] \in marked BY <1>2
    <3> QED BY <3>1 DEF IsOnDisk
  <2> QED BY <1>2, <2>1, <2>2, <2>3
<1>4. Len(queue) = 0 /\ \A t \in Tasks : call[t].pc = "idle" BY DEF Init, Idle
<1>5. Exclusive BY <1>3, <1>4 DEF Exclusive, Holds, Reported
<1>6. MarkIsLast BY <1>3, <1>4 DEF MarkIsLast
<1>7. MarksWillHold
  BY <1>3, <1>4 DEF MarksWillHold, MarksSettled, PromisesKept, Active
<1>8. MarkedIsWhole
  BY <1>2, DiskWriterAssumption DEF MarkedIsWhole, MarkHolds, Parts
<1> QED BY <1>1, <1>5, <1>6, <1>7, <1>8 DEF Inductive, Typed

\* A step that leaves the queue, the hand and the file alone keeps all that is said
\* of them.
LEMMA QuietStep ==
  ASSUME Inductive, UNCHANGED <<queue, hand, disk, marked>>,
         thread' # "done" => thread # "done"
  PROVE  /\ MarkIsLast' /\ MarkedIsWhole'
         /\ \A c \in Chunks : Reported(c)' <=> Reported(c)
         /\ thread' # "done" => MarksSettled'
<1>1. MarkIsLast' BY DEF Inductive, MarkIsLast, IsOnDisk, IsMark, IsOf
<1>2. MarkedIsWhole' BY DEF Inductive, MarkedIsWhole, MarkHolds
<1>3. \A c \in Chunks : Reported(c)' <=> Reported(c) BY DEF Reported, IsOnDisk, IsMark
<1>4. ASSUME thread' # "done" PROVE MarksSettled'
  <2>1. MarksSettled BY <1>4 DEF Inductive, MarksWillHold
  <2>2. \A i, c, n, t : Whole(i, c, n, t) <=> Whole(i, c, n, t)'
    BY SameSettled DEF Whole
  <2> QED BY <2>1, <2>2 DEF MarksSettled, IsMark
<1> QED BY <1>1, <1>2, <1>3, <1>4

\* The same for the promises of the tasks whose fetch goes on as it was.
LEMMA QuietPromise ==
  ASSUME UNCHANGED <<queue, hand, disk>>, NEW t \in Tasks, Promised(t),
         call'[t].chunk = call[t].chunk, call'[t].parts = call[t].parts,
         call'[t].next = call[t].next
  PROVE  Promised(t)'
BY SameSettled DEF Promised

LEMMA BeginStep ==
  ASSUME Inductive, NEW t \in Tasks, NEW d \in Chunks, NEW n \in Parts, Begin(t, d, n)
  PROVE  Exclusive' /\ MarkIsLast' /\ MarksWillHold' /\ MarkedIsWhole'
<1> DEFINE s == [pc |-> "ready", chunk |-> d, parts |-> n, next |-> 1]
<1>1. /\ UNCHANGED <<queue, hand, disk, marked, thread, stopped, completed, owner>>
      /\ call' = [call EXCEPT ![t] = s] /\ owner = "pool" /\ d \notin completed
      /\ call[t] = Idle /\ \A u \in Tasks : ~Holds(u, d)
  BY DEF Begin
<1>2. call'[t] = s /\ \A u \in Tasks \ {t} : call'[u] = call[u]
  BY <1>1 DEF Inductive, TypeOK
<1>3. \A u \in Tasks, c \in Chunks : Holds(u, c)' <=> Holds(u, c) \/ (u = t /\ c = d)
  BY <1>1, <1>2 DEF Holds, Idle
<1>4. \A c \in Chunks : Reported(c)' <=> Reported(c) BY <1>1, QuietStep
<1>5. Exclusive'
  <2>1. \A c \in Chunks, u, v \in Tasks : Holds(u, c)' /\ Holds(v, c)' => u = v
    BY <1>1, <1>3 DEF Inductive, Exclusive
  <2>2. \A c \in Chunks, u \in Tasks : Holds(u, c)' => c \notin completed' /\ ~Reported(c)'
    BY <1>1, <1>3, <1>4 DEF Inductive, Exclusive
  <2>3. \A c \in Chunks : owner' = "pool" /\ Reported(c)' => c \in completed'
    BY <1>1, <1>4 DEF Inductive, Exclusive
  <2> QED BY <2>1, <2>2, <2>3 DEF Exclusive
<1>6. ASSUME thread # "done" PROVE PromisesKept'
  <2>1. Promised(t)'
    BY <1>2 DEF Promised, Parts
  <2>2. ASSUME NEW u \in Tasks \ {t}, Active(u)' PROVE Promised(u)'
    <3>1. Active(u) BY <1>1, <1>2, <2>2 DEF Active
    <3>2. Promised(u) BY <1>6, <3>1 DEF Inductive, MarksWillHold, PromisesKept
    <3> QED BY <1>1, <1>2, <3>2, QuietPromise
  <2> QED BY <2>1, <2>2 DEF PromisesKept
<1> QED BY <1>1, <1>5, <1>6, QuietStep DEF MarksWillHold

\* The steps of a task that queue nothing and do not end its fetch well.
LEMMA TaskQuietStep ==
  ASSUME Inductive, NEW t \in Tasks,
         Fail(t) \/ Offer(t) \/ PutTimesOut(t) \/ OrphanTimesOut(t)
  PROVE  Exclusive' /\ MarkIsLast' /\ MarksWillHold' /\ MarkedIsWhole'
<1>1. UNCHANGED <<queue, hand, disk, marked, thread, stopped, completed, owner>>
  BY DEF Fail, Offer, PutTimesOut, OrphanTimesOut
<1>2. /\ \A u \in Tasks \ {t} : call'[u] = call[u]
      /\ \/ call'[t] = Idle
         \/ /\ call'[t].chunk = call[t].chunk /\ call'[t].parts = call[t].parts
            /\ call'[t].next = call[t].next /\ Active(t) /\ call[t].pc # "idle"
  <2>1. call \in [Tasks -> Calls \cup {Idle}] BY DEF Inductive, TypeOK
  <2>2. CASE Fail(t) BY <2>1, <2>2 DEF Fail
  <2>3. CASE OrphanTimesOut(t) BY <2>1, <2>3 DEF OrphanTimesOut
  <2>4. CASE Offer(t)
    <3>1. call[t] \in Calls BY <2>1, <2>4 DEF Offer, Idle
    <3> QED BY <2>1, <2>4, <3>1 DEF Offer, Active, Calls
  <2>5. CASE PutTimesOut(t)
    <3>1. call[t] \in Calls BY <2>1, <2>5 DEF PutTimesOut, Idle
    <3> QED BY <2>1, <2>5, <3>1 DEF PutTimesOut, Active, Calls
  <2> QED BY <2>2, <2>3, <2>4, <2>5
<1>3. \A u \in Tasks, c \in Chunks : Holds(u, c)' => Holds(u, c)
  BY <1>2 DEF Holds, Idle
<1>4. \A c \in Chunks : Reported(c)' <=> Reported(c) BY <1>1, QuietStep
<1>5. Exclusive' BY <1>1, <1>3, <1>4 DEF Inductive, Exclusive
<1>6. ASSUME thread # "done" PROVE PromisesKept'
  <2>1. \A u \in Tasks : Active(u) => Promised(u)
    BY <1>6 DEF Inductive, MarksWillHold, PromisesKept
  <2>2. ASSUME NEW u \in Tasks, Active(u)' PROVE Promised(u)'
    <3>1. CASE u # t
      <4>1. Active(u) BY <1>1, <1>2, <2>2, <3>1 DEF Active
      <4> QED BY <1>1, <1>2, <2>1, <3>1, <4>1, QuietPromise
    <3>2. CASE u = t
      <4>1. call'[t] # Idle BY <2>2, <3>2 DEF Active, Idle
      <4> QED BY <1>1, <1>2, <2>1, <3>2, <4>1, QuietPromise
    <3> QED BY <3>1, <3>2
  <2> QED BY <2>2 DEF PromisesKept
<1> QED BY <1>1, <1>5, <1>6, QuietStep DEF MarksWillHold

\* What a returning call changes: the task goes on to its next call, or its fetch is
\* over and its chunk, which nobody else holds, completed.
LEMMA ReturnEffect ==
  ASSUME Inductive, NEW t \in Tasks, call[t].pc # "idle", Return(t)
  PROVE  /\ \A u \in Tasks \ {t} : call'[u] = call[u]
         /\ call[t] \in Calls
         /\ \/ /\ call[t].next = MarkStep(call[t]) /\ call'[t] = Idle
               /\ completed' = completed \cup {call[t].chunk}
            \/ /\ call[t].next # MarkStep(call[t]) /\ call[t].next < MarkStep(call[t])
               /\ completed' = completed
               /\ call'[t].pc = "ready" /\ call'[t].chunk = call[t].chunk
               /\ call'[t].parts = call[t].parts /\ call'[t].next = call[t].next + 1
<1>1. call \in [Tasks -> Calls \cup {Idle}] /\ call[t] \in Calls
  BY DEF Inductive, TypeOK, Idle
<1>2. call[t].next <= MarkStep(call[t]) BY DEF Inductive, Shape
<1>3. MarkStep(call[t]) \in Nat /\ call[t].next \in Nat
  BY <1>1 DEF MarkStep, Calls, Parts
<1>4. CASE call[t].next = MarkStep(call[t])
  <2>1. call' = [call EXCEPT ![t] = Idle] /\ completed' = completed \cup {call[t].chunk}
    BY <1>4 DEF Return
  <2> QED BY <1>1, <1>4, <2>1
<1>5. CASE call[t].next # MarkStep(call[t])
  <2>1. /\ completed' = completed
        /\ call' = [call EXCEPT ![t] = [pc |-> "ready", chunk |-> call[t].chunk,
                              parts |-> call[t].parts, next |-> call[t].next + 1]]
    BY <1>5 DEF Return
  <2>2. call[t].next < MarkStep(call[t]) BY <1>2, <1>3, <1>5
  <2>3. /\ call'[t].pc = "ready" /\ call'[t].chunk = call[t].chunk
        /\ call'[t].parts = call[t].parts /\ call'[t].next = call[t].next + 1
        /\ \A u \in Tasks \ {t} : call'[u] = call[u]
    BY <1>1, <2>1
  <2> QED BY <1>1, <1>5, <2>1, <2>2, <2>3
<1> QED BY <1>4, <1>5

\* A returning call gives up no chunk to anyone and takes none.
LEMMA ReturnHolds ==
  ASSUME Inductive, NEW t \in Tasks, call[t].pc # "idle", Return(t)
  PROVE  /\ \A u \in Tasks, c \in Chunks : Holds(u, c)' => Holds(u, c) /\ c \notin completed'
         /\ completed \subseteq completed'
<1>1. ASSUME NEW u \in Tasks, NEW c \in Chunks, Holds(u, c)' PROVE Holds(u, c)
  <2>1. CASE u = t
    <3>1. call'[t] # Idle BY <1>1, <2>1 DEF Holds, Idle
    <3> QED BY <1>1, <2>1, <3>1, ReturnEffect DEF Holds
  <2>2. CASE u # t BY <1>1, <2>2, ReturnEffect DEF Holds
  <2> QED BY <2>1, <2>2
<1>2. ASSUME NEW u \in Tasks, NEW c \in Chunks, Holds(u, c)', c \in completed' PROVE FALSE
  <2>1. Holds(u, c) /\ c \notin completed BY <1>1, <1>2 DEF Inductive, Exclusive
  <2>2. c = call[t].chunk /\ call'[t] = Idle BY <1>2, <2>1, ReturnEffect
  <2>3. u # t BY <1>2, <2>2 DEF Holds, Idle
  <2> QED BY <2>1, <2>2, <2>3 DEF Inductive, Exclusive, Holds
<1> QED BY <1>1, <1>2, ReturnEffect

LEMMA DropStep ==
  ASSUME Inductive, NEW t \in Tasks, Drop(t)
  PROVE  Exclusive' /\ MarkIsLast' /\ MarksWillHold' /\ MarkedIsWhole'
<1>1. /\ UNCHANGED <<queue, hand, disk, marked, thread, stopped, owner>>
      /\ stopped /\ call[t].pc # "idle" /\ Return(t)
  BY DEF Drop
<1>2. \A c \in Chunks : Reported(c)' <=> Reported(c) BY <1>1, QuietStep
<1>3. Exclusive' BY <1>1, <1>2, ReturnHolds DEF Inductive, Exclusive
<1>4. ASSUME thread # "done" PROVE PromisesKept'
  <2>1. ASSUME NEW u \in Tasks, Active(u)' PROVE Promised(u)'
    <3>1. u # t
      <4>1. Idle.pc = "idle" BY DEF Idle
      <4>2. call'[t].pc \in {"idle", "ready"} BY <1>1, <4>1, ReturnEffect
      <4> QED BY <1>1, <2>1, <4>2 DEF Active
    <3>2. Active(u) BY <1>1, <2>1, <3>1, ReturnEffect DEF Active
    <3>3. Promised(u) BY <1>4, <3>2 DEF Inductive, MarksWillHold, PromisesKept
    <3> QED BY <1>1, <3>1, <3>3, QuietPromise, ReturnEffect
  <2> QED BY <2>1 DEF PromisesKept
<1> QED BY <1>1, <1>3, <1>4, QuietStep DEF MarksWillHold

-------------------------------------------------------------------------------
\* Steps that append to the queue.

\* A command may follow in the queue when its chunk is not reported yet; a mark, when
\* the chunk is whole by then.
LEMMA AppendStep ==
  ASSUME Inductive, NEW x \in Items, queue' = Append(queue, x),
         UNCHANGED <<hand, disk, marked, thread>>,
         \A c \in Chunks : IsOf(x, c) => ~Reported(c),
         \A c \in Chunks : thread # "done" /\ IsMark(x, c) => Whole(Len(queue), c, x.n, x.by)
  PROVE  /\ MarkIsLast' /\ MarkedIsWhole'
         /\ \A c \in Chunks : Reported(c)' <=> Reported(c) \/ IsMark(x, c)
         /\ thread' # "done" => MarksSettled'
<1>1. /\ Len(queue) \in Nat /\ Len(queue') = Len(queue) + 1
      /\ \A j \in 1..Len(queue) : queue'[j] = queue[j]
      /\ queue'[Len(queue) + 1] = x
      /\ \A j \in 1..Len(queue') : j \in 1..Len(queue) \/ j = Len(queue) + 1
  BY DEF Inductive, TypeOK, Items
<1>2. MarkedIsWhole' BY DEF Inductive, MarkedIsWhole, MarkHolds
<1>3. \A c \in Chunks : Reported(c)' <=> Reported(c) \/ IsMark(x, c)
  BY <1>1 DEF Reported, IsOnDisk, IsMark
<1>4. MarkIsLast'
  <2> SUFFICES ASSUME NEW c \in Chunks
               PROVE  /\ IsOnDisk(c) => ~IsOf(hand, c) /\ \A i \in 1..Len(queue') : ~IsOf(queue'[i], c)
                      /\ IsMark(hand, c) => \A i \in 1..Len(queue') : ~IsOf(queue'[i], c)
                      /\ \A i \in 1..Len(queue') :
                           IsMark(queue'[i], c) =>
                             \A j \in (i + 1)..Len(queue') : ~IsOf(queue'[j], c)
    BY DEF MarkIsLast, IsOnDisk, IsOf, IsMark
  <2>1. Reported(c) => ~IsOf(x, c) OBVIOUS
  <2>2. /\ IsOnDisk(c) => ~IsOf(hand, c) /\ \A i \in 1..Len(queue) : ~IsOf(queue[i], c)
        /\ IsMark(hand, c) => \A i \in 1..Len(queue) : ~IsOf(queue[i], c)
        /\ \A i \in 1..Len(queue) :
             IsMark(queue[i], c) => \A j \in (i + 1)..Len(queue) : ~IsOf(queue[j], c)
    BY DEF Inductive, MarkIsLast
  <2>3. \A i \in 1..Len(queue) : IsMark(queue[i], c) => Reported(c) BY DEF Reported
  <2> QED BY <1>1, <2>1, <2>2, <2>3 DEF Reported
<1>5. ASSUME thread' # "done" PROVE MarksSettled'
  <2>1. MarksSettled BY <1>5 DEF Inductive, MarksWillHold
  <2>2. \A i \in 0..Len(queue) : \A c, n, t : Whole(i, c, n, t) => Whole(i, c, n, t)'
    BY AppendSettled DEF Whole, Inductive
  <2>3. ASSUME NEW c \in Chunks, IsMark(x, c) PROVE Whole(Len(queue), c, x.n, x.by)'
    <3>1. \A p, v : Keeps(x, c, p, v) BY <2>3 DEF Keeps, Affects, IsMark
    <3>2. Whole(Len(queue), c, x.n, x.by) BY <1>5, <2>3
    <3> QED BY <3>1, <3>2, AppendSettled DEF Whole, Inductive
  <2>4. 0 \in 0..Len(queue) BY <1>1
  <2>5. \A c \in Chunks : IsMark(hand, c)' => Whole(0, c, hand.n, hand.by)'
    BY <2>1, <2>2, <2>4 DEF MarksSettled, IsMark
  <2>6. ASSUME NEW c \in Chunks, NEW i \in 1..Len(queue'), IsMark(queue'[i], c)
        PROVE  Whole(i, c, queue[i].n, queue[i].by)'
    <3>1. CASE i \in 1..Len(queue)
      <4>1. i \in 0..Len(queue) BY <1>1, <3>1
      <4> QED BY <1>1, <2>1, <2>2, <2>6, <3>1, <4>1 DEF MarksSettled
    <3>2. CASE i = Len(queue) + 1 BY <1>1, <2>3, <2>6, <3>2
    <3> QED BY <1>1, <3>1, <3>2
  <2> QED BY <2>5, <2>6 DEF MarksSettled, IsMark
<1> QED BY <1>2, <1>3, <1>4, <1>5

\* A command about another chunk leaves a task's promise standing.
LEMMA AppendPromise ==
  ASSUME Inductive, NEW x \in Items, queue' = Append(queue, x), UNCHANGED <<hand, disk>>,
         NEW u \in Tasks, Promised(u), ~IsOf(x, call[u].chunk),
         call'[u].chunk = call[u].chunk, call'[u].parts = call[u].parts,
         call'[u].next = call[u].next
  PROVE  Promised(u)'
<1>1. \A p, v : Keeps(x, call[u].chunk, p, v) BY DEF Keeps, Affects
<1> QED BY <1>1, AppendSettled DEF Promised, Inductive

\* The command a task queues is about the chunk it holds; it is a mark exactly when it
\* is the last of its fetch, and then the chunk is whole.
LEMMA CommandIsDue ==
  ASSUME Inductive, NEW t \in Tasks, call[t].pc \in {"put", "orphan"}
  PROVE  /\ Command(t) \in Items /\ Command(t) \in Commands
         /\ \A c \in Chunks : IsOf(Command(t), c) <=> c = call[t].chunk
         /\ \A c \in Chunks : IsOf(Command(t), c) => ~Reported(c)
         /\ Command(t).op = "mark" <=> call[t].next = MarkStep(call[t])
         /\ \A c \in Chunks : thread # "done" /\ IsMark(Command(t), c) =>
              Whole(Len(queue), c, Command(t).n, Command(t).by)
<1> DEFINE r == call[t]
           x == Command(t)
<1>1. x \in Commands BY CommandTypes DEF Inductive
<1>2. r \in Calls /\ r.next <= MarkStep(r) /\ r.chunk \in Chunks
  BY DEF Inductive, TypeOK, Shape, Idle, Calls
<1>3. x # Sentinel /\ x.chunk = r.chunk /\ x.by = t /\ x.op = OpAt(r)
      /\ x.n = IF r.next <= r.parts THEN r.next ELSE r.parts
  BY DEF Command, Sentinel
<1>4. \A c \in Chunks : IsOf(x, c) <=> c = r.chunk BY <1>3 DEF IsOf
<1>5. ~Reported(r.chunk) BY <1>2 DEF Inductive, Exclusive, Holds
<1>6. x.op = "mark" <=> r.next = MarkStep(r)
  BY <1>2, <1>3 DEF OpAt, MarkStep, Calls, Parts
<1>7. ASSUME thread # "done", x.op = "mark" PROVE Whole(Len(queue), r.chunk, r.parts, t)
  <2>1. Promised(t)
    BY <1>7 DEF Inductive, MarksWillHold, PromisesKept, Active
  <2>2. r.next = MarkStep(r) BY <1>6, <1>7
  <2> QED BY <1>2, <2>1, <2>2 DEF Promised, Whole, MarkStep, Calls, Parts
<1>8. ASSUME NEW c \in Chunks, thread # "done", IsMark(x, c) PROVE Whole(Len(queue), c, x.n, x.by)
  <2>1. c = r.chunk /\ x.op = "mark" BY <1>3, <1>8 DEF IsMark
  <2>2. x.n = r.parts BY <1>2, <1>3, <1>6, <2>1 DEF MarkStep, Calls, Parts
  <2> QED BY <1>3, <1>7, <1>8, <2>1, <2>2
<1> QED BY <1>1, <1>4, <1>5, <1>6, <1>8 DEF Items

\* The step of a task that queues its command, at the end of its fetch or not.
LEMMA PutStep ==
  ASSUME Inductive, NEW t \in Tasks, Put(t)
  PROVE  Exclusive' /\ MarkIsLast' /\ MarksWillHold' /\ MarkedIsWhole'
<1> DEFINE x == Command(t)
           r == call[t]
<1>1. /\ UNCHANGED <<hand, disk, marked, thread, stopped, owner>>
      /\ queue' = Append(queue, x) /\ r.pc = "put" /\ Return(t)
  BY DEF Put
<1>2. /\ MarkIsLast' /\ MarkedIsWhole' /\ (thread' # "done" => MarksSettled')
      /\ \A c \in Chunks : Reported(c)' <=> Reported(c) \/ IsMark(x, c)
  BY <1>1, CommandIsDue, AppendStep
<1>3. \A c \in Chunks : IsMark(x, c) => c = r.chunk /\ c \in completed' /\ call'[t] = Idle
  <2>1. \A c \in Chunks : IsMark(x, c) => c = r.chunk /\ r.next = MarkStep(r)
    BY <1>1, CommandIsDue DEF IsMark, IsOf
  <2> QED BY <1>1, <2>1, ReturnEffect
<1>4. Exclusive'
  <2>1. \A c \in Chunks, u, v \in Tasks : Holds(u, c)' /\ Holds(v, c)' => u = v
    BY <1>1, ReturnHolds DEF Inductive, Exclusive
  <2>2. ASSUME NEW c \in Chunks, NEW u \in Tasks, Holds(u, c)'
        PROVE  c \notin completed' /\ ~Reported(c)'
    BY <1>1, <1>2, <1>3, <2>2, ReturnHolds DEF Inductive, Exclusive
  <2>3. \A c \in Chunks : owner' = "pool" /\ Reported(c)' => c \in completed'
    BY <1>1, <1>2, <1>3, ReturnHolds DEF Inductive, Exclusive
  <2> QED BY <2>1, <2>2, <2>3 DEF Exclusive
<1>5. ASSUME thread # "done" PROVE PromisesKept'
  <2>1. \A u \in Tasks : Active(u) => Promised(u)
    BY <1>5 DEF Inductive, MarksWillHold, PromisesKept
  <2>2. r \in Calls /\ r.chunk \in Chunks /\ x \in Items /\ TypeOK
    BY <1>1, ReturnEffect, CommandIsDue DEF Calls, Inductive
  <2>3. ASSUME NEW u \in Tasks \ {t}, Active(u)' PROVE Promised(u)'
    <3>1. call'[u] = call[u] /\ Active(u) BY <1>1, <2>3, ReturnEffect DEF Active
    <3>2. call[u] \in Calls BY <3>1 DEF Inductive, TypeOK, Active, Idle
    <3>3. call[u].chunk # r.chunk
      BY <1>1, <2>2, <3>1 DEF Inductive, Exclusive, Holds, Active
    <3>4. ~IsOf(x, call[u].chunk)
      BY <1>1, <3>2, <3>3, CommandIsDue DEF Calls
    <3> QED BY <1>1, <2>1, <2>2, <3>1, <3>4, AppendPromise
  <2>4. ASSUME Active(t)' PROVE Promised(t)'
    <3>1. /\ r.next < MarkStep(r) /\ call'[t].chunk = r.chunk /\ call'[t].parts = r.parts
          /\ call'[t].next = r.next + 1
      <4>1. Idle.pc = "idle" BY DEF Idle
      <4>2. call'[t] # Idle BY <2>4, <4>1 DEF Active
      <4> QED BY <1>1, <4>2, ReturnEffect
    <3>2. Promised(t) BY <1>1, <2>1 DEF Active
    <3>3. PICK c \in Chunks : c = r.chunk BY <2>2
    <3>4. ASSUME NEW p \in 1..r.parts, p < r.next + 1 PROVE Settled(Len(queue), c, p, t)'
      <4>1. CASE p < r.next
        <5>1. Settled(Len(queue), c, p, t) BY <3>2, <3>3, <4>1 DEF Promised
        <5>2. Keeps(x, c, p, t)
          BY <2>2, <4>1 DEF Keeps, Gives, Affects, Command, OpAt, Calls, Parts
        <5> QED BY <1>1, <2>2, <5>1, <5>2, AppendSettled
      <4>2. CASE p = r.next
        <5>1. Gives(x, c, p, t)
          BY <2>2, <3>3, <4>2 DEF Gives, IsOf, Command, OpAt, Calls, Parts, Sentinel
        <5> QED BY <1>1, <2>2, <5>1, AppendSettled
      <4> QED BY <2>2, <3>4, <4>1, <4>2 DEF Calls, Parts
    <3>5. ASSUME r.next + 1 = r.parts + 2, NEW p \in (r.parts + 1)..NumParts
          PROVE  Settled(Len(queue), c, p, Hole)'
      <4>1. Gives(x, c, p, Hole)
        BY <2>2, <3>1, <3>3, <3>5, DiskWriterAssumption
        DEF Gives, IsOf, Command, OpAt, Calls, Parts, Sentinel, MarkStep
      <4> QED BY <1>1, <2>2, <4>1, AppendSettled
    <3> QED BY <3>1, <3>3, <3>4, <3>5 DEF Promised
  <2> QED BY <2>3, <2>4 DEF PromisesKept
<1> QED BY <1>1, <1>2, <1>4, <1>5 DEF MarksWillHold

LEMMA OrphanPutStep ==
  ASSUME Inductive, NEW t \in Tasks, OrphanPut(t)
  PROVE  Exclusive' /\ MarkIsLast' /\ MarksWillHold' /\ MarkedIsWhole'
<1> DEFINE x == Command(t)
<1>1. /\ UNCHANGED <<hand, disk, marked, thread, stopped, owner, completed>>
      /\ queue' = Append(queue, x) /\ call[t].pc = "orphan"
      /\ call'[t] = Idle /\ \A u \in Tasks \ {t} : call'[u] = call[u]
  BY DEF OrphanPut, Inductive, TypeOK
<1>2. /\ MarkIsLast' /\ MarkedIsWhole' /\ (thread' # "done" => MarksSettled')
      /\ \A c \in Chunks : Reported(c)' <=> Reported(c) \/ IsMark(x, c)
  BY <1>1, CommandIsDue, AppendStep
<1>3. Idle.pc = "idle" BY DEF Idle
<1>4. \A c \in Chunks, u \in Tasks : Holds(u, c)' => Holds(u, c) /\ u # t
  BY <1>1, <1>3 DEF Holds
<1>5. \A c \in Chunks : IsMark(x, c) => Holds(t, c)
  BY <1>1, CommandIsDue DEF IsMark, IsOf, Holds
<1>6. owner # "pool" BY <1>1 DEF Inductive, Shape
<1>7. Exclusive' BY <1>1, <1>2, <1>4, <1>5, <1>6 DEF Inductive, Exclusive
<1>8. ASSUME thread # "done", NEW u \in Tasks, Active(u)' PROVE Promised(u)'
  <2>1. u # t BY <1>1, <1>3, <1>8 DEF Active
  <2>2. Active(u) /\ Promised(u)
    BY <1>1, <1>8, <2>1 DEF Active, Inductive, MarksWillHold, PromisesKept
  <2>3. call[u] \in Calls /\ call[u].chunk \in Chunks
    BY <2>2 DEF Inductive, TypeOK, Active, Idle, Calls
  <2>4. call[t].chunk # call[u].chunk
    BY <1>1, <2>1, <2>2, <2>3 DEF Inductive, Exclusive, Holds, Active
  <2>5. ~IsOf(x, call[u].chunk) BY <1>1, <2>3, <2>4, CommandIsDue
  <2> QED BY <1>1, <2>1, <2>2, <2>5, CommandIsDue, AppendPromise
<1> QED BY <1>1, <1>2, <1>7, <1>8 DEF MarksWillHold, PromisesKept

LEMMA StopPutStep ==
  ASSUME Inductive, StopPut
  PROVE  Exclusive' /\ MarkIsLast' /\ MarksWillHold' /\ MarkedIsWhole'
<1>1. /\ UNCHANGED <<hand, disk, marked, thread, stopped, completed, call>>
      /\ queue' = Append(queue, Sentinel) /\ owner = "stop" /\ owner' = "join"
  BY DEF StopPut
<1>2. Sentinel \in Items /\ \A c : ~IsOf(Sentinel, c) /\ ~IsMark(Sentinel, c)
  BY DEF Items, IsOf, IsMark
<1>3. /\ MarkIsLast' /\ MarkedIsWhole' /\ (thread' # "done" => MarksSettled')
      /\ \A c \in Chunks : Reported(c)' <=> Reported(c)
  BY <1>1, <1>2, AppendStep
<1>4. Exclusive' BY <1>1, <1>3 DEF Inductive, Exclusive, Holds
<1>5. ASSUME thread # "done", NEW u \in Tasks, Active(u)' PROVE Promised(u)'
  <2>1. Active(u) BY <1>1, <1>5 DEF Active
  <2>2. Promised(u) BY <1>5, <2>1 DEF Inductive, MarksWillHold, PromisesKept
  <2> QED BY <1>1, <1>2, <2>2, AppendPromise
<1> QED BY <1>1, <1>3, <1>4, <1>5 DEF MarksWillHold, PromisesKept

-------------------------------------------------------------------------------
\* Steps of the writer thread.

LEMMA GetsStep ==
  ASSUME Inductive, ThreadGets
  PROVE  Exclusive' /\ MarkIsLast' /\ MarksWillHold' /\ MarkedIsWhole'
<1>1. /\ UNCHANGED <<stopped, disk, marked, call, completed, owner>>
      /\ thread = "get" /\ queue # <<>> /\ queue' = Tail(queue) /\ hand = Sentinel
      /\ hand' = Head(queue)
      /\ Head(queue) = Sentinel => thread' = "done"
      /\ Head(queue) # Sentinel => thread' = "work"
  BY DEF ThreadGets, Inductive, Shape
<1>2. /\ Len(queue) \in Nat \ {0} /\ Len(queue') = Len(queue) - 1 /\ hand' = queue[1]
      /\ \A j \in 1..Len(queue') : j + 1 \in 1..Len(queue) /\ queue'[j] = queue[j + 1]
      /\ 1 \in 1..Len(queue)
  BY <1>1 DEF Inductive, TypeOK
<1>3. \A j \in 1..Len(queue) : j = 1 \/ (j - 1 \in 1..Len(queue') /\ queue[j] = queue'[j - 1])
  BY <1>2
<1>4. MarkedIsWhole' BY <1>1 DEF Inductive, MarkedIsWhole, MarkHolds
<1>5. ASSUME NEW c \in Chunks PROVE Reported(c)' <=> Reported(c)
  <2>1. IsOnDisk(c)' <=> IsOnDisk(c) BY <1>1 DEF IsOnDisk
  <2>2. ~IsMark(hand, c) BY <1>1 DEF IsMark
  <2>3. (\E i \in 1..Len(queue) : IsMark(queue[i], c)) <=>
          (IsMark(hand', c) \/ \E i \in 1..Len(queue') : IsMark(queue'[i], c))
    BY <1>2, <1>3
  <2> QED BY <2>1, <2>2, <2>3 DEF Reported, IsMark
<1>6. Exclusive' BY <1>1, <1>5 DEF Inductive, Exclusive, Holds
<1>7. MarkIsLast'
  <2> SUFFICES ASSUME NEW c \in Chunks
               PROVE  /\ IsOnDisk(c) => ~IsOf(hand', c) /\ \A i \in 1..Len(queue') : ~IsOf(queue'[i], c)
                      /\ IsMark(hand', c) => \A i \in 1..Len(queue') : ~IsOf(queue'[i], c)
                      /\ \A i \in 1..Len(queue') :
                           IsMark(queue'[i], c) =>
                             \A j \in (i + 1)..Len(queue') : ~IsOf(queue'[j], c)
    BY <1>1 DEF MarkIsLast, IsOnDisk, IsOf, IsMark
  <2>1. /\ IsOnDisk(c) => \A i \in 1..Len(queue) : ~IsOf(queue[i], c)
        /\ \A i \in 1..Len(queue) :
             IsMark(queue[i], c) => \A j \in (i + 1)..Len(queue) : ~IsOf(queue[j], c)
    BY DEF Inductive, MarkIsLast
  <2>2. \A i \in 1..Len(queue'), j \in 1..Len(queue') :
          j \in (i + 1)..Len(queue') => j + 1 \in ((i + 1) + 1)..Len(queue)
    BY <1>2
  <2>3. \A j \in 1..Len(queue') : j + 1 \in (1 + 1)..Len(queue) BY <1>2
  <2>4. \A i \in 1..Len(queue') : \A j \in (i + 1)..Len(queue') : j \in 1..Len(queue')
    BY <1>2
  <2> QED BY <1>2, <2>1, <2>2, <2>3, <2>4
<1>8. ASSUME thread' # "done" PROVE MarksSettled' /\ PromisesKept'
  <2>1. MarksSettled /\ PromisesKept BY <1>1 DEF Inductive, MarksWillHold
  <2>2. \A i \in 1..Len(queue) : \A c, p, v : Settled(i, c, p, v) => Settled(i - 1, c, p, v)'
    BY <1>1, TakeSettled DEF Inductive
  <2>3. \A i \in 1..Len(queue) : \A c, n, t : Whole(i, c, n, t) => Whole(i - 1, c, n, t)'
    BY <2>2 DEF Whole
  <2>4. ASSUME NEW c \in Chunks, IsMark(hand', c) PROVE Whole(0, c, hand.n, hand.by)'
    <3>1. Whole(1, c, queue[1].n, queue[1].by) BY <1>2, <2>1, <2>4 DEF MarksSettled
    <3>2. PICK n, t : n = queue[1].n /\ t = queue[1].by OBVIOUS
    <3>3. Whole(1 - 1, c, n, t)' BY <1>2, <2>3, <3>1, <3>2
    <3> QED BY <1>2, <3>2, <3>3
  <2>5. ASSUME NEW c \in Chunks, NEW i \in 1..Len(queue'), IsMark(queue'[i], c)
        PROVE  Whole(i, c, queue[i].n, queue[i].by)'
    <3>1. i + 1 \in 1..Len(queue) /\ queue'[i] = queue[i + 1] BY <1>2
    <3>2. Whole(i + 1, c, queue[i + 1].n, queue[i + 1].by) BY <2>1, <2>5, <3>1 DEF MarksSettled
    <3>3. PICK n, t : n = queue[i + 1].n /\ t = queue[i + 1].by OBVIOUS
    <3>4. Whole((i + 1) - 1, c, n, t)' BY <2>3, <3>1, <3>2, <3>3
    <3>5. (i + 1) - 1 = i BY <1>2
    <3> QED BY <3>1, <3>3, <3>4, <3>5
  <2>6. ASSUME NEW u \in Tasks, Active(u)' PROVE Promised(u)'
    <3>1. Promised(u) BY <1>1, <2>1, <2>6 DEF Active, PromisesKept
    <3>2. Len(queue) \in 1..Len(queue) /\ Len(queue) - 1 = Len(queue') BY <1>2
    <3>3. \A c, p, v : Settled(Len(queue), c, p, v) => Settled(Len(queue), c, p, v)'
      BY <2>2, <3>2
    <3> QED BY <1>1, <3>1, <3>3 DEF Promised
  <2> QED BY <2>4, <2>5, <2>6 DEF MarksSettled, PromisesKept, IsMark
<1> QED BY <1>4, <1>6, <1>7, <1>8 DEF MarksWillHold

LEMMA PerformStep ==
  ASSUME Inductive, ThreadWrites \/ ThreadTruncates \/ ThreadMarks
  PROVE  Exclusive' /\ MarkIsLast' /\ MarksWillHold' /\ MarkedIsWhole'
<1>1. /\ UNCHANGED <<queue, stopped, call, completed, owner>>
      /\ thread = "work" /\ thread' = "loop" /\ hand' = Sentinel /\ hand # Sentinel
      /\ hand \in Commands /\ hand.chunk \in Chunks
  BY DEF ThreadWrites, ThreadTruncates, ThreadMarks, Performed, Inductive, Shape, TypeOK,
         Commands
<1>2. /\ hand.op = "mark" => marked' = marked \cup
            {[chunk |-> hand.chunk, parts |-> hand.n, by |-> hand.by]} /\ disk' = disk
      /\ hand.op # "mark" => marked' = marked
  BY DEF ThreadWrites, ThreadTruncates, ThreadMarks
<1>3. ASSUME NEW c \in Chunks PROVE IsOnDisk(c)' <=> IsOnDisk(c) \/ IsMark(hand, c)
  <2>1. CASE hand.op = "mark"
    <3> DEFINE h == [chunk |-> hand.chunk, parts |-> hand.n, by |-> hand.by]
    <3>1. marked' = marked \cup {h} /\ h.chunk = hand.chunk BY <1>2, <2>1
    <3>2. IsMark(hand, c) <=> h.chunk = c BY <1>1, <2>1 DEF IsMark
    <3> HIDE DEF h
    <3> QED BY <3>1, <3>2 DEF IsOnDisk
  <2>2. CASE hand.op # "mark" BY <1>2, <2>2 DEF IsOnDisk, IsMark
  <2> QED BY <2>1, <2>2
<1>4. \A c \in Chunks : Reported(c)' <=> Reported(c)
  BY <1>1, <1>3 DEF Reported, IsMark
<1>5. Exclusive' BY <1>1, <1>4 DEF Inductive, Exclusive, Holds
<1>6. MarkIsLast' BY <1>1, <1>3 DEF Inductive, MarkIsLast, IsMark, IsOf
<1>7. MarksSettled /\ PromisesKept BY <1>1 DEF Inductive, MarksWillHold
<1>8. \A i \in 0..Len(queue), c \in Chunks, p \in Parts : \A v :
        Settled(i, c, p, v) => Settled(i, c, p, v)'
  BY <1>1, PerformSettled DEF Inductive, Typed
<1>9. \A i \in 0..Len(queue), c \in Chunks, n \in Parts : \A t :
        Whole(i, c, n, t) => Whole(i, c, n, t)'
  <2>1. \A n \in Parts : 1..n \subseteq Parts /\ (n + 1)..NumParts \subseteq Parts
    BY DiskWriterAssumption DEF Parts
  <2> QED BY <1>8, <2>1 DEF Whole
<1>10. MarksSettled'
  <2>1. ASSUME NEW c \in Chunks, NEW i \in 1..Len(queue), IsMark(queue[i], c)
        PROVE  Whole(i, c, queue[i].n, queue[i].by)'
    <3>1. Whole(i, c, queue[i].n, queue[i].by) BY <1>7, <2>1 DEF MarksSettled
    <3>2. queue[i] \in Items BY DEF Inductive, TypeOK, Items
    <3>3. queue[i].n \in Parts BY <2>1, <3>2 DEF Items, Commands, IsMark
    <3>4. i \in 0..Len(queue) BY DEF Inductive, TypeOK
    <3>5. PICK n \in Parts : n = queue[i].n BY <3>3
    <3>6. PICK t : t = queue[i].by OBVIOUS
    <3> QED BY <1>1, <1>9, <3>1, <3>4, <3>5, <3>6
  <2>2. \A c \in Chunks : ~IsMark(hand, c)' BY <1>1 DEF IsMark
  <2> QED BY <1>1, <2>1, <2>2 DEF MarksSettled, IsMark
<1>11. ASSUME NEW u \in Tasks, Active(u)' PROVE Promised(u)'
  <2>1. Promised(u) /\ call'[u] = call[u] BY <1>1, <1>7, <1>11 DEF Active, PromisesKept
  <2>2. call[u] \in Calls BY <1>1, <1>11 DEF Inductive, TypeOK, Active, Idle
  <2>3. PICK c \in Chunks, n \in Parts : c = call[u].chunk /\ n = call[u].parts
    BY <2>2 DEF Calls
  <2>4. 1..n \subseteq Parts /\ (n + 1)..NumParts \subseteq Parts
    BY DiskWriterAssumption DEF Parts
  <2>5. Len(queue) \in 0..Len(queue) BY DEF Inductive, TypeOK
  <2> QED BY <1>1, <1>8, <2>1, <2>3, <2>4, <2>5 DEF Promised
<1>12. MarkedIsWhole'
  <2>1. ASSUME NEW m \in marked PROVE MarkHolds(m)'
    <3>1. MarkHolds(m) /\ m \in Marks BY DEF Inductive, MarkedIsWhole, TypeOK
    <3>2. IsOnDisk(m.chunk) BY DEF IsOnDisk
    <3>3. hand.chunk # m.chunk
      BY <1>1, <3>1, <3>2 DEF Inductive, MarkIsLast, IsOf, Marks
    <3>4. disk'[m.chunk] = disk[m.chunk]
      BY <1>1, <3>1, <3>3 DEF ThreadWrites, ThreadTruncates, ThreadMarks, Inductive, TypeOK, Marks
    <3> QED BY <3>1, <3>4 DEF MarkHolds
  <2>2. CASE hand.op = "mark"
    <3> DEFINE h == [chunk |-> hand.chunk, parts |-> hand.n, by |-> hand.by]
    <3>1. marked' = marked \cup {h} /\ disk' = disk BY <1>2, <2>2
    <3>2. Whole(0, hand.chunk, hand.n, hand.by)
      BY <1>1, <1>7, <2>2 DEF MarksSettled, IsMark
    <3>3. \A p, v : Settled(0, hand.chunk, p, v) => disk[hand.chunk][p] = v
      BY <2>2 DEF Settled, Gives
    <3>4. /\ \A p \in 1..hand.n : disk[hand.chunk][p] = hand.by
          /\ ~SizeKnown => \A p \in (hand.n + 1)..NumParts : disk[hand.chunk][p] = Hole
      BY <3>2, <3>3 DEF Whole
    <3>5. \A m \in {h} : /\ \A p \in 1..m.parts : disk'[m.chunk][p] = m.by
                         /\ ~SizeKnown => \A p \in (m.parts + 1)..NumParts :
                                            disk'[m.chunk][p] = Hole
      BY <3>1, <3>4
    <3> QED BY <2>1, <3>1, <3>5 DEF MarkedIsWhole, MarkHolds
  <2>3. CASE hand.op # "mark" BY <1>2, <2>1, <2>3 DEF MarkedIsWhole
  <2> QED BY <2>2, <2>3
<1> QED BY <1>5, <1>6, <1>10, <1>11, <1>12 DEF MarksWillHold, PromisesKept

LEMMA FailsStep ==
  ASSUME Inductive, ThreadFails
  PROVE  Exclusive' /\ MarkIsLast' /\ MarksWillHold' /\ MarkedIsWhole'
<1>1. /\ UNCHANGED <<queue, disk, marked, call, completed, owner>>
      /\ thread' = "done" /\ hand' = Sentinel /\ hand.op # "mark"
  BY DEF ThreadFails
<1>2. \A c \in Chunks : Reported(c)' <=> Reported(c) BY <1>1 DEF Reported, IsMark, IsOnDisk
<1>3. Exclusive' BY <1>1, <1>2 DEF Inductive, Exclusive, Holds
<1>4. MarkIsLast' BY <1>1 DEF Inductive, MarkIsLast, IsMark, IsOf, IsOnDisk
<1>5. MarkedIsWhole' BY <1>1 DEF Inductive, MarkedIsWhole, MarkHolds
<1> QED BY <1>1, <1>3, <1>4, <1>5 DEF MarksWillHold

LEMMA ThreadQuietStep ==
  ASSUME Inductive, ThreadChecks \/ ThreadGetTimesOut
  PROVE  Exclusive' /\ MarkIsLast' /\ MarksWillHold' /\ MarkedIsWhole'
<1>1. /\ UNCHANGED <<queue, hand, disk, marked, call, stopped, completed, owner>>
      /\ thread # "done"
  BY DEF ThreadChecks, ThreadGetTimesOut
<1>2. Exclusive' BY <1>1, QuietStep DEF Inductive, Exclusive, Holds
<1>3. ASSUME NEW u \in Tasks, Active(u)' PROVE Promised(u)'
  <2>1. Promised(u) BY <1>1, <1>3 DEF Active, Inductive, MarksWillHold, PromisesKept
  <2> QED BY <1>1, <2>1, QuietPromise
<1> QED BY <1>1, <1>2, <1>3, QuietStep DEF MarksWillHold, PromisesKept

-------------------------------------------------------------------------------
\* Steps of the owner.

LEMMA OwnerQuietStep ==
  ASSUME Inductive,
         \/ PoolSucceeds \/ PoolAborts \/ StopPutTimesOut \/ Join \/ CloseFile \/ UserStop
  PROVE  Exclusive' /\ MarkIsLast' /\ MarksWillHold' /\ MarkedIsWhole'
<1>1. /\ UNCHANGED <<queue, hand, disk, marked, thread, completed>>
      /\ stopped => stopped'
      /\ owner' = "pool" => owner = "pool"
  BY DEF PoolSucceeds, PoolAborts, StopPutTimesOut, Join, CloseFile, UserStop
<1>2. ASSUME NEW u \in Tasks
      PROVE  \/ call'[u].pc = "idle"
             \/ /\ call'[u].chunk = call[u].chunk /\ call'[u].parts = call[u].parts
                /\ call'[u].next = call[u].next /\ call[u].pc # "idle"
                /\ Active(u)' => Active(u)
  <2>1. CASE PoolAborts
    <3>1. CASE call[u].pc = "put"
      <4>1. call[u] \in Calls BY <3>1 DEF Inductive, TypeOK, Idle
      <4>2. call'[u] = [call[u] EXCEPT !.pc = "orphan"] BY <2>1, <3>1 DEF PoolAborts
      <4> QED BY <3>1, <4>1, <4>2 DEF Calls, Active
    <3>2. CASE call[u].pc # "put" BY <2>1, <3>2 DEF PoolAborts, Idle
    <3> QED BY <3>1, <3>2
  <2>2. CASE ~PoolAborts
    <3>1. call' = call
      BY <2>2 DEF PoolSucceeds, StopPutTimesOut, Join, CloseFile, UserStop
    <3> QED BY <1>1, <3>1 DEF Active
  <2> QED BY <2>1, <2>2
<1>3. \A u \in Tasks, c \in Chunks : Holds(u, c)' => Holds(u, c) BY <1>2 DEF Holds
<1>4. Exclusive' BY <1>1, <1>3, QuietStep DEF Inductive, Exclusive
<1>5. ASSUME thread # "done", NEW u \in Tasks, Active(u)' PROVE Promised(u)'
  <2>1. call'[u].pc # "idle" BY <1>5 DEF Active
  <2>2. Promised(u)
    BY <1>2, <1>5, <2>1 DEF Inductive, MarksWillHold, PromisesKept
  <2> QED BY <1>1, <1>2, <2>1, <2>2, QuietPromise
<1> QED BY <1>1, <1>4, <1>5, QuietStep DEF MarksWillHold, PromisesKept

LEMMA InductiveStep == Inductive /\ [Next]_vars => Inductive'
<1> SUFFICES ASSUME Inductive, [Next]_vars PROVE Inductive' OBVIOUS
<1>1. Typed' BY TypedStep DEF Inductive, Typed
<1>2. Exclusive' /\ MarkIsLast' /\ MarksWillHold' /\ MarkedIsWhole'
  <2>1. ASSUME NEW t \in Tasks, TaskStep(t)
        PROVE  Exclusive' /\ MarkIsLast' /\ MarksWillHold' /\ MarkedIsWhole'
    BY <2>1, BeginStep, TaskQuietStep, DropStep, PutStep, OrphanPutStep DEF TaskStep
  <2>2. CASE ThreadStep
    BY <2>2, GetsStep, PerformStep, FailsStep, ThreadQuietStep DEF ThreadStep
  <2>3. CASE OwnerStep \/ UserStop
    BY <2>3, StopPutStep, OwnerQuietStep DEF OwnerStep, StopStep
  <2>4. CASE UNCHANGED vars
    <3>1. UNCHANGED <<queue, hand, disk, marked, thread, call, stopped, completed, owner>>
      BY <2>4 DEF vars
    <3>2. Exclusive' BY <3>1, QuietStep DEF Inductive, Exclusive, Holds
    <3>3. ASSUME thread # "done", NEW u \in Tasks, Active(u)' PROVE Promised(u)'
      <4>1. Promised(u)
        BY <3>1, <3>3 DEF Active, Inductive, MarksWillHold, PromisesKept
      <4> QED BY <3>1, <4>1, QuietPromise
    <3> QED BY <3>1, <3>2, <3>3, QuietStep DEF MarksWillHold, PromisesKept
  <2> QED BY <2>1, <2>2, <2>3, <2>4 DEF Next, Finished
<1> QED BY <1>1, <1>2 DEF Inductive, Typed

\* is_on_disk never lies: whatever fails, times out or is cancelled, a reported chunk is
\* in the file whole, every part of it from the fetch that reported it.
THEOREM ReportsAreTrue == Spec => []MarkedIsWhole
<1>1. Inductive => MarkedIsWhole BY DEF Inductive
<1> QED BY <1>1, InductiveInit, InductiveStep, PTL DEF Spec

-------------------------------------------------------------------------------
\* DiskWriter implements ChunkStore.

LEMMA StoreStep == Inductive /\ [Next]_vars => [Store!Next]_(Store!vars)
<1> SUFFICES ASSUME Inductive, [Next]_vars
             PROVE  Store!Next \/ UNCHANGED <<disk, marked>>
  BY DEF Store!vars
<1>1. CASE ThreadWrites \/ ThreadTruncates \/ ThreadMarks
  <2> DEFINE c == hand.chunk
  <2>1. hand \in Commands /\ hand # Sentinel /\ thread = "work"
    BY <1>1 DEF ThreadWrites, ThreadTruncates, ThreadMarks, Inductive, TypeOK, Shape
  <2>2. c \in Chunks /\ hand.n \in Parts /\ hand.by \in Tasks BY <2>1 DEF Commands
  <2>3. ~IsOnDisk(c) BY <2>1, <2>2 DEF Inductive, MarkIsLast, IsOf
  <2>4. CASE ThreadWrites
    <3>1. Store!Store(c, hand.n, hand.by)
      BY <2>3, <2>4 DEF ThreadWrites, Store!Store, Store!IsOnDisk, IsOnDisk
    <3> QED BY <2>2, <3>1 DEF Store!Next, Store!StepOf, Store!Parts, Parts
  <2>5. CASE ThreadTruncates
    <3>1. Store!Cut(c, hand.n)
      BY <2>3, <2>5 DEF ThreadTruncates, Store!Cut, Store!IsOnDisk, IsOnDisk, Store!Parts, Parts
    <3> QED BY <2>2, <3>1 DEF Store!Next, Store!StepOf, Store!Parts, Parts
  <2>6. CASE ThreadMarks
    <3>1. Whole(0, c, hand.n, hand.by)
      BY <2>1, <2>2, <2>6 DEF ThreadMarks, Inductive, MarksWillHold, MarksSettled, IsMark
    <3>2. \A p \in 1..hand.n : disk[c][p] = hand.by
      BY <2>6, <3>1 DEF ThreadMarks, Whole, Settled, Gives
    <3>3. ~SizeKnown => \A p \in (hand.n + 1)..NumParts : disk[c][p] = Hole
      BY <2>6, <3>1 DEF ThreadMarks, Whole, Settled, Gives
    <3>4. Store!Report(c, hand.n, hand.by)
      BY <2>3, <2>6, <3>2, <3>3 DEF ThreadMarks, Store!Report, Store!IsOnDisk, IsOnDisk
    <3> QED BY <2>2, <3>4 DEF Store!Next, Store!StepOf, Store!Parts, Parts
  <2> QED BY <1>1, <2>4, <2>5, <2>6
<1>2. CASE \E t \in Tasks : TaskStep(t)
  BY <1>2 DEF TaskStep, Begin, Fail, Offer, Drop, Put, PutTimesOut, OrphanPut, OrphanTimesOut
<1>3. CASE ThreadChecks \/ ThreadGets \/ ThreadGetTimesOut \/ ThreadFails
  BY <1>3 DEF ThreadChecks, ThreadGets, ThreadGetTimesOut, ThreadFails
<1>4. CASE OwnerStep \/ UserStop
  BY <1>4 DEF OwnerStep, UserStop, PoolSucceeds, PoolAborts, StopStep, StopPut,
              StopPutTimesOut, Join, CloseFile
<1>5. CASE UNCHANGED vars BY <1>5 DEF vars
<1> QED BY <1>1, <1>2, <1>3, <1>4, <1>5 DEF Next, ThreadStep, Finished

\* Seen through is_on_disk and the file, the writer with its queue, threads, timeouts
\* and errors behaves as a ChunkStore: a reported chunk is never touched again.
THEOREM WriterImplementsStore == Spec => StoreSpec
<1>1. Init => Store!Init BY DiskWriterAssumption DEF DiskWriterAssumption, Init, Store!Init, Store!Parts, Parts
<1> QED BY <1>1, InductiveInit, InductiveStep, StoreStep, PTL DEF Spec, StoreSpec, Store!Spec

-------------------------------------------------------------------------------
\* What is completed is not lost, until the stop event is set.

LEMMA OrderlyStep == Inductive /\ OrderlyEnd /\ [Next]_vars => OrderlyEnd'
<1> SUFFICES ASSUME Inductive, OrderlyEnd, [Next]_vars, ~stopped' PROVE OrderlyEnd'
  BY DEF OrderlyEnd
<1>1. Len(queue) \in Nat /\ queue \in Seq(Items) /\ Idle.pc = "idle"
  BY DEF Inductive, TypeOK, Items, Idle
<1>2. CASE \E t \in Tasks : TaskStep(t)
  <2>1. PICK t \in Tasks : TaskStep(t) BY <1>2
  <2>2. UNCHANGED <<thread, stopped, owner>> /\ ~stopped
    BY <2>1 DEF TaskStep, Begin, Fail, Offer, Drop, Put, PutTimesOut, OrphanPut, OrphanTimesOut
  <2>3. owner = "pool"
    BY <2>1, <2>2 DEF OrderlyEnd, TaskStep, Begin, Fail, Offer, Drop, Put, PutTimesOut,
                      OrphanPut, OrphanTimesOut, Idle
  <2>4. queue' = queue \/ queue' = Append(queue, Command(t))
    BY <2>1 DEF TaskStep, Begin, Fail, Offer, Drop, Put, PutTimesOut, OrphanPut, OrphanTimesOut
  <2>5. Command(t) # Sentinel BY DEF Command, Sentinel
  <2>6. \A i \in 1..Len(queue') : queue'[i] # Sentinel
    BY <1>1, <2>2, <2>3, <2>4, <2>5 DEF OrderlyEnd
  <2>7. \A u \in Tasks : call'[u].pc # "orphan"
    <3> USE DEF OrderlyEnd, Inductive, TypeOK
    <3>1. CASE Drop(t) \/ Put(t)
      <4>1. call[t].pc # "idle" /\ Return(t) BY <3>1 DEF Drop, Put
      <4> QED BY <1>1, <2>2, <4>1, ReturnEffect
    <3>2. CASE \E c \in Chunks, n \in Parts : Begin(t, c, n) BY <2>2, <3>2 DEF Begin
    <3>3. CASE Fail(t) \/ OrphanPut(t) \/ OrphanTimesOut(t)
      BY <1>1, <2>2, <3>3 DEF Fail, OrphanPut, OrphanTimesOut
    <3>4. CASE Offer(t)
      <4>1. call[t] \in Calls BY <3>4 DEF Offer, Idle
      <4> QED BY <2>2, <3>4, <4>1 DEF Offer, Calls
    <3>5. CASE PutTimesOut(t)
      <4>1. call[t] \in Calls BY <3>5 DEF PutTimesOut, Idle
      <4> QED BY <2>2, <3>5, <4>1 DEF PutTimesOut, Calls
    <3> QED BY <2>1, <3>1, <3>2, <3>3, <3>4, <3>5 DEF TaskStep
  <2> QED BY <2>2, <2>3, <2>6, <2>7 DEF OrderlyEnd
<1>3. CASE ThreadGets
  <2>1. /\ \A j \in 1..Len(queue') : j + 1 \in 1..Len(queue) /\ queue'[j] = queue[j + 1]
        /\ Len(queue') = Len(queue) - 1 /\ queue # <<>> /\ 1 \in 1..Len(queue)
        /\ Head(queue) = queue[1]
    BY <1>1, <1>3 DEF ThreadGets
  <2>2. /\ UNCHANGED <<call, owner, stopped>> /\ ~stopped /\ thread = "get"
        /\ thread' = "done" => Head(queue) = Sentinel
    BY <1>3 DEF ThreadGets
  <2>3. thread' = "done" => Len(queue) = 1 /\ owner \notin {"pool", "stop"}
    BY <2>1, <2>2 DEF OrderlyEnd
  <2>4. thread' = "done" => queue' = <<>> BY <1>1, <1>3, <2>1, <2>3 DEF ThreadGets
  <2>5. \A i \in 1..Len(queue') : queue'[i] = Sentinel => i = Len(queue')
    BY <1>1, <2>1, <2>2 DEF OrderlyEnd
  <2> QED BY <2>1, <2>2, <2>3, <2>4, <2>5 DEF OrderlyEnd
<1>4. CASE ThreadStep /\ ~ThreadGets
  BY <1>4 DEF ThreadStep, ThreadChecks, ThreadGetTimesOut, ThreadWrites, ThreadTruncates,
              ThreadMarks, ThreadFails, Performed, OrderlyEnd
<1>5. CASE StopPut
  <2>1. /\ \A j \in 1..Len(queue) : queue'[j] = queue[j]
        /\ Len(queue') = Len(queue) + 1 /\ owner = "stop" /\ owner' = "join"
        /\ UNCHANGED <<call, thread, stopped>>
    BY <1>1, <1>5 DEF StopPut
  <2>2. \A i \in 1..Len(queue') : i \in 1..Len(queue) \/ i = Len(queue') BY <1>1, <2>1
  <2> QED BY <2>1, <2>2 DEF OrderlyEnd
<1>6. CASE PoolSucceeds \/ PoolAborts
  BY <1>1, <1>6 DEF PoolSucceeds, PoolAborts, OrderlyEnd
<1>7. CASE StopPutTimesOut \/ Join \/ CloseFile \/ UserStop
  BY <1>7 DEF StopPutTimesOut, Join, CloseFile, UserStop, OrderlyEnd
<1>8. CASE UNCHANGED vars BY <1>8 DEF vars, OrderlyEnd
<1> QED BY <1>2, <1>3, <1>4, <1>5, <1>6, <1>7, <1>8 DEF Next, OwnerStep, StopStep, Finished

\* The end of a writer's life, and what is completed until then.
Orderly == Inductive /\ OrderlyEnd /\ NoSilentLoss

LEMMA OrderlyInit == Init => Orderly
<1> SUFFICES ASSUME Init PROVE OrderlyEnd /\ NoSilentLoss
  BY InductiveInit DEF Orderly
<1>1. OrderlyEnd BY DEF Init, OrderlyEnd, Idle
<1>2. PICK resumed \in SUBSET Chunks :
        /\ completed = resumed
        /\ marked = {[chunk |-> c, parts |-> NumParts, by |-> Earlier] : c \in resumed}
  BY DEF Init
<1>3. ASSUME NEW c \in completed PROVE IsOnDisk(c)
  <2>1. [chunk |-> c, parts |-> NumParts, by |-> Earlier] \in marked BY <1>2
  <2> QED BY <2>1 DEF IsOnDisk
<1> QED BY <1>1, <1>3 DEF NoSilentLoss, Reported

LEMMA NoLossStep == Orderly /\ [Next]_vars => NoSilentLoss'
<1> SUFFICES ASSUME Orderly, [Next]_vars, ~stopped', NEW c \in completed'
             PROVE  Reported(c)'
  BY DEF NoSilentLoss
<1>1. Len(queue) \in Nat /\ queue \in Seq(Items) /\ c \in Chunks
  BY InductiveStep DEF Orderly, Inductive, TypeOK, Items
<1>2. ~stopped => \A d \in completed : Reported(d) BY DEF Orderly, NoSilentLoss
<1>3. CASE UNCHANGED <<queue, hand, marked, completed>> /\ ~stopped
  BY <1>2, <1>3 DEF Reported, IsOnDisk, IsMark
<1>4. ASSUME NEW x, queue' = Append(queue, x), UNCHANGED <<hand, marked>>, Reported(c)
      PROVE  Reported(c)'
  <2>1. \A j \in 1..Len(queue) : j \in 1..Len(queue') /\ queue'[j] = queue[j] BY <1>1, <1>4
  <2> QED BY <1>4, <2>1 DEF Reported, IsOnDisk, IsMark
<1>5. ASSUME NEW t \in Tasks, TaskStep(t) PROVE Reported(c)'
  <2>1. CASE Put(t)
    <3>1. /\ ~stopped /\ call[t].pc = "put" /\ Return(t)
          /\ queue' = Append(queue, Command(t)) /\ UNCHANGED <<hand, marked>>
      BY <2>1 DEF Put
    <3>2. CASE c \in completed BY <1>2, <1>4, <3>1, <3>2
    <3>3. CASE c \notin completed
      <4>1. c = call[t].chunk /\ call[t].next = MarkStep(call[t])
        BY <3>1, <3>3, ReturnEffect DEF Orderly
      <4>2. IsMark(Command(t), c)
        BY <1>1, <3>1, <4>1, CommandIsDue DEF Orderly, IsMark, IsOf
      <4>3. Len(queue') = Len(queue) + 1 /\ queue'[Len(queue) + 1] = Command(t)
        BY <1>1, <3>1
      <4>4. Len(queue') \in 1..Len(queue') /\ queue'[Len(queue')] = Command(t) BY <1>1, <4>3
      <4>5. \E i \in 1..Len(queue') : IsMark(queue'[i], c) BY <4>2, <4>4
      <4> QED BY <4>5 DEF Reported, IsMark
    <3> QED BY <3>2, <3>3
  <2>2. CASE OrphanPut(t)
    <3>1. completed' = completed /\ ~stopped BY <2>2 DEF OrphanPut
    <3> QED BY <1>2, <1>4, <2>2, <3>1 DEF OrphanPut
  <2> QED BY <1>3, <1>5, <2>1, <2>2
          DEF TaskStep, Begin, Fail, Offer, Drop, PutTimesOut, OrphanTimesOut
<1>6. CASE ThreadGets
  <2>1. /\ \A j \in 1..Len(queue) : j = 1 \/ (j - 1 \in 1..Len(queue') /\ queue[j] = queue'[j - 1])
        /\ Head(queue) = queue[1]
    BY <1>1, <1>6 DEF ThreadGets
  <2>2. UNCHANGED <<marked, completed>> /\ ~stopped /\ ~IsMark(hand, c)
        /\ (Head(queue) = Sentinel \/ hand' = Head(queue))
    BY <1>6 DEF ThreadGets, Orderly, Inductive, Shape, IsMark
  <2>3. Reported(c) BY <1>2, <2>2
  <2> QED BY <2>1, <2>2, <2>3 DEF Reported, IsOnDisk, IsMark
<1>7. CASE ThreadWrites \/ ThreadTruncates \/ ThreadMarks
  <2>1. UNCHANGED <<queue, completed>> /\ ~stopped /\ Reported(c)
    BY <1>2, <1>7 DEF ThreadWrites, ThreadTruncates, ThreadMarks, Performed
  <2>2. marked \subseteq marked' BY <1>7 DEF ThreadWrites, ThreadTruncates, ThreadMarks
  <2>3. ASSUME IsMark(hand, c) PROVE IsOnDisk(c)'
    <3>1. [chunk |-> hand.chunk, parts |-> hand.n, by |-> hand.by] \in marked'
      BY <1>7, <2>3 DEF ThreadWrites, ThreadTruncates, ThreadMarks, IsMark
    <3>2. hand.chunk = c BY <2>3 DEF IsMark
    <3> QED BY <3>1, <3>2 DEF IsOnDisk
  <2> QED BY <2>1, <2>2, <2>3 DEF Reported, IsOnDisk, IsMark
<1>8. CASE StopPut
  <2>1. completed' = completed /\ ~stopped BY <1>8 DEF StopPut
  <2> QED BY <1>2, <1>4, <1>8, <2>1 DEF StopPut
<1>9. CASE ThreadChecks \/ ThreadGetTimesOut \/ ThreadFails
  BY <1>3, <1>9 DEF ThreadChecks, ThreadGetTimesOut, ThreadFails
<1>10. CASE PoolSucceeds \/ PoolAborts \/ StopPutTimesOut \/ Join \/ CloseFile \/ UserStop
  BY <1>3, <1>10 DEF PoolSucceeds, PoolAborts, StopPutTimesOut, Join, CloseFile, UserStop
<1>11. CASE UNCHANGED vars BY <1>3, <1>11 DEF vars
<1> QED BY <1>5, <1>6, <1>7, <1>8, <1>9, <1>10, <1>11
        DEF Next, ThreadStep, OwnerStep, StopStep, Finished

LEMMA OrderlyInvariant == Spec => []Orderly
<1>1. Orderly /\ [Next]_vars => Orderly' BY InductiveStep, OrderlyStep, NoLossStep DEF Orderly
<1> QED BY <1>1, OrderlyInit, PTL DEF Spec

\* As long as nobody sets the stop event, the mark of every completed chunk is performed
\* or on its way: none is dropped by a timeout, a full queue or a failed fetch.
THEOREM CompletionsAreNotLost == Spec => []NoSilentLoss
<1>1. Orderly => NoSilentLoss BY DEF Orderly
<1> QED BY <1>1, OrderlyInvariant, PTL

\* When no timeout of stop() expires on a working thread, stop() finishes the remaining
\* writes: it returns with every completed chunk on disk, or with the stop event set.
THEOREM StopIsComplete ==
  ASSUME ~SlowDisk
  PROVE  Spec => []StopFinishesWrites
<1>1. Init => JoinIsSound BY DEF Init, JoinIsSound
<1>2. JoinIsSound /\ [Next]_vars => JoinIsSound'
  <2> SUFFICES ASSUME JoinIsSound, [Next]_vars PROVE JoinIsSound' OBVIOUS
  <2>1. CASE \E t \in Tasks : TaskStep(t)
    BY <2>1 DEF JoinIsSound, TaskStep, Begin, Fail, Offer, Drop, Put, PutTimesOut, OrphanPut,
                OrphanTimesOut
  <2>2. CASE ThreadStep
    BY <2>2 DEF JoinIsSound, ThreadStep, ThreadChecks, ThreadGets, ThreadGetTimesOut,
                ThreadWrites, ThreadTruncates, ThreadMarks, ThreadFails, Performed
  <2>3. CASE OwnerStep \/ UserStop
    BY <2>3 DEF JoinIsSound, OwnerStep, UserStop, PoolSucceeds, PoolAborts, StopStep, StopPut,
                StopPutTimesOut, Join, CloseFile
  <2>4. CASE UNCHANGED vars BY <2>4 DEF vars, JoinIsSound
  <2> QED BY <2>1, <2>2, <2>3, <2>4 DEF Next, Finished
<1>3. Orderly /\ JoinIsSound => StopFinishesWrites
  <2> SUFFICES ASSUME Orderly, JoinIsSound, owner = "joined", ~stopped, NEW c \in completed
               PROVE  IsOnDisk(c)
    BY DEF StopFinishesWrites
  <2>1. thread = "done" BY DEF JoinIsSound
  <2>2. queue = <<>> /\ hand = Sentinel
    BY <2>1 DEF Orderly, OrderlyEnd, Inductive, Shape
  <2>3. Reported(c) BY DEF Orderly, NoSilentLoss
  <2> QED BY <2>2, <2>3 DEF Reported, IsMark
<1> QED BY <1>1, <1>2, <1>3, OrderlyInvariant, PTL DEF Spec
===============================================================================
