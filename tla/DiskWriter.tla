------------------------------ MODULE DiskWriter ------------------------------
(***************************************************************************)
(* The queue-based disk writer (writer.py) between the tasks that fetch    *)
(* chunks and the destination file.                                        *)
(*                                                                         *)
(* A fetch calls write once per flushed part, then, when the file's size   *)
(* is unknown, truncate, then mark_complete.  A call puts one command in a *)
(* bounded FIFO queue from an executor thread, with a timeout, and goes    *)
(* round its loop while the thread-level stop event is not set: once it is *)
(* set the call returns without having queued anything.  One writer thread *)
(* takes the commands and performs them.  The owner (Downloader.start)     *)
(* ends the pool of fetches, calls stop(), sets the event and closes the   *)
(* file descriptor.                                                        *)
(***************************************************************************)
EXTENDS Naturals, Sequences, FiniteSets

CONSTANTS
  Chunks,       \* the chunk indices of the file
  NumParts,     \* the most parts (flushes of the fetch buffer) of one chunk
  Tasks,        \* the fetching worker tasks, one mirror each
  Earlier,      \* the origin of what an earlier session wrote
  Hole,         \* the content of a part nobody has written yet
  MaxSize,      \* maxsize of the command queue
  SizeKnown,    \* FALSE: total_size <= 0, every fetch ends with a truncate
  DiskMayFail,  \* TRUE: pwrite and ftruncate may raise OSError
  SlowDisk,     \* TRUE: the timeouts of stop() may expire on a live thread
  MaxFailures   \* bound: how many fetches may fail half way

\* A file of unknown size is one chunk fetched by one task (_apply_probe_fallback).
ASSUME DiskWriterAssumption ==
  /\ NumParts \in Nat \ {0}
  /\ MaxSize \in Nat \ {0}
  /\ MaxFailures \in Nat
  /\ SizeKnown \in BOOLEAN /\ DiskMayFail \in BOOLEAN /\ SlowDisk \in BOOLEAN
  /\ Earlier \notin Tasks
  /\ Hole \notin Tasks \cup {Earlier}

VARIABLES
  queue,        \* _queue: the commands not yet taken
  hand,         \* the command the writer thread is performing
  thread,       \* where the writer thread is in _run
  stopped,      \* the thread-level stop event
  error,        \* _error is not None
  disk,         \* disk[c][p]: who wrote part p of chunk c, or Hole
  marked,       \* _disk_completed; a report keeps who made it and how long it was
  call,         \* call[t]: the fetch task t is in, and its current writer call
  completed,    \* the pool's _completed_set
  owner,        \* where Downloader.start is
  failures      \* fetches that failed so far

vars == <<queue, hand, thread, stopped, error, disk, marked, call, completed,
          owner, failures>>

Parts   == 1..NumParts
Origins == Tasks \cup {Earlier}

Sentinel == [op |-> "sentinel"]
Commands == [op : {"write", "truncate", "mark"}, chunk : Chunks, n : Parts, by : Tasks]
Idle     == [pc |-> "idle"]
Calls    == [pc : {"ready", "retry", "put", "orphan"}, chunk : Chunks,
             parts : Parts, next : 1..(NumParts + 2)]
Marks    == [chunk : Chunks, parts : Parts, by : Origins]

IsOnDisk(c) == \E m \in marked : m.chunk = c

\* Slip: the queue takes one command more than its maxsize.
FullTooLate == Len(queue) > MaxSize

Full == Len(queue) >= MaxSize

Holds(t, c) == call[t].pc # "idle" /\ call[t].chunk = c

-------------------------------------------------------------------------------
\* The writer calls of a fetch, numbered from 1: its parts, then truncate when
\* the size is unknown, then mark_complete.

\* Slip: a file of unknown size is marked without the truncate.
MarkStepNoTruncate(r) == r.parts + 1

MarkStep(r) == IF SizeKnown THEN r.parts + 1 ELSE r.parts + 2

\* Slip: the mark goes before the truncate.
OpAtMarkFirst(r) == IF r.next <= r.parts THEN "write"
                    ELSE IF r.next = r.parts + 1 THEN "mark" ELSE "truncate"

OpAt(r) == IF r.next <= r.parts THEN "write"
           ELSE IF r.next = MarkStep(r) THEN "mark" ELSE "truncate"

Command(t) ==
  LET r == call[t]
  IN  [op |-> OpAt(r), chunk |-> r.chunk, by |-> t,
       n |-> IF r.next <= r.parts THEN r.next ELSE r.parts]

Init ==
  /\ queue = <<>>
  /\ hand = Sentinel
  /\ thread = "loop"
  /\ stopped = FALSE
  /\ error = FALSE
  /\ call = [t \in Tasks |-> Idle]
  /\ owner = "pool"
  /\ failures = 0
  /\ \E resumed \in SUBSET Chunks :
       /\ completed = resumed
       /\ disk = [c \in Chunks |->
                    [p \in Parts |-> IF c \in resumed THEN Earlier ELSE Hole]]
       /\ marked = {[chunk |-> c, parts |-> NumParts, by |-> Earlier] : c \in resumed}

-------------------------------------------------------------------------------
\* The fetch tasks.  A chunk is in the hands of one task at a time and is not
\* fetched again once completed: the worker pool sees to that.

Begin(t, c, n) ==
  /\ owner = "pool"
  /\ call[t] = Idle
  /\ c \notin completed
  /\ \A u \in Tasks : ~Holds(u, c)
  /\ SizeKnown => n = NumParts
  /\ call' = [call EXCEPT ![t] = [pc |-> "ready", chunk |-> c, parts |-> n, next |-> 1]]
  /\ UNCHANGED <<queue, hand, thread, stopped, error, disk, marked, completed,
                 owner, failures>>

\* The fetch raises between two writer calls (connection lost, slow mirror, stop).
Fail(t) ==
  /\ call[t].pc = "ready"
  /\ failures < MaxFailures
  /\ call' = [call EXCEPT ![t] = Idle]
  /\ failures' = failures + 1
  /\ UNCHANGED <<queue, hand, thread, stopped, error, disk, marked, completed, owner>>

\* The loop test of a call finds the event clear: the put starts in its thread.
Offer(t) ==
  /\ call[t].pc \in {"ready", "retry"}
  /\ ~stopped
  /\ call' = [call EXCEPT ![t].pc = "put"]
  /\ UNCHANGED <<queue, hand, thread, stopped, error, disk, marked, completed,
                 owner, failures>>

\* A writer call returns to the fetch; after the last one the fetch succeeds and
\* _process_chunk adds the chunk to the completed set.
Return(t) ==
  LET r == call[t]
  IN  IF r.next = MarkStep(r)
      THEN /\ call' = [call EXCEPT ![t] = Idle]
           /\ completed' = completed \cup {r.chunk}
      ELSE /\ call' = [call EXCEPT ![t] = [pc |-> "ready", chunk |-> r.chunk,
                                          parts |-> r.parts, next |-> r.next + 1]]
           /\ UNCHANGED completed

\* The loop test finds the event set: the call returns, nothing is queued.
Drop(t) ==
  /\ call[t].pc \in {"ready", "retry"}
  /\ stopped
  /\ Return(t)
  /\ UNCHANGED <<queue, hand, thread, stopped, error, disk, marked, owner, failures>>

Put(t) ==
  /\ call[t].pc = "put"
  /\ ~Full
  /\ queue' = Append(queue, Command(t))
  /\ Return(t)
  /\ UNCHANGED <<hand, thread, stopped, error, disk, marked, owner, failures>>

\* Slip: queue.Full is taken for a success.
PutTimesOutSwallowed(t) ==
  /\ call[t].pc = "put"
  /\ Full
  /\ Return(t)
  /\ UNCHANGED <<queue, hand, thread, stopped, error, disk, marked, owner, failures>>

\* Slip: the put is repeated without a look at the stop event.
PutTimesOutRepeats(t) == call[t].pc = "put" /\ Full /\ UNCHANGED vars

\* queue.Full after one second: back to the loop test, the same command in hand.
PutTimesOut(t) ==
  /\ call[t].pc = "put"
  /\ Full
  /\ call' = [call EXCEPT ![t].pc = "retry"]
  /\ UNCHANGED <<queue, hand, thread, stopped, error, disk, marked, completed,
                 owner, failures>>

\* The task was cancelled while its put was running: the executor thread goes on.
OrphanPut(t) ==
  /\ call[t].pc = "orphan"
  /\ ~Full
  /\ queue' = Append(queue, Command(t))
  /\ call' = [call EXCEPT ![t] = Idle]
  /\ UNCHANGED <<hand, thread, stopped, error, disk, marked, completed, owner, failures>>

OrphanTimesOut(t) ==
  /\ call[t].pc = "orphan"
  /\ Full
  /\ call' = [call EXCEPT ![t] = Idle]
  /\ UNCHANGED <<queue, hand, thread, stopped, error, disk, marked, completed,
                 owner, failures>>

-------------------------------------------------------------------------------
\* The writer thread.

ThreadChecks ==
  /\ thread = "loop"
  /\ thread' = IF stopped THEN "done" ELSE "get"
  /\ UNCHANGED <<queue, hand, stopped, error, disk, marked, call, completed,
                 owner, failures>>

ThreadGets ==
  /\ thread = "get"
  /\ queue # <<>>
  /\ queue' = Tail(queue)
  /\ IF Head(queue) = Sentinel
     THEN thread' = "done" /\ UNCHANGED hand
     ELSE thread' = "work" /\ hand' = Head(queue)
  /\ UNCHANGED <<stopped, error, disk, marked, call, completed, owner, failures>>

ThreadGetTimesOut ==
  /\ thread = "get"
  /\ queue = <<>>
  /\ thread' = "loop"
  /\ UNCHANGED <<queue, hand, stopped, error, disk, marked, call, completed,
                 owner, failures>>

Performed ==
  /\ thread' = "loop"
  /\ hand' = Sentinel
  /\ UNCHANGED <<queue, stopped, error, call, completed, owner, failures>>

ThreadWrites ==
  /\ thread = "work" /\ hand.op = "write" /\ owner # "closed"
  /\ disk' = [disk EXCEPT ![hand.chunk][hand.n] = hand.by]
  /\ UNCHANGED marked
  /\ Performed

ThreadTruncates ==
  /\ thread = "work" /\ hand.op = "truncate" /\ owner # "closed"
  /\ disk' = [disk EXCEPT ![hand.chunk] =
                [p \in Parts |-> IF p > hand.n THEN Hole ELSE disk[hand.chunk][p]]]
  /\ UNCHANGED marked
  /\ Performed

ThreadMarks ==
  /\ thread = "work" /\ hand.op = "mark"
  /\ marked' = marked \cup {[chunk |-> hand.chunk, parts |-> hand.n, by |-> hand.by]}
  /\ UNCHANGED disk
  /\ Performed

\* Slip: the thread notes the error and goes on with the next command.
ThreadFailsAndGoesOn ==
  /\ thread = "work" /\ hand.op \in {"write", "truncate"}
  /\ DiskMayFail \/ owner = "closed"
  /\ error' = TRUE
  /\ thread' = "loop"
  /\ hand' = Sentinel
  /\ UNCHANGED <<queue, stopped, disk, marked, call, completed, owner, failures>>

\* OSError from pwrite or ftruncate: of the disk, or because the descriptor is closed.
ThreadFails ==
  /\ thread = "work" /\ hand.op \in {"write", "truncate"}
  /\ DiskMayFail \/ owner = "closed"
  /\ thread' = "done"
  /\ hand' = Sentinel
  /\ error' = TRUE
  /\ stopped' = TRUE
  /\ UNCHANGED <<queue, disk, marked, call, completed, owner, failures>>

-------------------------------------------------------------------------------
\* The owner: Downloader.start around and after pool.run, and the user's stop.

UserStop ==
  /\ owner \in {"pool", "stop", "join"}
  /\ ~stopped
  /\ stopped' = TRUE
  /\ UNCHANGED <<queue, hand, thread, error, disk, marked, call, completed, owner,
                 failures>>

PoolSucceeds ==
  /\ owner = "pool"
  /\ completed = Chunks
  /\ \A t \in Tasks : call[t] = Idle
  /\ owner' = "stop"
  /\ UNCHANGED <<queue, hand, thread, stopped, error, disk, marked, call, completed,
                 failures>>

\* The pool gives up: what is still running is cancelled, the stop event is set.
PoolAborts ==
  /\ owner = "pool"
  /\ call' = [t \in Tasks |-> IF call[t].pc = "put" THEN [call[t] EXCEPT !.pc = "orphan"]
                              ELSE Idle]
  /\ stopped' = TRUE
  /\ owner' = "stop"
  /\ UNCHANGED <<queue, hand, thread, error, disk, marked, completed, failures>>

\* Slip: the sentinel overtakes the commands.
StopPutFirst ==
  /\ owner = "stop"
  /\ ~Full
  /\ queue' = <<Sentinel>> \o queue
  /\ owner' = "join"
  /\ UNCHANGED <<hand, thread, stopped, error, disk, marked, call, completed, failures>>

StopPut ==
  /\ owner = "stop"
  /\ ~Full
  /\ queue' = Append(queue, Sentinel)
  /\ owner' = "join"
  /\ UNCHANGED <<hand, thread, stopped, error, disk, marked, call, completed, failures>>

\* Slip: stop() puts the sentinel without a timeout.
StopPutTimesOutRepeats == owner = "stop" /\ Full /\ UNCHANGED vars

\* A live thread that is not held up by the disk makes room within the second.
StopPutTimesOut ==
  /\ owner = "stop"
  /\ Full
  /\ thread = "done" \/ SlowDisk
  /\ owner' = "join"
  /\ UNCHANGED <<queue, hand, thread, stopped, error, disk, marked, call, completed,
                 failures>>

Join ==
  /\ owner = "join"
  /\ thread = "done" \/ SlowDisk
  /\ owner' = "joined"
  /\ UNCHANGED <<queue, hand, thread, stopped, error, disk, marked, call, completed,
                 failures>>

CloseFile ==
  /\ owner = "joined"
  /\ owner' = "closed"
  /\ stopped' = TRUE
  /\ UNCHANGED <<queue, hand, thread, error, disk, marked, call, completed, failures>>

-------------------------------------------------------------------------------
TaskStep(t) ==
  \/ \E c \in Chunks, n \in Parts : Begin(t, c, n)
  \/ Fail(t) \/ Offer(t) \/ Drop(t) \/ Put(t) \/ PutTimesOut(t)
  \/ OrphanPut(t) \/ OrphanTimesOut(t)

ThreadStep ==
  \/ ThreadChecks \/ ThreadGets \/ ThreadGetTimesOut
  \/ ThreadWrites \/ ThreadTruncates \/ ThreadMarks \/ ThreadFails

StopStep == StopPut \/ StopPutTimesOut \/ Join

OwnerStep == PoolSucceeds \/ PoolAborts \/ StopStep \/ CloseFile

\* Everything has returned: the only state in which nothing is left to do.
Finished ==
  /\ owner = "closed" /\ thread = "done"
  /\ \A t \in Tasks : call[t] = Idle
  /\ UNCHANGED vars

Next ==
  \/ \E t \in Tasks : TaskStep(t)
  \/ ThreadStep \/ OwnerStep \/ UserStop \/ Finished

Spec == Init /\ [][Next]_vars

\* The operating system runs every thread and expires every timeout; the fetches
\* go on until they are done; nothing obliges a fetch to fail, the pool to give
\* up or the user to stop.
Fairness ==
  /\ WF_vars(ThreadStep)
  /\ WF_vars(PoolSucceeds)
  /\ WF_vars(StopStep \/ CloseFile)
  /\ \A t \in Tasks :
       /\ WF_vars(\E c \in Chunks, n \in Parts : Begin(t, c, n))
       /\ WF_vars(Offer(t) \/ Drop(t))
       /\ WF_vars(Put(t) \/ PutTimesOut(t))
       /\ WF_vars(OrphanPut(t) \/ OrphanTimesOut(t))

FairSpec == Spec /\ Fairness

-------------------------------------------------------------------------------
\* Every variable keeps to its type; the queue never exceeds its maxsize.
TypeOK ==
  /\ queue \in Seq(Commands \cup {Sentinel}) /\ Len(queue) <= MaxSize
  /\ hand \in Commands \cup {Sentinel}
  /\ thread \in {"loop", "get", "work", "done"}
  /\ stopped \in BOOLEAN /\ error \in BOOLEAN
  /\ disk \in [Chunks -> [Parts -> Origins \cup {Hole}]]
  /\ marked \subseteq Marks
  /\ call \in [Tasks -> Calls \cup {Idle}]
  /\ completed \subseteq Chunks
  /\ owner \in {"pool", "stop", "join", "joined", "closed"}
  /\ failures \in 0..MaxFailures

\* What a mark promises: all parts of the chunk are in the file, every one from
\* the fetch that reported it, and nothing beyond them.
MarkHolds(m) ==
  /\ \A p \in 1..m.parts : disk[m.chunk][p] = m.by
  /\ ~SizeKnown => \A p \in (m.parts + 1)..NumParts : disk[m.chunk][p] = Hole

\* is_on_disk never lies, whatever failed, timed out or was cancelled: a chunk it
\* reports is in the file whole, with no part left over from an earlier, failed
\* fetch of it (write, mark_complete and truncate against _run).
MarkedIsWhole == \A m \in marked : MarkHolds(m)

IsMark(x, c) == x # Sentinel /\ x.op = "mark" /\ x.chunk = c

\* The chunk is on disk, or its mark is still to be performed.
Reported(c) ==
  \/ IsOnDisk(c)
  \/ IsMark(hand, c)
  \/ \E i \in 1..Len(queue) : IsMark(queue[i], c)

\* While the stop event is not set no completion is lost on the way: the mark of
\* every successful fetch is performed, or will be.
NoSilentLoss == ~stopped => \A c \in completed : Reported(c)

\* stop() finishes the remaining writes (writer.py:127): when it has returned and
\* nobody has set the stop event, every completed chunk is on disk.
StopFinishesWrites ==
  owner = "joined" /\ ~stopped => \A c \in completed : IsOnDisk(c)

\* No writer call hangs: not on a full queue whose thread has died, and not in the
\* retry loop when the stop event is set.
CallsReturn ==
  \A t \in Tasks : call[t].pc \in {"put", "retry", "orphan"} ~> call[t].pc \in {"ready", "idle"}

\* stop() returns, and the writer thread ends once the owner is through with it.
WriterEnds == (owner = "stop" ~> owner = "joined") /\ (owner = "joined" ~> thread = "done")

\* DiskWriter does what ChunkStore promises.
Store == INSTANCE ChunkStore WITH
           Chunks <- Chunks, NumParts <- NumParts, Tasks <- Tasks, Earlier <- Earlier,
           Hole <- Hole, disk <- disk, marked <- marked, known <- SizeKnown
StoreSpec == Store!Spec
===============================================================================
