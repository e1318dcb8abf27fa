-------------------------------- MODULE Fetcher --------------------------------
(***************************************************************************)
(* fetch() of ChunkFetcher (fetcher.py), by several tasks at once, with    *)
(* the rate limiter and the mirror bans they share.                        *)
(*                                                                         *)
(* The file is a sequence of units (the network delivers whole units).  A  *)
(* fetch asks its mirror for the units of a chunk, takes the pieces that   *)
(* come through the rate limiter, clamps them, collects them in its buffer *)
(* and hands full buffers to the writer.  Between two awaits it has the    *)
(* event loop to itself.  What the writer has accepted counts as written:  *)
(* it performs it in order (DiskWriter).  A memory-mapped writer copies at *)
(* once (mmap_writer.py).                                                  *)
(***************************************************************************)
EXTENDS Integers, Sequences, FiniteSets, Sums

CONSTANTS
  Tasks,        \* the worker tasks
  Sources,      \* the mirrors
  Settings,     \* the downloads: records as described by Setting
  MaxChunks,    \* the most chunks
  NumParts,     \* the most flushes of a chunk
  MaxPiece,     \* the most units of a piece
  Burst, SlowBan, FailBan, RetryAfter,   \* see TokenBucket and MirrorHealth
  Grace,        \* speed_grace_period
  MaxRates,     \* bound: changes of the rate
  Hole, Earlier

Chunks == 0..(MaxChunks - 1)
Parts  == 1..NumParts

Kinds == {"exact", "generous", "plain"}

\* What is fixed when the tasks start.  A mirror that knows ranges sends what was asked
\* for, or more ("generous"); a "plain" one sends the file whatever was asked for.
Setting ==
  [size : Nat,        \* the units of the file
   told : Nat,        \* metadata.total_size, 0 when the probe did not tell
   ranges : BOOLEAN,  \* metadata.accepts_ranges
   chunk : Nat,       \* chunk_size
   window : Nat,      \* the flush threshold, min(_FLUSH_THRESHOLD, chunk_size)
   mmap : BOOLEAN,    \* the writer is memory-mapped
   lingers : BOOLEAN, \* leaving a response early may suspend the fetch (aiohttp)
   rate : Nat,        \* the global rate limit, 0 for None
   rates : SUBSET Nat, \* what set_speed_limit changes it to
   minimum : Nat,     \* min_speed, in units per tick
   faults : Nat,      \* bound: connections that break or end early
   source : [Tasks -> Sources],
   kind : [Sources -> Kinds]]

ASSUME FetcherAssumption ==
  /\ IsFiniteSet(Tasks) /\ IsFiniteSet(Sources) /\ Sources # {}
  /\ Settings \subseteq Setting
  /\ \A s \in Settings :
       /\ s.size > 0 /\ 0 < s.window /\ s.window <= s.chunk
       /\ s.told \in {0, s.size}
       /\ s.size <= MaxChunks * s.chunk /\ s.chunk <= NumParts * s.window
       \* _apply_probe_fallback: without ranges the file is one chunk, as long as the probe
       \* said; if it said nothing, of 1 GiB, whole windows, which the file may exceed.
       /\ ~s.ranges /\ s.told > 0 => s.size <= s.chunk
       /\ s.told = 0 => ~s.ranges /\ s.chunk % s.window = 0 /\ s.size <= NumParts * s.window
       \* init_writer
       /\ s.mmap => s.ranges
  /\ MaxChunks \in Nat \ {0} /\ NumParts \in Nat \ {0} /\ MaxPiece \in Nat \ {0}
  /\ Burst \in Nat \ {0} /\ Grace \in Nat /\ MaxRates \in Nat
  /\ FailBan \in Nat \ {0} /\ SlowBan \in Nat \ {0} /\ RetryAfter \subseteq Nat
  /\ Hole \notin Tasks /\ Earlier \notin Tasks \cup {Hole}

VARIABLES
  setting,     \* chosen once
  task,        \* what each task is doing
  size,        \* for each task, the total_size it knows
  disk,        \* disk[c][p]: the p-th window of chunk c, and who wrote it
  marked,      \* the chunks reported complete, as in ChunkStore
  progress,    \* what the progress reporter has been told
  stopped,     \* the stop event
  failures,    \* broken connections so far
  rate, tokens, since, sleep, credit, lowered,   \* the global throttle
  ban,         \* the bans
  drifted,     \* history: a failed fetch took back less than it had reported
  cropped,     \* history: a retry has reported less than the file of unknown size
  lastBan,     \* history: why the last ban was given
  changes      \* changes of the rate so far

bucket == <<rate, tokens, since, sleep, credit, lowered>>
history == <<drifted, cropped, lastBan>>
bounds == <<failures, changes>>
vars == <<setting, task, size, disk, marked, progress, stopped, bucket, ban, history, bounds>>

Throttle == INSTANCE TokenBucket WITH Consumers <- Tasks
Health   == INSTANCE MirrorHealth

Idle == [at |-> "idle", chunk |-> 0, expected |-> 0, from |-> 0, upto |-> 0,
         piece |-> <<>>, buffer |-> <<>>, written |-> 0, net |-> 0]

Places == {"idle", "open", "body", "throttled", "copy", "check", "slow", "finish", "cut", "mark"}

Source(t) == setting.source[t]
Start(c) == c * setting.chunk
Least(a, b) == IF a < b THEN a ELSE b

\* The units that belong to chunk c: a file of unknown size is one chunk.
Units(c) == IF setting.told = 0 THEN setting.size
            ELSE Least(setting.chunk, setting.size - Start(c))

Empty == [by |-> Hole, units |-> <<>>]

\* compute_total_chunks
TotalChunks == IF setting.told = 0 THEN 1
               ELSE (setting.told + setting.chunk - 1) \div setting.chunk

Pending == {c \in 0..(TotalChunks - 1) :
              /\ \A m \in marked : m.chunk # c
              /\ \A t \in Tasks : task[t].at = "idle" \/ task[t].chunk # c}

Init ==
  /\ setting \in Settings
  /\ task = [t \in Tasks |-> Idle]
  /\ size = [t \in Tasks |-> setting.told]
  /\ disk = [c \in Chunks |-> [p \in Parts |-> Empty]]
  /\ marked = {}
  /\ progress = 0
  /\ stopped = FALSE
  /\ Throttle!InitBucket(setting.rate)
  /\ Health!InitHealth
  /\ drifted = FALSE /\ cropped = FALSE /\ lastBan = "none"
  /\ failures = 0 /\ changes = 0

\* Slip: the fetch waits for something between the count of the mirrors and the ban.
HoldsLoopUntilSlow(t) ==
  \/ task[t].at \in {"copy", "finish"}
  \/ setting.mmap /\ task[t].at \in {"check", "cut", "mark"}

\* With a memory-mapped writer nothing is awaited between two pieces; and nothing is, by
\* this code, between the count of the active mirrors and the ban of a slow one.
HoldsLoop(t) ==
  \/ task[t].at \in {"copy", "finish"}
  \/ task[t].at = "slow" /\ ~setting.lingers
  \/ setting.mmap /\ task[t].at \in {"check", "cut", "mark"}
Runs(t) == \A u \in Tasks \ {t} : ~HoldsLoop(u)

-------------------------------------------------------------------------------
\* A fetch begins.

\* end - start + 1
Expected(c, total) == Least(setting.chunk, total - Start(c))

\* The pool hands out a chunk, unless the mirror is banned.
Begin(t) ==
  /\ task[t].at = "idle" /\ Runs(t)
  /\ ~stopped /\ ~Health!IsBanned(Source(t))
  /\ ~setting.ranges => \A u \in Tasks \ {t} : task[u].at = "idle"
  /\ \E c \in Pending :
       task' = [task EXCEPT ![t] =
                  [Idle EXCEPT !.at = "open", !.chunk = c,
                     !.expected = IF size[t] > 0 THEN Expected(c, size[t]) ELSE 0]]
  /\ UNCHANGED <<setting, size, disk, marked, progress, stopped, bucket, ban, history, bounds>>

\* A range is asked for and the mirror knows ranges.
SendsRange(t) == setting.ranges /\ setting.kind[Source(t)] # "plain"

\* The unit a response begins with: fetch() takes any status below 400 for the answer to
\* its range.
First(t, c) == IF SendsRange(t) THEN Start(c) ELSE 0

\* The response: its first and last unit, and the length a file of unknown size turns out
\* to have, if the response says so.
Respond(t) ==
  LET begin == First(t, task[t].chunk)
      end   == IF SendsRange(t) /\ setting.kind[Source(t)] = "exact"
               THEN begin + task[t].expected - 1 ELSE setting.size - 1
  IN  /\ task[t].at = "open" /\ Runs(t)
      /\ \E length \in {0, setting.size} :
           IF size[t] = 0 /\ length > 0
           THEN /\ size' = [size EXCEPT ![t] = length]
                /\ task' = [task EXCEPT ![t].at = "body", ![t].from = begin, ![t].upto = end,
                                        ![t].expected = length - Start(task[t].chunk)]
           ELSE /\ task' = [task EXCEPT ![t].at = "body", ![t].from = begin, ![t].upto = end]
                /\ UNCHANGED size
      /\ UNCHANGED <<setting, disk, marked, progress, stopped, bucket, ban, history, bounds>>

-------------------------------------------------------------------------------
\* A fetch fails: a refusal or a broken connection, a slow mirror, a stop, a wrong length.

Reported(k) == k.written + Len(k.buffer)

\* The worker records the failure before anybody else runs.
GivesUp(t, why) ==
  /\ task' = [task EXCEPT ![t] = Idle]
  /\ Health!RecordFailure(Source(t), why)
  /\ lastBan' = IF why = "slow" THEN "slow" ELSE "failure"
  /\ UNCHANGED <<setting, size, disk, marked, stopped, bucket, cropped, changes>>

Breaks(t) ==
  /\ Runs(t)
  /\ failures < setting.faults /\ failures' = failures + 1
  /\ \/ task[t].at = "open" /\ \E why \in {"refused", "broken"} : GivesUp(t, why)
     \/ task[t].at = "body" /\ GivesUp(t, "broken")
  /\ progress' = progress - Reported(task[t])
  /\ UNCHANGED drifted

\* Slip: what is still in the buffer is not taken back.
StopsHalf(t) ==
  /\ task[t].at = "body" /\ Runs(t) /\ stopped
  /\ task[t].from <= task[t].upto
  /\ task' = [task EXCEPT ![t] = Idle]
  /\ progress' = progress - task[t].written
  /\ UNCHANGED <<setting, size, disk, marked, stopped, bucket, ban, history, bounds>>

\* StoppedException, at the next piece.
Stops(t) ==
  /\ task[t].at = "body" /\ Runs(t) /\ stopped
  /\ task[t].from <= task[t].upto
  /\ task' = [task EXCEPT ![t] = Idle]
  /\ progress' = progress - Reported(task[t])
  /\ UNCHANGED <<setting, size, disk, marked, stopped, bucket, ban, history, bounds>>

-------------------------------------------------------------------------------
\* A piece comes, passes the limiter, is clamped and reported.

\* Slip: the clamp forgets what is in the buffer.
ClampedByWritten(k) ==
  LET room == k.expected - k.written
  IN  IF k.expected > 0 /\ Len(k.piece) > room THEN SubSeq(k.piece, 1, room) ELSE k.piece

Clamped(k) ==
  LET room == k.expected - Reported(k)
  IN  IF k.expected > 0 /\ Len(k.piece) > room THEN SubSeq(k.piece, 1, room) ELSE k.piece

Arrives(t) ==
  /\ task[t].at = "body" /\ Runs(t) /\ ~stopped
  /\ \E n \in 1..Least(MaxPiece, task[t].upto - task[t].from + 1) :
       LET k == [task[t] EXCEPT !.from = @ + n,
                                !.piece = [i \in 1..n |-> task[t].from + i - 1]]
       IN  /\ Throttle!Consume(t, n)
           /\ IF Throttle!Asleep(t)'
              THEN /\ task' = [task EXCEPT ![t] = [k EXCEPT !.at = "throttled"]]
                   /\ UNCHANGED progress
              ELSE /\ task' = [task EXCEPT ![t] = [k EXCEPT !.at = "copy", !.piece = Clamped(k)]]
                   /\ progress' = progress + Len(Clamped(k))
  /\ UNCHANGED <<setting, size, disk, marked, stopped, ban, history, bounds>>

Passes(t) ==
  /\ task[t].at = "throttled" /\ Runs(t)
  /\ Throttle!Wake(t)
  /\ task' = [task EXCEPT ![t].at = "copy", ![t].piece = Clamped(task[t])]
  /\ progress' = progress + Len(Clamped(task[t]))
  /\ UNCHANGED <<setting, size, disk, marked, stopped, ban, history, bounds>>

-------------------------------------------------------------------------------
\* The buffer.

Copies(t) ==
  LET k == task[t]
      n == Least(Len(k.piece), setting.window - Len(k.buffer))
  IN  /\ k.at = "copy" /\ n > 0
      /\ task' = [task EXCEPT ![t].buffer = @ \o SubSeq(k.piece, 1, n),
                              ![t].piece = SubSeq(@, n + 1, Len(@))]
      /\ UNCHANGED <<setting, size, disk, marked, progress, stopped, bucket, ban, history, bounds>>

\* writer.write(start + bytes_written, buffer): a shorter window leaves the end of an
\* earlier longer one behind it.
Writes(t, next) ==
  LET k == task[t]
      p == (k.written \div setting.window) + 1
      old == disk[k.chunk][p].units
  IN  /\ disk' = [disk EXCEPT ![k.chunk][p] =
                    [by |-> t, units |-> k.buffer \o SubSeq(old, Len(k.buffer) + 1, Len(old))]]
      /\ task' = [task EXCEPT ![t].at = next, ![t].buffer = <<>>,
                              ![t].written = @ + Len(k.buffer)]
      /\ UNCHANGED <<setting, size, marked, progress, stopped, bucket, ban, history, bounds>>

\* The buffer is full, in the middle of a piece or at its end.
Flushes(t) ==
  /\ task[t].at = "copy" /\ Len(task[t].buffer) = setting.window
  /\ Writes(t, "check")

\* Slip: the last mirror that is left is not spared.
TooSlowAlways(t) ==
  /\ task[t].net > Grace
  /\ task[t].written < setting.minimum * task[t].net
  /\ Cardinality(Sources) > 1

\* The speed is below the minimum, and there is another mirror (_should_raise_slow_mirror).
TooSlow(t) ==
  /\ task[t].net > Grace
  /\ task[t].written < setting.minimum * task[t].net
  /\ Cardinality(Sources) > 1
  /\ Health!ActiveCount(Sources) > 1

KeepsUp(t) ==
  /\ task[t].at = "check" /\ Runs(t) /\ ~TooSlow(t)
  /\ task' = [task EXCEPT ![t].at = "copy"]
  /\ UNCHANGED <<setting, size, disk, marked, progress, stopped, bucket, ban, history, bounds>>

\* SlowMirrorException is raised,
IsTooSlow(t) ==
  /\ task[t].at = "check" /\ Runs(t) /\ TooSlow(t)
  /\ task' = [task EXCEPT ![t].at = "slow"]
  /\ UNCHANGED <<setting, size, disk, marked, progress, stopped, bucket, ban, history, bounds>>

\* and, once the response has been left, caught.  What of the piece has not been copied was
\* reported and is not taken back.
LeavesSlow(t) ==
  /\ task[t].at = "slow" /\ Runs(t)
  /\ GivesUp(t, "slow")
  /\ progress' = progress - Reported(task[t])
  /\ drifted' = (drifted \/ task[t].piece # <<>>)
  /\ UNCHANGED failures

EndsPiece(t) ==
  LET k == task[t]
  IN  /\ k.at = "copy" /\ k.piece = <<>> /\ Len(k.buffer) < setting.window
      /\ task' = [task EXCEPT ![t].at =
                    IF k.expected > 0 /\ Reported(k) >= k.expected THEN "finish" ELSE "body"]
      /\ UNCHANGED <<setting, size, disk, marked, progress, stopped, bucket, ban, history, bounds>>

-------------------------------------------------------------------------------
\* The response ends.

\* After its last unit, or before: a server may send less than it was asked for.  Only an
\* empty file of unknown size is left out.
BodyEnds(t) ==
  /\ task[t].at = "body" /\ Runs(t)
  /\ IF task[t].from > task[t].upto THEN UNCHANGED failures
     ELSE /\ task[t].expected > 0 \/ Reported(task[t]) > 0
          /\ failures < setting.faults /\ failures' = failures + 1
  /\ task' = [task EXCEPT ![t].at = "finish"]
  /\ UNCHANGED <<setting, size, disk, marked, progress, stopped, bucket, ban, history, changes>>

FlushesRest(t) ==
  /\ task[t].at = "finish" /\ task[t].buffer # <<>>
  /\ Writes(t, "finish")

LengthIsRight(k) == k.expected > 0 => k.written = k.expected

\* The length is compared outside the try: nothing is taken back.
IsIncomplete(t) ==
  /\ task[t].at = "finish" /\ task[t].buffer = <<>> /\ ~LengthIsRight(task[t])
  /\ GivesUp(t, "broken")
  /\ drifted' = (drifted \/ task[t].written > 0)
  /\ UNCHANGED <<progress, failures>>

\* Slip: any length will do.
IsCompleteAnyway(t) ==
  /\ task[t].at = "finish" /\ task[t].buffer = <<>>
  /\ task' = [task EXCEPT ![t].at = IF size[t] = 0 THEN "cut" ELSE "mark"]
  /\ UNCHANGED <<setting, size, disk, marked, progress, stopped, bucket, ban, history, bounds>>

\* Slip: nothing is cut off.
IsCompleteUncut(t) ==
  /\ task[t].at = "finish" /\ task[t].buffer = <<>> /\ LengthIsRight(task[t])
  /\ task' = [task EXCEPT ![t].at = "mark"]
  /\ UNCHANGED <<setting, size, disk, marked, progress, stopped, bucket, ban, history, bounds>>

IsComplete(t) ==
  /\ task[t].at = "finish" /\ task[t].buffer = <<>> /\ LengthIsRight(task[t])
  /\ task' = [task EXCEPT ![t].at = IF size[t] = 0 THEN "cut" ELSE "mark"]
  /\ UNCHANGED <<setting, size, disk, marked, progress, stopped, bucket, ban, history, bounds>>

Windows(n) == (n + setting.window - 1) \div setting.window

Truncates(t) ==
  LET k == task[t]
      n == Windows(k.written)
      rest == k.written - (n - 1) * setting.window
      row == disk[k.chunk]
  IN  /\ k.at = "cut" /\ Runs(t)
      /\ disk' = [disk EXCEPT ![k.chunk] =
                    [p \in Parts |->
                       IF p > n THEN Empty
                       ELSE IF p < n THEN row[p]
                       ELSE [row[p] EXCEPT !.units = SubSeq(@, 1, rest)]]]
      /\ task' = [task EXCEPT ![t].at = "mark"]
      /\ UNCHANGED <<setting, size, marked, progress, stopped, bucket, ban, history, bounds>>

\* A retry that knows the length by now asks for chunk_size, as for a chunk of many.
Crops(k) ==
  setting.told = 0 /\ setting.chunk < setting.size /\ k.expected = setting.chunk

Marks(t) ==
  /\ task[t].at = "mark" /\ Runs(t)
  /\ marked' = marked \cup {[chunk |-> task[t].chunk, parts |-> Windows(task[t].written), by |-> t]}
  /\ cropped' = (cropped \/ Crops(task[t]))
  /\ task' = [task EXCEPT ![t] = Idle]
  /\ UNCHANGED <<setting, size, disk, progress, stopped, bucket, ban, drifted, lastBan, bounds>>

-------------------------------------------------------------------------------
\* The user, and time.

SetStop ==
  /\ ~stopped
  /\ stopped' = TRUE
  /\ UNCHANGED <<setting, task, size, disk, marked, progress, bucket, ban, history, bounds>>

\* set_speed_limit
SetSpeedLimit(r) ==
  /\ changes < MaxRates /\ r # rate
  /\ Throttle!UpdateRate(r)
  /\ changes' = changes + 1
  /\ UNCHANGED <<setting, task, size, disk, marked, progress, stopped, ban, history, failures>>

\* The time outside the limiter (network_elapsed).
Counts(k) == k.at \in {"open", "body", "check", "slow", "cut", "mark"}

\* From here on more of it makes no difference.
LongEnough == setting.size + Grace + 1

Tick ==
  /\ \A t \in Tasks : ~HoldsLoop(t)
  /\ \/ rate > 0 \/ setting.minimum > 0
     \/ \E s \in Sources : Health!IsBanned(s)
     \/ \E t \in Tasks : Throttle!Asleep(t)
  /\ Throttle!TickBucket
  /\ Health!TickHealth
  /\ task' = [t \in Tasks |->
                IF setting.minimum > 0 /\ Counts(task[t]) /\ task[t].net < LongEnough
                THEN [task[t] EXCEPT !.net = @ + 1] ELSE task[t]]
  /\ UNCHANGED <<setting, size, disk, marked, progress, stopped, history, bounds>>

-------------------------------------------------------------------------------
Finished ==
  /\ \A t \in Tasks : task[t].at = "idle"
  /\ stopped \/ Pending = {}
  /\ UNCHANGED vars

TaskStep(t) ==
  \/ Begin(t) \/ Respond(t) \/ Breaks(t) \/ Stops(t)
  \/ Arrives(t) \/ Passes(t) \/ Copies(t) \/ Flushes(t) \/ KeepsUp(t) \/ IsTooSlow(t)
  \/ LeavesSlow(t) \/ EndsPiece(t) \/ BodyEnds(t) \/ FlushesRest(t) \/ IsIncomplete(t)
  \/ IsComplete(t) \/ Truncates(t) \/ Marks(t)

Next ==
  \/ \E t \in Tasks : TaskStep(t)
  \/ SetStop \/ Tick
  \/ \E r \in setting.rates : SetSpeedLimit(r)
  \/ Finished

Spec == Init /\ [][Next]_vars

-------------------------------------------------------------------------------
\* Every variable keeps to its type; in particular no fetch buffers or writes more than
\* its window and its chunk, and the limiter saves no more than its burst.
TypeOK ==
  /\ setting \in Settings
  /\ \A t \in Tasks :
       /\ task[t].at \in Places /\ task[t].chunk \in Chunks
       /\ Len(task[t].piece) <= MaxPiece /\ Len(task[t].buffer) <= setting.window
       /\ Reported(task[t]) <= Units(task[t].chunk)
       /\ task[t].net \in 0..LongEnough
       /\ size[t] \in {0, setting.size}
  /\ \A c \in Chunks, p \in Parts :
       disk[c][p].by \in Tasks \cup {Hole} /\ Len(disk[c][p].units) <= setting.window
  /\ marked \subseteq [chunk : Chunks, parts : Parts, by : Tasks]
  /\ progress \in Nat
  /\ rate \in setting.rates \cup {setting.rate}
  /\ Throttle!Accrued <= Throttle!Capacity(rate) \/ rate = 0
  /\ failures \in 0..setting.faults

\* The units of the p-th window of a chunk.
Window(c, p) ==
  LET before == (p - 1) * setting.window
  IN  [i \in 1..(Least(setting.window, Units(c) - before)) |-> Start(c) + before + i - 1]

\* Chunk m.chunk lies in the file unit for unit, and nothing lies behind it; only a file
\* whose length no response told may be shorter than the original.
InPlace(m) ==
  \A p \in Parts :
    LET units == disk[m.chunk][p].units
    IN  IF size[m.by] > 0 THEN units = IF p <= m.parts THEN Window(m.chunk, p) ELSE <<>>
        ELSE /\ p < m.parts => units = Window(m.chunk, p)
             /\ p = m.parts => units # <<>> /\ units = SubSeq(Window(m.chunk, p), 1, Len(units))
             /\ p > m.parts => units = <<>>

\* A chunk that is reported complete is in its place, however the network cut it into
\* pieces and whatever failed before (fetch).  There are two exceptions: a mirror that does
\* not know ranges, next to others that do, sends every chunk from the beginning of the
\* file; and a retry crops a file of unknown size.
BytesInPlace ==
  \A m \in marked : First(m.by, m.chunk) = Start(m.chunk) /\ ~cropped => InPlace(m)

\* For a store: a window holds what its task received for this place of the file, or it
\* does not count; and a file that was cropped is not reported.
View ==
  [c \in Chunks |-> [p \in Parts |->
     LET w == disk[c][p]
     IN  IF w.units = <<>> THEN Hole
         ELSE IF w.units[1] = First(w.by, c) + (p - 1) * setting.window THEN w.by ELSE Earlier]]
Reports == IF cropped THEN {} ELSE marked

\* The fetchers together with their writer keep what ChunkStore promises to the hasher.
Store == INSTANCE ChunkStore WITH disk <- View, marked <- Reports, known <- (setting.told > 0)
StoreSpec == Store!Spec

\* What the reporter was told adds up to what is in the file and on its way there, and is
\* never less: a failed fetch takes back what it had reported, except in the two cases in
\* which the code leaves a rest (fetch, the except clauses).
OnItsWay(t) ==
  Reported(task[t]) + IF task[t].at = "throttled" THEN 0 ELSE Len(task[t].piece)
Delivered(m) == Sum([p \in 1..m.parts |-> Len(disk[m.chunk][p].units)])

ProgressAddsUp ==
  LET true == Sum([m \in marked |-> Delivered(m)]) + Sum([t \in Tasks |-> OnItsWay(t)])
  IN  progress >= true /\ (drifted \/ progress = true)

\* The limiter gives nothing away: what it lets pass in any stretch of time is no more
\* than its burst and the rate allow, as long as the rate is not lowered under sleeping
\* tasks (consume, update_rate).
NothingForFree == Throttle!NothingForFree

\* The minimum speed never takes a download its last active mirror: when all are banned, a
\* failure has banned the last of them, whatever the other tasks and the ends of bans did
\* since a task counted the active mirrors (_should_raise_slow_mirror, _process_chunk).  It
\* takes that leaving the response suspends nobody.
SlowKeepsOne ==
  ~setting.lingers => ((\A s \in Sources : ban[s] > 0) => lastBan = "failure")
================================================================================
