# A formal model of mrdl

mrdl downloads one file from several mirrors at once: it cuts the file into chunks,
fetches them with many tasks on one asyncio loop, writes them with one thread, hashes them
with another, saves its progress and resumes after an interruption. This directory holds
TLA+ modules of that program, TLC configurations that check them on small instances, and
proofs for TLAPS. Paths such as `writer.py:129` are relative to `src/src/mrdl/`.

## 1. The system

| Component | State | Operations | Hard behaviour |
|---|---|---|---|
| `Downloader` (downloader.py) | `_state`, the asyncio and the thread-level stop event, the pause event, `_completed_set`, `_fd` | `start`, `pause`, `resume`, `stop`, `cancel`, `set_speed_limit`, the state saver task | the user calls from another thread at any time; the event loop blocks in its `finally` clause; crashes between any two steps |
| `SessionManager` (session.py) | none of its own | open the file, load the resume state, make writer, hasher and queue | a resume trusts the progress file |
| `WorkerPool` (worker_pool.py) | the priority queue with its count of unfinished items, the completed set, `_last_error` | `run`, one loop per worker, retries with backoff | accounting of `task_done`, `join` against the stop event, bans, cancellation |
| `ChunkFetcher` (fetcher.py) | one buffer, the length it has learned | `fetch` | pieces that end anywhere, failures between two writes, wrong lengths, unknown size, progress to take back |
| `MirrorHealthTracker` (mirror_health.py) | the end of each mirror's ban | `is_banned`, `record_failure`, `get_active_count` | all mirrors banned at once |
| `DiskWriter` (writer.py) | a bounded queue, the reported chunks, the error | `write`, `mark_complete`, `truncate`, `is_on_disk`, `stop`, the thread | timeouts of `put` and `join`, a dead thread behind a full queue, cancelled tasks whose put goes on |
| `MmapDiskWriter` (mmap_writer.py) | a mapping, the reported chunks | the same, and `read_chunk` | views that keep the mapping from being closed |
| `StreamingHasher` (hasher.py) | the position, the digest, the verdict | `start`, `stop`, `finalize`, the thread, `verify_file` | follows the writer through a file that is being written; a join without a limit |
| `JsonStateManager` (persistence.py) | the progress file and its temporary file | `load`, `save`, `clear`, `validate_for_resume` | crash between two file operations; one temporary path for all savers; a remote file that changes between sessions |
| `TokenBucketThrottle` (throttle.py) | tokens, rate | `consume`, `update_rate` | consumers sleep off each other's debts; a rate that changes under them |
| `MirrorProber` (prober.py) | none | `probe` | answers in any order, the best one must win |
| progress.py | the bars with their overlays, the lines on the screen, two levels of locks | `add_bar`, `start`, `update`, `set_overlay`, `log`, `close`, the display's thread | lock order; messages and frames of several threads on one terminal |
| cli.py | none | argument parsing, exit codes | none |

How they interact: the pool's tasks call the fetcher, the fetcher calls the limiter, the
progress reporter and the writer (through its queue), the writer wakes the hasher (through a
condition variable), the hasher asks the writer what is on disk and reads the file, or looks
into the writer's mapping. A failed fetch goes to the mirror health, which the pool and the
fetcher's slow check ask. The pool adds to the completed set, which the state saver,
`pause()` and the end of `start()` write to the progress file. The two stop events end
everything; they are set by the user, the pool, the writer (an error) and `start()` itself.

What makes each part correct:

* writer: what `is_on_disk` reports is in the file, whole, from one attempt; nothing
  accepted is lost while nothing has gone wrong; no call waits for ever;
* fetcher: every unit lands at its place however the network cuts the response, the windows
  of a reported chunk are those of the file, and the reported progress adds up;
* limiter: it gives nothing away; mirror health: slowness never bans the last mirror, also
  when several tasks count the mirrors and ban one at the same time;
* pool: no chunk is lost or fetched twice at a time; `True` means that every chunk is
  completed; `run()` returns, and gives up only with a reason;
* hasher: the digest is that of the file; `finalize()` says so exactly when it is, and
  `verify_file()` agrees;
* sessions: what a list from an earlier session claims is in the file, in the version that
  is downloaded now, also when a process died with data still in its writer's queue; the
  list survives a crash; the probe settles on the best answer;
* downloader: COMPLETED means that the file is right; the progress file is kept until
  then and claims only what is there; `start()` ends and leaves nothing open;
* display: no deadlock, no message and no update lost, nothing stale on the screen.

## 2. Modules

| Module | Models | Lines of the code |
|---|---|---|
| `ChunkStore` | what a writer promises: parts are stored and cut while their chunk is not reported, a report needs a whole chunk | protocols.py `WritesChunks` |
| `DiskWriter` | the writer with its clients (fetch tasks) and its owner (`start()`); implements `ChunkStore` | writer.py, the writer calls of fetcher.py, downloader.py 217-255 |
| `DiskWriterInvariant`, `DiskWriterProofs` | the inductive invariant and the theorems | |
| `TokenBucket`, `MirrorHealth` | the limiter in integer time; the bans with their durations | throttle.py; mirror_health.py |
| `Fetcher` | several fetches at once, unit by unit, with the limiter and the bans they share; implements `ChunkStore` once more | fetcher.py, the copying side of mmap_writer.py |
| `FetcherInvariant`, `FetcherProofs`, `FetcherCountsProofs` | its inductive invariants; the theorems about the file and the bans; those about tokens and reports | |
| `Sums` | a sum as the number of what it counts | |
| `ChunkPool` | what the pool promises: chunks become completed, then one answer, `true` only for all | worker_pool.py `run` |
| `WorkerPool`, `WorkerPoolProofs` | the worker pool, which implements `ChunkPool`, and its theorems | worker_pool.py, session.py 204-219, mirror_health.py as it is used |
| `StreamingHasher`, `StreamingHasherProofs` | the hashing thread and its owner, next to `ChunkStore` for the writer, with the views of a mapping and `verify_file`; its theorems | hasher.py, `read_chunk` and `stop` of mmap_writer.py |
| `Prober` | the race of the probes | prober.py |
| `Session`, `SessionProofs` | the progress file over many sessions with crashes, power failures and a changing remote file; its theorems | persistence.py, session.py, and downloader.py as it uses them |
| `Downloader`, `DownloaderProofs` | one download over several sessions, with pool, writer and hasher at the level of whole chunks; its theorems | downloader.py, session.py, persistence.py, types.py |
| `Progress`, `ProgressProofs` | the display with its bars, locks and threads; its theorems | progress.py |
| `MC*` | model values, instances and symmetry sets for TLC | |

How the modules compose. `ChunkStore` is the joint of the data path. `DiskWriter` implements
it for the commands of its queue, `Fetcher` for the bytes the fetches hand over
(`StoreSpec`, by a view that maps a window of units to the task that wrote it);
`StreamingHasher` takes it as its environment: the file under the hasher may change in
every way `ChunkStore` allows, and no other. `Fetcher` instantiates `TokenBucket` and
`MirrorHealth` on its own variables, `Session` does so with `Prober`. `Downloader` uses the
results one level up: a writer step there is "a chunk is written and reported", which is
what `ChunkStore` promises, a pool answer is one `ChunkPool` allows, a verdict is one that
`StreamingHasher` reaches. `Downloader` and `Session` look at the same `start()` from two
sides: the one takes a save as one step and the remote file as fixed, the other has each
file operation of a save and several versions of the remote file, but no stop events.

### Correspondence

*DiskWriter.* `queue`, `stopped`, `error`, `marked` are `_queue`, `_stop_event`, `_error`,
`_disk_completed` (with the attempt that was reported, a history). `call[t]` is the writer
call in which task `t` is: `ready`/`retry` before the loop test (lines 79, 93, 107), `put`
inside `asyncio.to_thread(queue.put, cmd, True, 1)`, `orphan` the same after the task was
cancelled. A fetch is its writer calls in order: the writes of its parts, the truncation if
the size is unknown, the mark; it may fail between any two. `thread` is the loop of `_run`.
`owner` is `start()` from the pool over `writer.stop()` to `os.close`. `disk[c][p]` is the
task whose bytes are in part `p` of chunk `c`.

*Fetcher.* The file is a sequence of units, `disk[c][p]` the units in the `p`-th flush window
of chunk `c` with the task that wrote them. `task[t].at` is the place in `fetch`: `open`
(the request), `body` (the `async for`), `throttled` (in `consume`), `copy` (the inner loop
of lines 192-211), `check` (after a flush, the slow check), `slow` (the exception is on its
way out of the response), `finish` (the rest of the buffer, the length check), `cut` and
`mark`. `piece` is what has not been copied of the
current piece, `buffer` the buffer, `written` is `bytes_written`, `net` the network time.
Between two awaits a task has the loop to itself (`HoldsLoop`), with a memory-mapped writer
from one piece to the next. A slow fetch counts the active mirrors in one step (`IsTooSlow`,
fetcher.py:97) and records the ban in another (`LeavesSlow`, worker_pool.py:197). Between the
two lies the `__aexit__` of the response, which is aiohttp's: it closes the connection of a
response that was not read to its end, and suspends nobody as far as we know, but nothing in
the code makes sure of it. `lingers` in a setting says that it may suspend the fetch. `size[t]` is what the task's fetcher knows of the length; it
learns it from a response. `kind` says what a mirror makes of a range: it sends what was
asked for, or more, or (`plain`) the file from its beginning, which `fetch` takes for the
chunk (`First`), as it looks for no 206. A retry that knows the length by then expects
`chunk_size`, also of a file that is one chunk of unknown size (`Expected`, `Crops`). Bad answers, broken
connections and short responses are `Breaks` and `BodyEnds`, bounded by `faults`.

*TokenBucket.* `consume` takes its tokens at once, below zero if need be, and sleeps for
what is owed at that moment; `UpdateRate` does not wake sleepers. `credit` is a limiter
without any debt, to compare with. *MirrorHealth.* A ban is the time it still has.

*WorkerPool.* `queue` is the set of real items of the priority queue, `sentinels` the
number of stop sentinels in it, `unfinished` the queue's own counter. `worker[w].pc` is the
place in the loop of `_worker`: `top` (the stop test), `pause`, `get`, `fetch`, `nap` (the
sleep after an item was put back, before its `task_done`). `Rank` is the order of the
tuples. The asyncio loop runs one task at a time between two awaits; each action is such a
piece.

*StreamingHasher.* `thread`: `look` (lines 136-148), `view` (one `update` with a view of the
mapping), `read` (the loop of `hash_chunk`), `end` (lines 150-151). `hashed` is what the
hash object was fed: the parts with their origin, so that two digests are equal exactly when
the contents are. `mapping` is the writer's open mapping; `StopWriter` closes it or raises.
`VerifyFile` reads the finished file from its start.

*Session.* `live` and `tmp` are the inodes under the two names of the progress file,
`content` and `synced` what is in an inode and whether it is on the medium. A save is
`Opens` (truncates what has the temporary name), `Writes`, `Syncs` with `safe_state_saves`,
`Replaces`; the saver's executor thread and the holder of the state lock (`pause()`, the end
of `start()`) may be in it at once. `text` is `_download_state`, whose `version` stands for
ETag and Last-Modified and whose `cut` for the chunk size. `data[c]` is the version of the
remote file that chunk `c` of the destination has, 0 for none or a mixture. A chunk is
completed (`Completes`, worker_pool.py:187-190) when `fetch()` has returned, with its writes
and its mark in the writer's queue (`queued`); the writer thread performs them later
(`Pieces`, `Marks`), unless the process dies, a stop or an error ends the thread, or the disk
is too slow for `writer.stop()`, which drops them (`Drops`, `dropped`). Into a mapping the
data is copied before (`Mapped`). `Restarts` is the end or the death of a
process and the start of another, in which the remote file may have advanced.

*Prober.* `ProbeEnds` takes one answer, or one timeout, in the order of `as_completed`.

*Downloader.* `pc` is the place in `start()`; `Blocking` names the steps that run without
an await, in which neither the state saver nor the scheduled callbacks can run. `callbacks`
is what `call_soon_threadsafe` has queued. `user` is the call of the user's thread that is
under way; its reading of the state, its transition and its signals are separate steps.
`saving` is what an executor thread is about to write. `NextSession` is a crash or an exit
at any moment, followed by a new process: only `file`, `data` and `progress` survive.

*Progress.* `display` and `bar[b]` are the holders of the locks. `thread[t]` says where a
thread is: `bar` and `display` wait for a lock, `body` holds a bar's lock, `frame` the
display's, `line` both (`render_line` inside `_render`). `screen` is what the terminal shows
above the cursor, of which `_clear_lines` takes `printed` lines away.

## 3. Runs

Those marked * are expected to be violated (section 6).

| Run | Instance | Shows |
|---|---|---|
| `DiskWriter_faults` | 2 tasks, 2 chunks of 2 parts, a queue of 2, one failed fetch, disk errors, a disk slower than the timeouts of `stop()` | `TypeOK`, `NoSilentLoss`, refinement of `ChunkStore`; 90 thousand states |
| `DiskWriter_unknown` | 1 chunk of unknown size with attempts of different lengths, a disk that keeps up | `MarkedIsWhole`, `StopFinishesWrites`, `CallsReturn`, `WriterEnds`; 14 thousand |
| `WorkerPool_pool` | 2 workers on 2 sources, 2 chunks, 2 retries | `TypeOK`, `OnePlace`, `NoChunkLost`, `CountIsExact`, `GivingUpHasAReason`, refinement of `ChunkPool`, `RunReturns`; 45 thousand |
| `StreamingHasher_verify` | up to 2 chunks of 2 parts, or one of unknown size; file and mapping; each kind of hash specification; a source with wrong content; reads that fail | `TypeOK`, `DigestIsOfTheFile`, `AnswerIsRight`, `IncompleteHasAReason`, `SecondOpinionAgrees`, `StopIsAnswered`; 123 thousand |
| `Fetcher_transfer` | 2 tasks on 2 mirrors, eight downloads: with ranges and a last chunk and window that are not full; behind a limiter whose rate changes, over a mapping; with a minimum speed, and with that and a suspension before the ban; with one mirror that has ranges and one that has not; without ranges; of unknown length below and above the fallback chunk | `TypeOK`, `BytesInPlace`, `ProgressAddsUp`, `NothingForFree`, `SlowKeepsOne`, refinement of `ChunkStore`; 1.3 million |
| `Session_restarts` | 2 mirrors, 2 chunks, 2 versions of the remote file, 3 sessions with 2 saves besides the last one; a writer behind the list; a changing remote file and mirrors that lose their ranges; a mapping; stops; power failures; overwriting | `TypeOK`, `ResumeIsTrue`, `SaveIsAtomic`, `BestAnswerWins`; 2.8 million |
| `Downloader_checksum` | 2 chunks, a checksum, every fault, 2 sessions, one user call each | `TypeOK`, `ReturnsClean`, `ClearedIsWhole`; 1.2 million |
| `Downloader_plain` | with and without a checksum, disk errors, 2 calls of pause, resume and cancel | `CompletedIsWhole`, `UndisturbedReturns`, `StartEnds`; 0.5 million |
| `Progress_display` | 2 threads and the display's, 2 bars, an update and two calls of overlay, log or update, one of close | `TypeOK`, `ScreenIsRight`, `NoUpdateIsLost`, `CallsReturn`; 176 thousand |
| `Downloader_stop`, `_pause` * | one call of `stop()` or `pause()` and no fault | section 6 |
| `Session_crash` * | 2 sessions, one save besides the last, a process that dies | section 6 |

*Why these bounds.* The writer's hazards need two tasks (one overtakes, one retries), two
parts (a chunk is half written), a queue of two places, which fills up, and one failed
attempt to leave something behind. Two workers on two sources are enough for one to hold
what the other waits for and for "all banned" to differ from "mine is banned"; the bound of
five retries is the constant `MaxRetries`. In `Fetcher` a piece may be longer than a window
and than a chunk, a chunk longer than a window, and the file no multiple of either; one
fault leaves the traces of one failed attempt, two those of a shorter one over a longer one.
Three sessions are what a list needs to come from the one before the last, two versions what
it needs to be stale; two saves besides the final one can overlap. The settings of `Session`
and `Fetcher` each add one circumstance to a common one, so that every circumstance meets
all interleavings, but not every pair of circumstances. In `Downloader` one call
per session reaches every race between the user and `start()`, two calls a pause and its
resume, and the second session is the resume. Two bars make an order among them, and two
callers next to the display's thread put a message and a frame of somebody else between any
two steps of a call. Symmetry is used for tasks, chunks and mirrors, in runs without liveness only.
The proofs remove the bounds for every safety property, and for the three refinements.

*Bounds by name*: `MaxFailures` (failed attempts), `MaxCalls` (user calls per session, or
calls of a thread on the display), `MaxSessions`, `MaxSaves`, `Versions`, `MaxBars`,
`MaxRates` (changes of the rate), `faults` in a setting of `Fetcher` (broken or short
responses), `MaxChunks`, `NumParts` and `MaxPiece` (the shape of the file and of the
pieces), `Total` (after which a bar's bytes are capped). `Inodes` of `Session` are no bound:
two names and two savers hold on to four at most. `MaxSize` and `MaxRetries` are parameters
of the code (128 and 5).

Deadlock is checked in every run; each specification has a `Finished` step for the only
states in which the code has nothing left to do.

## 4. Fairness

* `DiskWriter`: weak fairness of each task's step, of the thread's step and of the owner's:
  the operating system runs every thread and every timeout expires. Nothing makes a fetch
  fail, the pool give up or the user call.
* `WorkerPool`: weak fairness of each worker, of the end of each fetch (the socket timeouts
  of the request see to it), of each backoff and ban (they have an end time), of `run()`.
  `RunReturns` has the premise that the download is not left paused: `pause()` without
  `resume()` keeps the workers at line 136, which is what it is for.
* `StreamingHasher`: weak fairness of the thread and of `start()`'s joins. The writer is
  under no obligation, so the property says only that a stop is answered when the event is
  set or every chunk is reported.
* `Downloader`: weak fairness of `start()`, writer, hasher, callbacks and the user's call
  under way. Faults, interruptions, calls and crashes are never forced.
* `Progress`: weak fairness of what a thread does with the locks it has, strong fairness of
  taking a lock: Python's locks are not fair, but the display's thread sleeps a tenth of a
  second between two frames and no caller calls for ever, so that a lock which is free again
  and again is got. Nobody has to call.

`Fetcher` and `Session` have safety properties only and no fairness.

## 5. Proofs

The theorems hold for every value of the constants that the named assumptions allow
(`DiskWriterAssumption`, `WorkerPoolAssumption`, ...), without bounds.

*The writer.* `TypeCorrect` is the type invariant. `ReportsAreTrue` (`MarkedIsWhole`) is
not inductive: whether a report is true depends on the commands still in the queue. The
invariant `Inductive` therefore speaks of the future of the queue. `Settled(i, c, p, v)`
says that after the first `i` commands have been performed, part `p` of chunk `c` holds
`v`; `MarkIsLast` says that behind a mark of a chunk there is no command of that chunk,
and `Exclusive` that only one task has commands of an unreported chunk; `MarksSettled`
says that at each mark in the queue its chunk is whole, and `PromisesKept` that a task in
the middle of a fetch finds the parts it has queued so far settled at the end of the
queue. The promises are void once the thread is dead, since nothing is performed any more.
A put extends the queue (`AppendSettled`), a get takes its head (`TakeSettled`,
`PerformSettled`). `WriterImplementsStore` maps each step to a step of `ChunkStore` or to
a stutter with the same invariant. `CompletionsAreNotLost` and `StopIsComplete` use a
second one, `OrderlyEnd`, on what is ahead of the sentinel.

*The pool.* The invariant is `PoolInv`, in four parts. `Counted` is the type invariant with
`CountIsExact` and a finite queue: that the count stays a natural number needs its exact
value, since each `task_done` takes one away. That value is a sum of cardinalities, and
`MoveCounted` says how it changes when one worker moves. A failed fetch adds an item to the
set `queue`; that the set grows by one needs `OnePlace` (the chunk is in nobody else's
hands and not queued). `Kept` strengthens `NoChunkLost`: once `run()` has stopped waiting
without a stop event, all chunks are completed, so that workers cancelled after the drain's
two seconds lose nothing. `Answered` ties the answer to the place of `run()` and the stop
event to its causes. `JoinedHasAll` is the heart of it: when the count is zero, queue and
hands are empty, so what is not lost is completed; `TrueIsTrue` (`TrueMeansAll`, which
`PoolSpec` implies) and the step of `PoolImplementsChunkPool` that answers `true` rest on
it.

*The hasher.* The invariant has four parts: the types, what is settled at which place of
thread and owner (`Placed`), `Faithful` and `Decided`. `Faithful` says that the chunks
before the current one are on disk and that what was hashed is their content in order
(`CellIsRight`, `UpToHere`) as long as no stop has cut a chunk short; `ChunkStore` never
changes a reported chunk, so that it stays true while the writer goes on. `Decided` ties
verdict and answer to the digest. `PositionUnique` (no two parts have one position),
`ContentIsHashed` (at the end, hashed and file are the same sequence) and `DigestTells`
(equal digests, equal contents) carry `StreamedIsWhole`, `NoFalseAnswer`,
`IncompleteIsExplained` and `VerdictsAgree`.

*The fetcher.* Four inductive invariants (`FetcherInvariant`). `FileInv` carries
`BytesAreInPlace` and `FetcherImplementsStore`: a unit belongs at the
place its number says (`Holds`); what has come of a chunk lies in a row without a gap, first
in the file, then in the buffer, then in the piece (`Collected`), every window in the file
holds the first units of its place (`Row`), those before `written` are the task's own
(`Stored`), and once the chunk was cut to its length nothing lies behind them (`Sealed`);
`Aligned` says that only the last window is not full, without which a flush would go to the
wrong window. All of it is relative to the first unit the mirror sends (`Origin`), so that
`StoreSpec` holds next to mirrors without ranges too; the chunks for which that is the first
unit of the chunk are in place (`PutInPlace`). What a retry crops is followed by a `cropped`
flag: without it a reported chunk is sealed, with it only `Snug`, its last window may be
followed by others. The arithmetic of windows is in lemmas of its own (`WindowAt`,
`PartFacts`, `WindowFacts`, `WindowWritten`). `BansInv` carries `SlowSparesOne`: its part
`Spared` says that when a fetch is between count and ban, more than one mirror is still
active and no other task is in the middle of a stretch without awaits. That stays so because
the fetch holds the loop there, so that no other fetch can fail; its own ban then leaves
another mirror (`SparedStays`, `SparesOne`), and until the next ban, bans only end.
`LimiterInv` carries `LimiterGivesNothing`. That what
sleeps covers the debt is not inductive: when the first sleeper wakes, the debt of those who
came after it remains. So `Covers` speaks of an order, for each sleeper the set of those who
fell asleep after it and still sleep, and bounds the debt by what these wait for and what is
left of its own. `ReportsInv` carries `ReportsAddUp`: each step moves units between the
network, the piece, the buffer and the file and changes the reports by as many. Sums over
the tasks and the windows are cardinalities (`Sums`), so that the theorems about finite sets
reach them; `SumChange` and `SumExtend` say how a sum changes at one place.

*The sessions.* The invariant is `Inv`. `Covered(t)` says that the file holds what a text
claims, in its version or a newer one; the data of the file only gets newer, so texts stay
covered as long as nobody removes the file. Or the chunk is still in the queue of the
writer thread, or in `dropped`, the chunks that went with an earlier process or thread and
that nobody has written since (`There`). `Trusted` says it of everything a session might
ever load: the live file, the temporary one while somebody saves, and each saver's text.
When a list is accepted its version is that of the remote file, and then "or newer" becomes
"the same" (`ResumesAreTrue`). `Atomic` says that without overlap the temporary file belongs
to the one saver under way, empty before his write and whole after it (`SavesAreAtomic`).
`Probing` gives `ProbesAreFair`.

*The downloader.* Three invariants stand beside the types. `PutAway` says what is closed,
ended or set at each place of `start()`, whatever the user's thread did in between: the
events are only ever set within a session, and nothing is opened again behind the place
that closed it (`ReturnsAreClean`). `Judged` carries `ChecksumMeansWhole` and
`ClearsOnlyWhole`: a verdict "match" is reached when every chunk is reported, a reported
chunk is queued no more, and so the file cannot change under the verdict; behind the pool
the hasher has run, and `start()` comes to COMPLETED and to the removal of the progress file
only past a match. Their premise `Hashing = {TRUE}` says that every session verifies a
checksum; without it both are wrong (finding 2). `Undisturbed` ties the state to the place
of `start()` while no call was made, which gives `UndisturbedReturn` under `~Interrupts`.

*The display.* Each step moves one thread (the `...Moves` lemmas). `HasDisplay` and `HasBars`
say that a lock is held by the thread that is between taking and releasing it; from this
follows exclusion. `Kept` says that while a line of a bar is rendered, its renderer carries
what the bar has been told, and otherwise the bar has it (`UpdatesAreKept`). `Room` bounds
the bars by counting the calls of `add_bar` that are under way. `ScreenIsAlwaysRight` needs
four more parts. `FramesRight`: whoever draws has been through the first bars in their order
and has the rest ahead. `Layout`: above the last frame are messages only, in it bars in
their order, unless the display is closed; then the last frame stays for good and
`_lines_printed` is zero, which is what keeps later messages from erasing it. `Messages`:
the messages lie above that frame in the order of their calls, at places that a new frame
leaves alone (`MessagesStand`, `MessageCame`). `Fresh`: a bar that changed is on the screen
as it is, or its caller is still to draw; and who draws meanwhile has it ahead, or has its
new line, so that no older frame comes over a newer one.

*With TLC only*: liveness under fairness, which is out of the provers' reach (`CallsReturn`
and `WriterEnds` of `DiskWriter`, `RunReturns`, `StopIsAnswered`, `StartEnds`, `CallsReturn`
of `Progress`). Every other property of a passing run is a theorem, those of the writer's
and the downloader's that need a premise under the premise named above or in section 6.

## 6. Where the code and its documents disagree

Each with a run that ends in the disagreement:

1. `Session_crash`: `fetch()` returns when the mark is queued (writer.py:92-96), the chunk is
   added to `_completed_set` (worker_pool.py:187-190), and the periodic saver writes the set
   (downloader.py:335) whether or not the writer thread has come to the chunk. A process that
   dies then leaves a list ahead of the file, and the resume skips what was never written;
   README.md:12 of the repository promises a resume "exactly where it left off". No stop and
   no fault is needed, and ETags do not help. The final save (downloader.py:343) writes the
   same list after a stop or a failed pool has made the writer leave its queue, or drop the
   commands (writer.py:79, 93). `ResumeIsTrue` says what remains true: nothing else is
   missing. A mapping has no such queue.
2. `Downloader_stop`: a `stop()` after the pool has answered sets the thread-level event;
   the writer leaves its queue, `start()` does not look again and ends COMPLETED with
   chunks missing and the progress file removed. With a checksum this is caught
   (`ChecksumMeansWhole`).
3. `Downloader_pause`: `pause()` while the file is being prepared saves the empty initial
   state over the progress file.
Seen in the models, without a run of their own:

* `DiskWriter.stop()` says that it finishes "any remaining writes" (writer.py:127) but
  gives up after one second for the sentinel and five for the join. `StopFinishesWrites` is
  therefore checked and proved under `~SlowDisk`.
* A save that runs in an executor thread survives the cancellation of the saver task and
  can recreate the progress file after `clear()` (`SaverWrites` in `Downloader`). The next
  start then finds a list for a finished file.
* A crash between the removal of the old file and that of its list (downloader.py:157, 159)
  leaves a list that the next session believes over an empty file: `orphaned`, which
  `ResumeIsTrue` excepts. A crash between the creation of the file and its first save
  leaves a file that the next start refuses (`DestinationExistsError`).
* Two saves that overlap share the temporary file (persistence.py:43, "atomically" in its
  docstring); the torn text loads as None, and the next start is refused as well.
  `SaveIsAtomic` holds until the first overlap. `safe_state_saves` syncs the list, but the
  data of the destination is synced nowhere, so a power failure may leave a list that claims
  too much: `ResumeIsTrue` holds without one.
* Without ETag and Last-Modified a changed file of the same size is resumed. A remote file
  that is rolled back to an earlier version would be taken for it, over data of the newer
  one, as the old list is not removed when the new session starts; `Session` lets the remote
  file only advance. Within a session nobody looks whether it changes.
* `MmapDiskWriter.stop()` raises BufferError while the hashing thread hashes a view
  (mmap_writer.py:107); `start()` then neither stops the hasher nor saves or closes
  anything (`StopWriter` of `StreamingHasher`).
* When all answers lack ranges the metadata are those of the first answer, but the one
  mirror that is kept is `urls[0]` (downloader.py:310), which may be one whose probe failed.
* `fetch` does not look for 206 (fetcher.py:139): a mirror that ignores Range next to others
  that do not sends its bytes from the start of the file, and they are taken for the chunk,
  clamped to its length and reported complete. `Fetcher` has such downloads (`Mixed`);
  `BytesInPlace` excepts the chunks of such a mirror, unless they begin the file
  (`First(m.by, m.chunk) = Start(m.chunk)`). Progress, limiter, bans and the order of writes
  and marks are checked and proved for them too. Without a checksum nothing notices.
* A first response may tell the length of a file of unknown size (fetcher.py:146). A retry
  finds it known and expects `min(chunk_size, length)` (fetcher.py:120), with 1 GiB for the
  chunk size (downloader.py:311): a longer file is clamped there, passes the comparison of
  the lengths, is not truncated and reported complete. tests/test_fetcher.py:137 asks that
  such a stream is not truncated at `chunk_size`, and tries a first attempt only. `Long` is
  such a download; `BytesInPlace` and `StoreSpec` hold up to that retry (`cropped`), and for
  every first attempt.
* The ban of a slow mirror is decided at one place and recorded at another, with the end of
  the response between them (fetcher.py:97, worker_pool.py:197). If that suspended the task,
  two slow fetches could each count the other's mirror and both be banned. `SlowKeepsOne` has
  the premise `~lingers`; `Lingering` is a download without it, for the other properties.
* tests/test_throttle.py:125 says "Tokens should never go negative"; `consume` takes them
  below zero on purpose (throttle.py:86) and sleeps the debt off, and so does `TokenBucket`.
* Progress drifts upward in two cases: a slow mirror given up in the inner loop leaves the
  uncopied rest of its piece reported (fetcher.py:206), and a response of the wrong length
  takes nothing back (fetcher.py:243). `ProgressAddsUp` excepts them by `drifted`.
* Time that `fetch` waits for the writer's queue counts as network time (fetcher.py:202), so
  that a slow disk can make a mirror slow.
* A later failure shortens a ban that is longer (mirror_health.py:54). A lowered rate lets
  sleepers keep their old, shorter sleep (throttle.py:62, `lowered`), and a rate that is
  lifted and set again forgets the debt.

## 7. Abstractions

* `FetcherAssumption` bounds the downloads of `Fetcher`. What the code itself sees to: there
  is a mirror; a file without ranges is one chunk, as long as the probe said, or, if it said
  nothing, of the fallback size, which is a multiple of the flush threshold and which the
  file may exceed; a mapping needs ranges; a probe that found ranges knows the length. What
  the world is taken to do: the length a probe or a response tells is that of the file (a
  wrong one is `faults`, a response that ends early), the file is not empty, and the remote
  file does not change under a fetch.
* The fallback to one task with the first mirror (downloader.py:310) is modelled by letting
  only one task at a time have a fetch (`Begin`); it may be any task, so that any mirror
  may be the one that is left.
* Bytes are parts with an origin; in `Fetcher`, units that a response delivers whole.
* A notification of a condition variable is a look at the condition: every wait of the code
  has a timeout and looks again.
* Time: a backoff, a ban or a timeout ends at some moment, or not before another event; in
  `Fetcher` it is counted in ticks, for the limiter, the bans and the slow check. `SlowDisk`
  says whether the timeouts of `writer.stop()` can expire on a living thread.
* The HTTP client, the file system and hash functions are external. A read-only descriptor
  reads what was written; digests do not collide. Removing the old file and the
  progress file succeeds. A directory entry is as durable as the rename that made it.
* `Downloader` takes the remote file as unchanged; `Session` has its versions, all of one
  size.
* What the writer has accepted counts as written in `Fetcher`; that it performs it in order
  is what `DiskWriter` is about.
* The pool has at least one worker, and making a fetcher does not raise.
* `start()` is called once per process and per `Downloader`.

## 8. Not modelled

* cli.py and building the components from a configuration: input, output and plain data.
* The limiter of a single task, a second object of the class in `TokenBucket`.
* The thread that takes the overlay "RESTARTING" away after three seconds
  (session.py:130-134), and with it whatever overlay was set meanwhile.
* Of progress.py: a bar on its own with its spinner, output that is no terminal, how a line
  is formatted, speed and remaining time. `NoOpProgress` does nothing.
* What a failing constructor or `load_resume_state` leaves open (downloader.py:185): the
  step is in `Downloader`, no property says anything about it.
* A `fetch()` that ends in an exception of another kind (worker_pool.py:201), which the code
  calls a bug and which takes back nothing of the progress.
* A terminal with fewer rows than bars, on which cursor movements stop at the top. Of what a
  bar shows only its overlay is compared with its present state (`NothingStale`); its bytes
  change without a frame, as `update()` draws none.

Left for later: a version of `Session` with the calls of the user, in which findings 2 and 3
would show at the level of files.
