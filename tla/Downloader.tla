------------------------------- MODULE Downloader -------------------------------
(***************************************************************************)
(* One download from start() to its result, over several sessions          *)
(* (downloader.py, with session.py and persistence.py as it uses them).    *)
(*                                                                         *)
(* Four kinds of thread share the state: the event loop (start(), the      *)
(* state saver, the callbacks other threads schedule), the writer thread,  *)
(* the hashing thread, and the user's thread, which calls pause(),         *)
(* resume(), stop() and cancel() at any time.  A step of start() is what   *)
(* it does between two points where another thread's step could matter.    *)
(* Between sessions only the file and the progress file remain.            *)
(*                                                                         *)
(* Pool, writer and hasher are taken at the level of whole chunks, as      *)
(* ChunkPool, ChunkStore and StreamingHasher describe them.                *)
(***************************************************************************)
EXTENDS Naturals, Sequences

CONSTANTS
  Chunks,        \* the chunk indices of the file
  Hashing,       \* whether a session may have, or lack, a checksum to verify
  Overwrite,     \* the values overwrite may have in a session
  Corrupt,       \* a mirror may serve wrong content
  DiskMayFail,   \* writing, hashing, saving may raise OSError
  SlowDisk,      \* the join of writer.stop() may time out
  Interrupts,    \* the task of start() may be cancelled (Ctrl-C)
  Calls,         \* the calls the user may make
  MaxCalls,      \* bound: calls of the user per session
  MaxSessions    \* bound: sessions

ASSUME DownloaderAssumption ==
  /\ Hashing \subseteq BOOLEAN /\ Overwrite \subseteq BOOLEAN /\ Corrupt \in BOOLEAN
  /\ DiskMayFail \in BOOLEAN /\ SlowDisk \in BOOLEAN /\ Interrupts \in BOOLEAN
  /\ Calls \subseteq {"pause", "resume", "stop", "cancel"}
  /\ MaxCalls \in Nat
  /\ MaxSessions \in Nat \ {0}

VARIABLES
  state,         \* _state
  pc,            \* where start() is
  success,       \* pool.run() answered True
  interrupted,   \* the task was cancelled during pool.run()
  stopEvent,     \* _stop_event
  threadEvent,   \* _stop_event_thread
  paused,        \* _pause_event is cleared
  callbacks,     \* what call_soon_threadsafe has scheduled
  user,          \* the call the user's thread is in, and how far
  used,          \* how many calls it has made
  completed,     \* _completed_set
  queued,        \* chunks whose mark the writer has accepted and not performed
  reported,      \* what is_on_disk says
  writer,        \* the writer thread: "off", "run", "done"
  writerError,   \* writer.error is not None
  sentinel,      \* writer.stop() has queued its sentinel
  hash,          \* the hashing thread: "off", "run", or its verdict
  saver,         \* _run_state_saver: "off", "sleep", "save", "done"
  saving,        \* what its executor thread is about to write: {} or a singleton
  lastSaved,     \* what it saved last
  fdOpen,        \* the descriptor of the destination is open
  httpOpen,      \* the HTTP session is open
  file,          \* the destination exists
  data,          \* chunks whose right content is in it
  progress,      \* the progress file: {} when there is none, else {its completed list}
  sessions       \* how many sessions there were

startVars  == <<pc, success, interrupted>>
eventVars  == <<stopEvent, threadEvent, paused, callbacks>>
userVars   == <<user, used>>
writerVars == <<queued, reported, writer, writerError, sentinel>>
saverVars  == <<saver, saving, lastSaved>>
handles    == <<fdOpen, httpOpen>>
fileVars   == <<file, data>>
vars == <<state, startVars, eventVars, userVars, completed, writerVars, hash, saverVars,
          handles, fileVars, progress, sessions>>

States == {"IDLE", "PROBING", "DOWNLOADING", "PAUSED", "COMPLETED", "FAILED", "CANCELLED"}

\* Slip: a running download cannot fail.
AfterNoFailure(s) ==
  CASE s = "IDLE"        -> {"PROBING", "CANCELLED"}
    [] s = "PROBING"     -> {"DOWNLOADING", "FAILED", "CANCELLED"}
    [] s = "DOWNLOADING" -> {"PAUSED", "COMPLETED", "CANCELLED"}
    [] s = "PAUSED"      -> {"DOWNLOADING", "COMPLETED", "CANCELLED"}
    [] OTHER             -> {}

\* VALID_TRANSITIONS
After(s) ==
  CASE s = "IDLE"        -> {"PROBING", "CANCELLED"}
    [] s = "PROBING"     -> {"DOWNLOADING", "FAILED", "CANCELLED"}
    [] s = "DOWNLOADING" -> {"PAUSED", "COMPLETED", "FAILED", "CANCELLED"}
    [] s = "PAUSED"      -> {"DOWNLOADING", "COMPLETED", "CANCELLED"}
    [] OTHER             -> {}

Over == pc \in {"returned", "raised"}

\* In these steps start() keeps the event loop to itself.
Blocking == pc \in {"stopWriter", "stopHasher", "save", "settle", "fail"}
LoopFree == ~Blocking /\ ~Over

\* _transition_to in start(): when the transition is not allowed it raises.
Enter(s, next) ==
  IF s \in After(state) THEN state' = s /\ pc' = next
  ELSE pc' = "raised" /\ UNCHANGED state

Fresh ==
  /\ state = "IDLE" /\ pc = "idle" /\ success = FALSE /\ interrupted = FALSE
  /\ stopEvent = FALSE /\ threadEvent = FALSE /\ paused = FALSE /\ callbacks = <<>>
  /\ user = [call |-> "none", step |-> "none"] /\ used = 0
  /\ completed = {} /\ queued = {} /\ reported = {}
  /\ writer = "off" /\ writerError = FALSE /\ sentinel = FALSE /\ hash = "off"
  /\ saver = "off" /\ saving = {} /\ lastSaved = {}
  /\ fdOpen = FALSE /\ httpOpen = FALSE

\* Nothing there, a file of somebody else's, or the true traces of an earlier session.
Init ==
  /\ Fresh
  /\ sessions = 1
  /\ \/ file \in BOOLEAN /\ data = {} /\ progress = {}
     \/ \E resumed \in SUBSET Chunks :
          file = TRUE /\ data = resumed /\ progress = {resumed}

-------------------------------------------------------------------------------
\* start(), up to the pool.

Start(overwrite) ==
  /\ pc = "idle"
  /\ threadEvent' = FALSE
  /\ IF file /\ overwrite
     THEN file' = FALSE /\ data' = {} /\ pc' = "clearOld"
     ELSE /\ pc' = IF file /\ progress = {} THEN "raised" ELSE "enter"
          /\ UNCHANGED fileVars
  /\ UNCHANGED <<state, success, interrupted, stopEvent, paused, callbacks, userVars,
                 completed, writerVars, hash, saverVars, handles, progress, sessions>>

ClearOld ==
  /\ pc = "clearOld"
  /\ progress' = {}
  /\ pc' = "enter"
  /\ UNCHANGED <<state, success, interrupted, eventVars, userVars, completed, writerVars,
                 hash, saverVars, handles, fileVars, sessions>>

StartProbing ==
  /\ pc = "enter"
  /\ Enter("PROBING", "probe")
  /\ UNCHANGED <<success, interrupted, eventVars, userVars, completed, writerVars, hash,
                 saverVars, handles, fileVars, progress, sessions>>

ProbeFails ==
  /\ pc = "probe"
  /\ Enter("FAILED", "returned")
  /\ UNCHANGED <<success, interrupted, eventVars, userVars, completed, writerVars, hash,
                 saverVars, handles, fileVars, progress, sessions>>

ProbeSucceeds ==
  /\ pc = "probe"
  /\ Enter("DOWNLOADING", "prepare")
  /\ httpOpen' = ("DOWNLOADING" \in After(state))
  /\ UNCHANGED <<success, interrupted, eventVars, userVars, completed, writerVars, hash,
                 saverVars, fdOpen, fileVars, progress, sessions>>

\* load_resume_state: what was saved, for the same remote file.
Loaded == UNION progress

\* prepare_file, load_resume_state, the writer's and the hasher's threads, the saver.
Prepare ==
  /\ pc = "prepare"
  /\ pc' = "pool"
  /\ fdOpen' = TRUE /\ file' = TRUE
  /\ completed' = Loaded
  /\ reported' = completed'
  /\ writer' = "run"
  /\ \E wanted \in Hashing : hash' = IF wanted THEN "run" ELSE "off"
  /\ saver' = "sleep" /\ lastSaved' = completed'
  /\ UNCHANGED <<state, success, interrupted, eventVars, userVars, queued, writerError,
                 sentinel, saving, httpOpen, data, progress, sessions>>

\* An OSError here is outside the try statement that closes the session; the file may
\* have been created.
PrepareFails ==
  /\ DiskMayFail
  /\ pc = "prepare"
  /\ pc' = "raised"
  /\ file' \in {file, TRUE}
  /\ UNCHANGED <<state, success, interrupted, eventVars, userVars, completed, writerVars,
                 hash, saverVars, handles, data, progress, sessions>>

-------------------------------------------------------------------------------
\* The pool: run() has its answer, then waits for its workers.

\* Slip: the chunk is not added to the completed set.
FetchCompletesUnseen(c) ==
  /\ pc \in {"pool", "drain"} /\ ~success
  /\ c \notin completed
  /\ queued' = IF threadEvent THEN queued ELSE queued \cup {c}
  /\ UNCHANGED <<state, startVars, eventVars, userVars, completed, reported, writer,
                 writerError, sentinel, hash, saverVars, handles, fileVars, progress,
                 sessions>>

\* A fetch of c ends well; with the thread-level event set its writes were dropped.
FetchCompletes(c) ==
  /\ pc \in {"pool", "drain"} /\ ~success
  /\ c \notin completed
  /\ completed' = completed \cup {c}
  /\ queued' = IF threadEvent THEN queued ELSE queued \cup {c}
  /\ UNCHANGED <<state, startVars, eventVars, userVars, reported, writer, writerError,
                 sentinel, hash, saverVars, handles, fileVars, progress, sessions>>

PoolSucceeds ==
  /\ pc = "pool"
  /\ completed = Chunks /\ ~stopEvent
  /\ success' = TRUE
  /\ pc' = "drain"
  /\ UNCHANGED <<state, interrupted, eventVars, userVars, completed, writerVars, hash,
                 saverVars, handles, fileVars, progress, sessions>>

\* A chunk is out of retries, or every mirror is banned.
PoolGivesUp ==
  /\ pc = "pool"
  /\ completed # Chunks
  /\ stopEvent' = TRUE /\ threadEvent' = TRUE
  /\ UNCHANGED <<state, startVars, paused, callbacks, userVars, completed, writerVars,
                 hash, saverVars, handles, fileVars, progress, sessions>>

PoolStops ==
  /\ pc = "pool"
  /\ stopEvent
  /\ pc' = "drain"
  /\ UNCHANGED <<state, success, interrupted, eventVars, userVars, completed, writerVars,
                 hash, saverVars, handles, fileVars, progress, sessions>>

\* run() tells its workers to stop and goes on to wait for them; or it was waiting already.
Interrupt ==
  /\ Interrupts /\ pc \in {"pool", "drain"}
  /\ interrupted' = TRUE /\ success' = FALSE
  /\ pc' = "drain"
  /\ stopEvent' = (stopEvent \/ pc = "pool")
  /\ UNCHANGED <<state, threadEvent, paused, callbacks, userVars, completed, writerVars, hash,
                 saverVars, handles, fileVars, progress, sessions>>

\* The task is cancelled while it waits for the prober or a helper thread, which may still
\* do what it was asked for.
InterruptOutsidePool ==
  /\ Interrupts /\ pc \in {"clearOld", "probe", "prepare", "finalize", "clear"}
  /\ pc' = "raised"
  /\ file' \in {file} \cup IF pc = "prepare" THEN {TRUE} ELSE {}
  /\ progress' \in {progress} \cup IF pc \in {"clearOld", "clear"} THEN {{}} ELSE {}
  /\ UNCHANGED <<state, success, interrupted, eventVars, userVars, completed, writerVars,
                 hash, saverVars, handles, data, sessions>>

-------------------------------------------------------------------------------
\* The finally clause after the pool.

\* run() has returned, or raised the cancellation.
PoolReturns ==
  /\ pc = "drain"
  /\ pc' = "stopWriter"
  /\ state' = IF interrupted /\ state = "DOWNLOADING" THEN "PAUSED" ELSE state
  /\ stopEvent' = (stopEvent \/ ~success)
  /\ threadEvent' = (threadEvent \/ ~success)
  /\ sentinel' \in IF SlowDisk THEN BOOLEAN ELSE {TRUE}
  /\ UNCHANGED <<success, interrupted, paused, callbacks, userVars, completed,
                 queued, reported, writer, writerError, hash, saverVars, handles,
                 fileVars, progress, sessions>>

WriterStopReturns ==
  /\ pc = "stopWriter"
  /\ writer = "done" \/ SlowDisk
  /\ pc' = "stopHasher"
  /\ UNCHANGED <<state, success, interrupted, eventVars, userVars, completed, writerVars,
                 hash, saverVars, handles, fileVars, progress, sessions>>

\* Slip: the join of the hashing thread has a timeout.
HasherStopTimesOut ==
  /\ pc = "stopHasher"
  /\ pc' = "save"
  /\ UNCHANGED <<state, success, interrupted, eventVars, userVars, completed, writerVars,
                 hash, saverVars, handles, fileVars, progress, sessions>>

HasherStopReturns ==
  /\ pc = "stopHasher"
  /\ hash # "run"
  /\ pc' = "save"
  /\ UNCHANGED <<state, success, interrupted, eventVars, userVars, completed, writerVars,
                 hash, saverVars, handles, fileVars, progress, sessions>>

\* Slip: the progress file goes as soon as the pool has succeeded.
SaveStateOrClear ==
  /\ pc = "save"
  /\ progress' \in {IF success THEN {} ELSE {completed}} \cup IF DiskMayFail THEN {progress} ELSE {}
  /\ saver' = "done"
  /\ pc' = "settle"
  /\ UNCHANGED <<state, success, interrupted, eventVars, userVars, completed, writerVars,
                 hash, saving, lastSaved, handles, fileVars, sessions>>

\* _save_state, then the saver task is cancelled; its executor thread is not.
SaveState ==
  /\ pc = "save"
  /\ progress' \in {{completed}} \cup IF DiskMayFail THEN {progress} ELSE {}
  /\ saver' = "done"
  /\ pc' = "settle"
  /\ UNCHANGED <<state, success, interrupted, eventVars, userVars, completed, writerVars,
                 hash, saving, lastSaved, handles, fileVars, sessions>>

\* The state is read here and changed in the next step.
Settle ==
  /\ pc = "settle"
  /\ IF IF writerError THEN state \in {"DOWNLOADING", "PAUSED"}
                       ELSE ~interrupted /\ ~success /\ state = "DOWNLOADING"
     THEN pc' = "fail" /\ UNCHANGED <<stopEvent, threadEvent>>
     ELSE pc' = "close" /\ stopEvent' = TRUE /\ threadEvent' = TRUE
  /\ UNCHANGED <<state, success, interrupted, paused, callbacks, userVars, completed,
                 writerVars, hash, saverVars, handles, fileVars, progress, sessions>>

\* PAUSED to FAILED is not allowed: then the rest of the finally clause is skipped.
SettleFails ==
  /\ pc = "fail"
  /\ Enter("FAILED", "close")
  /\ IF pc' = "close" THEN stopEvent' = TRUE /\ threadEvent' = TRUE
                      ELSE UNCHANGED <<stopEvent, threadEvent>>
  /\ UNCHANGED <<success, interrupted, paused, callbacks, userVars, completed, writerVars,
                 hash, saverVars, handles, fileVars, progress, sessions>>

Close ==
  /\ pc = "close"
  /\ fdOpen' = FALSE /\ httpOpen' = FALSE
  /\ pc' = IF interrupted THEN "raised" ELSE IF success THEN "finalize" ELSE "returned"
  /\ UNCHANGED <<state, success, interrupted, eventVars, userVars, completed, writerVars,
                 hash, saverVars, fileVars, progress, sessions>>

-------------------------------------------------------------------------------
\* The end of a successful download.

Verified == hash \in {"off", "match"}

FinalizeIf(verified) ==
  /\ pc = "finalize"
  /\ IF verified THEN pc' = "clear" /\ UNCHANGED state ELSE Enter("FAILED", "returned")
  /\ UNCHANGED <<success, interrupted, eventVars, userVars, completed, writerVars, hash,
                 saverVars, handles, fileVars, progress, sessions>>

\* Slip: no verdict (IncompleteHashError) counts as a match.
FinalizeLenient == FinalizeIf(hash # "mismatch")

Finalize == FinalizeIf(Verified)

Clear ==
  /\ pc = "clear"
  /\ progress' = {}
  /\ pc' = "finish"
  /\ UNCHANGED <<state, success, interrupted, eventVars, userVars, completed, writerVars,
                 hash, saverVars, handles, fileVars, sessions>>

Finish ==
  /\ pc = "finish"
  /\ Enter("COMPLETED", "returned")
  /\ UNCHANGED <<success, interrupted, eventVars, userVars, completed, writerVars, hash,
                 saverVars, handles, fileVars, progress, sessions>>

-------------------------------------------------------------------------------
\* The writer thread, seen by chunks: DiskWriter reports a chunk when all of it is in the
\* file, performs what it has accepted unless the thread-level event is set, and dies of
\* an OSError.

Contents == {TRUE} \cup IF Corrupt THEN {FALSE} ELSE {}

WriterWorks ==
  /\ writer = "run" /\ fdOpen
  /\ \E c \in queued, right \in Contents :
       /\ queued' = queued \ {c}
       /\ reported' = reported \cup {c}
       /\ data' = IF right THEN data \cup {c} ELSE data \ {c}
  /\ UNCHANGED <<state, startVars, eventVars, userVars, completed, writer, writerError,
                 sentinel, hash, saverVars, handles, file, progress, sessions>>

\* Slip: the sentinel overtakes the commands.
WriterEndsEarly ==
  /\ writer = "run"
  /\ threadEvent \/ sentinel
  /\ writer' = "done"
  /\ UNCHANGED <<state, startVars, eventVars, userVars, completed, queued, reported,
                 writerError, sentinel, hash, saverVars, handles, fileVars, progress,
                 sessions>>

WriterEnds ==
  /\ writer = "run"
  /\ threadEvent \/ (sentinel /\ queued = {})
  /\ writer' = "done"
  /\ UNCHANGED <<state, startVars, eventVars, userVars, completed, queued, reported,
                 writerError, sentinel, hash, saverVars, handles, fileVars, progress,
                 sessions>>

WriterFails ==
  /\ writer = "run" /\ queued # {}
  /\ DiskMayFail \/ ~fdOpen
  /\ writer' = "done"
  /\ writerError' = TRUE
  /\ threadEvent' = TRUE
  /\ UNCHANGED <<state, startVars, stopEvent, paused, callbacks, userVars, completed,
                 queued, reported, sentinel, hash, saverVars, handles, fileVars, progress,
                 sessions>>

\* The hashing thread: a verdict once every chunk is reported, none after the event.
HasherConcludes ==
  /\ hash = "run"
  /\ reported = Chunks /\ ~threadEvent
  /\ hash' = IF data = Chunks THEN "match" ELSE "mismatch"
  /\ UNCHANGED <<state, startVars, eventVars, userVars, completed, writerVars, saverVars,
                 handles, fileVars, progress, sessions>>

\* Slip: the event is not seen while the thread waits for a chunk.
HasherQuitsLate ==
  /\ hash = "run"
  /\ threadEvent /\ reported = Chunks
  /\ hash' = "none"
  /\ UNCHANGED <<state, startVars, eventVars, userVars, completed, writerVars, saverVars,
                 handles, fileVars, progress, sessions>>

HasherQuits ==
  /\ hash = "run"
  /\ threadEvent
  /\ hash' = "none"
  /\ UNCHANGED <<state, startVars, eventVars, userVars, completed, writerVars, saverVars,
                 handles, fileVars, progress, sessions>>

HasherDies ==
  /\ hash = "run"
  /\ DiskMayFail
  /\ hash' = "none"
  /\ UNCHANGED <<state, startVars, eventVars, userVars, completed, writerVars, saverVars,
                 handles, fileVars, progress, sessions>>

-------------------------------------------------------------------------------
\* The state saver and the scheduled callbacks, on the event loop.

SaverWakes ==
  /\ saver = "sleep" /\ LoopFree
  /\ ~stopEvent
  /\ completed # lastSaved
  /\ saver' = "save" /\ saving' = {completed} /\ lastSaved' = completed
  /\ UNCHANGED <<state, startVars, eventVars, userVars, completed, writerVars, hash,
                 handles, fileVars, progress, sessions>>

\* In an executor thread, which nobody cancels or waits for.
SaverWrites ==
  /\ saving # {}
  /\ saving' = {}
  /\ progress' \in {saving} \cup IF DiskMayFail THEN {progress} ELSE {}
  /\ saver' = IF saver = "save" THEN "sleep" ELSE saver
  /\ UNCHANGED <<state, startVars, eventVars, userVars, completed, writerVars, hash,
                 lastSaved, handles, fileVars, sessions>>

Callback ==
  /\ callbacks # <<>> /\ LoopFree
  /\ callbacks' = Tail(callbacks)
  /\ stopEvent' = (stopEvent \/ Head(callbacks) = "stop")
  /\ paused' = IF Head(callbacks) = "stop" THEN paused ELSE Head(callbacks) = "pause"
  /\ UNCHANGED <<state, startVars, threadEvent, userVars, completed, writerVars, hash,
                 saverVars, handles, fileVars, progress, sessions>>

-------------------------------------------------------------------------------
\* The user's thread.  A call looks at the state in one step and changes it in the next.

Allows(call, s) ==
  CASE call = "pause"  -> s = "DOWNLOADING"
    [] call = "resume" -> s = "PAUSED"
    [] call = "stop"   -> s \in {"DOWNLOADING", "PAUSED"}
    [] call = "cancel" -> TRUE

Target(call) ==
  CASE call = "resume" -> "DOWNLOADING"
    [] call = "cancel" -> "CANCELLED"
    [] OTHER           -> "PAUSED"

NoCall == [call |-> "none", step |-> "none"]

UserCalls(call) ==
  /\ user = NoCall /\ used < MaxCalls
  /\ Allows(call, state)
  /\ user' = [call |-> call, step |-> "act"]
  /\ used' = used + 1
  /\ UNCHANGED <<state, startVars, eventVars, completed, writerVars, hash, saverVars,
                 handles, fileVars, progress, sessions>>

\* There is no loop to schedule on before start().
Schedule(s) == callbacks' = IF pc = "idle" THEN callbacks ELSE callbacks \o s

\* The transition, which raises to the caller when it is no longer allowed; pause clears
\* its event before it, resume sets it after, stop and cancel go on to the signals.
UserActs ==
  /\ user.step = "act"
  /\ LET allowed == \/ Target(user.call) \in After(state)
                    \/ user.call = "stop" /\ state = "PAUSED"
     IN  /\ state' = IF allowed THEN Target(user.call) ELSE state
         /\ user' = IF ~allowed \/ user.call = "resume" THEN NoCall
                    ELSE [user EXCEPT !.step = IF user.call = "pause" THEN "save"
                                               ELSE "signal"]
         /\ CASE user.call = "pause" -> Schedule(<<"pause">>)
              [] user.call = "resume" /\ allowed -> Schedule(<<"unpause">>)
              [] OTHER -> UNCHANGED callbacks
  /\ UNCHANGED <<startVars, stopEvent, threadEvent, paused, used, completed, writerVars,
                 hash, saverVars, handles, fileVars, progress, sessions>>

UserSignals ==
  /\ user.step = "signal"
  /\ Schedule(<<"stop", "unpause">>)
  /\ threadEvent' = TRUE
  /\ user' = NoCall
  /\ UNCHANGED <<state, startVars, stopEvent, paused, used, completed, writerVars, hash,
                 saverVars, handles, fileVars, progress, sessions>>

\* pause() saves the state too, whatever start() is doing.
UserSaves ==
  /\ user.step = "save"
  /\ progress' \in {{completed}} \cup IF DiskMayFail THEN {progress} ELSE {}
  /\ user' = NoCall
  /\ UNCHANGED <<state, startVars, eventVars, used, completed, writerVars, hash,
                 saverVars, handles, fileVars, sessions>>

-------------------------------------------------------------------------------
\* The process dies at any moment, or ends, and another session is started.
NextSession ==
  /\ sessions < MaxSessions
  /\ sessions' = sessions + 1
  /\ state' = "IDLE" /\ pc' = "idle" /\ success' = FALSE /\ interrupted' = FALSE
  /\ stopEvent' = FALSE /\ threadEvent' = FALSE /\ paused' = FALSE /\ callbacks' = <<>>
  /\ user' = NoCall /\ used' = 0
  /\ completed' = {} /\ queued' = {} /\ reported' = {}
  /\ writer' = "off" /\ writerError' = FALSE /\ sentinel' = FALSE /\ hash' = "off"
  /\ saver' = "off" /\ saving' = {} /\ lastSaved' = {}
  /\ fdOpen' = FALSE /\ httpOpen' = FALSE
  /\ UNCHANGED <<fileVars, progress>>

Finished == Over /\ UNCHANGED vars

Prologue == (\E overwrite \in Overwrite : Start(overwrite)) \/ ClearOld \/ StartProbing \/ ProbeFails \/ ProbeSucceeds
            \/ Prepare \/ PrepareFails
Pool == PoolSucceeds \/ PoolStops \/ PoolReturns \/ \E c \in Chunks : FetchCompletes(c)
Epilogue == WriterStopReturns \/ HasherStopReturns \/ SaveState \/ Settle \/ SettleFails
            \/ Close \/ Finalize \/ Clear \/ Finish
Writer == WriterWorks \/ WriterEnds \/ WriterFails
Hasher == HasherConcludes \/ HasherQuits \/ HasherDies
Saver  == SaverWakes \/ SaverWrites
User   == UserActs \/ UserSignals \/ UserSaves

Next ==
  \/ Prologue \/ Pool \/ PoolGivesUp \/ Epilogue
  \/ Interrupt \/ InterruptOutsidePool
  \/ Writer \/ Hasher \/ Saver \/ Callback
  \/ User \/ \E call \in Calls : UserCalls(call)
  \/ NextSession
  \/ Finished

Spec == Init /\ [][Next]_vars

\* Every thread runs; fetches end while the download is not paused (the worker pool's
\* RunReturns); nobody has to call, to interrupt, to fail or to start again.
Fairness ==
  /\ WF_vars(Prologue) /\ WF_vars(Epilogue)
  /\ WF_vars(Pool /\ (~paused \/ stopEvent))
  /\ WF_vars(WriterWorks \/ WriterEnds)
  /\ WF_vars(HasherConcludes \/ HasherQuits) /\ WF_vars(Callback) /\ WF_vars(User)

FairSpec == Spec /\ Fairness

-------------------------------------------------------------------------------
\* Every variable keeps to its type.
TypeOK ==
  /\ state \in States
  /\ pc \in {"idle", "clearOld", "enter", "probe", "prepare", "pool", "drain",
             "stopWriter", "stopHasher", "save", "settle", "fail", "close", "finalize",
             "clear", "finish", "returned", "raised"}
  /\ success \in BOOLEAN /\ interrupted \in BOOLEAN
  /\ stopEvent \in BOOLEAN /\ threadEvent \in BOOLEAN /\ paused \in BOOLEAN
  /\ writerError \in BOOLEAN /\ sentinel \in BOOLEAN
  /\ fdOpen \in BOOLEAN /\ httpOpen \in BOOLEAN /\ file \in BOOLEAN
  /\ callbacks \in Seq({"stop", "pause", "unpause"})
  /\ user \in [call : Calls, step : {"act", "save", "signal"}] \cup {NoCall}
  /\ used \in 0..MaxCalls
  /\ completed \subseteq Chunks /\ data \subseteq Chunks
  /\ queued \subseteq completed /\ reported \subseteq completed /\ lastSaved \subseteq completed
  /\ writer \in {"off", "run", "done"}
  /\ hash \in {"off", "run", "match", "mismatch", "none"}
  /\ saver \in {"off", "sleep", "save", "done"}
  /\ \A s \in saving \cup progress : s \subseteq Chunks
  /\ sessions \in 1..MaxSessions

\* A download that says COMPLETED has every chunk in the file, with the right content.
CompletedIsWhole == state = "COMPLETED" => data = Chunks

\* The progress file is removed only when the file is whole, or with the old file.
ClearedIsWhole ==
  [][progress # {} /\ progress' = {} => data = Chunks \/ pc = "clearOld"]_vars

\* Once the pool has run, start() raises only if the user interfered or the writer failed;
\* otherwise every outcome, mismatch and giving up included, is a result.
UndisturbedReturns ==
  pc = "raised" /\ saver # "off" => used > 0 \/ interrupted \/ writerError

\* When start() returns a result nothing of the download is left open, its threads have
\* been told to end, and no chunk is fetched any more.
ReturnsClean ==
  pc = "returned" =>
    /\ ~fdOpen /\ ~httpOpen
    /\ saver # "off" => threadEvent /\ stopEvent /\ saver = "done"
    /\ hash # "run"

\* What is saved is never replaced by less: "If interrupted, the download can be resumed
\* exactly where it left off" (README.md:12).
ProgressIsKept ==
  [][\A s \in progress, t \in progress' : s \subseteq t]_vars

\* start() comes to an end, unless it is left paused: no join, no event and no thread
\* keeps it waiting for ever.
StartEnds == <>[]~paused => <>[]Over
================================================================================
