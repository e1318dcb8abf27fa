---------------------------- MODULE DownloaderProofs ----------------------------
(***************************************************************************)
(* Proofs about Downloader, for any chunks, calls, sessions and faults.    *)
(*                                                                         *)
(* Three invariants beside the types: PutAway says what start() has closed *)
(* and ended at each of its places, Judged that a verdict is about the     *)
(* file as it stays, Undisturbed what the state is when nobody interferes. *)
(***************************************************************************)
EXTENDS Downloader, TLAPS

Pcs == {"idle", "clearOld", "enter", "probe", "prepare", "pool", "drain", "stopWriter",
        "stopHasher", "save", "settle", "fail", "close", "finalize", "clear", "finish",
        "returned", "raised"}

\* TypeOK in four parts.
TypedPlaces ==
  /\ state \in States /\ pc \in Pcs
  /\ writer \in {"off", "run", "done"}
  /\ hash \in {"off", "run", "match", "mismatch", "none"}
  /\ saver \in {"off", "sleep", "save", "done"}

TypedFlags ==
  /\ success \in BOOLEAN /\ interrupted \in BOOLEAN
  /\ stopEvent \in BOOLEAN /\ threadEvent \in BOOLEAN /\ paused \in BOOLEAN
  /\ writerError \in BOOLEAN /\ sentinel \in BOOLEAN
  /\ fdOpen \in BOOLEAN /\ httpOpen \in BOOLEAN /\ file \in BOOLEAN

TypedCalls ==
  /\ callbacks \in Seq({"stop", "pause", "unpause"})
  /\ user \in [call : Calls, step : {"act", "save", "signal"}] \cup {NoCall}
  /\ used \in 0..MaxCalls
  /\ sessions \in 1..MaxSessions

TypedSets ==
  /\ completed \subseteq Chunks /\ data \subseteq Chunks
  /\ queued \subseteq completed /\ reported \subseteq completed /\ lastSaved \subseteq completed
  /\ \A s \in saving \cup progress : s \subseteq Chunks

\* Before the preparations there is nothing to save, to write or to hash.
Unprepared ==
  pc \in {"idle", "clearOld", "enter", "probe", "prepare"} =>
    /\ completed = {} /\ queued = {} /\ reported = {} /\ lastSaved = {}
    /\ writer = "off" /\ saver = "off" /\ hash = "off" /\ ~fdOpen

Typed == TypedPlaces /\ TypedFlags /\ TypedCalls /\ TypedSets /\ Unprepared

\* How far start() has put things away.
PutAway ==
  /\ pc \in {"idle", "clearOld", "enter", "probe"} => ~httpOpen
  /\ pc \in {"save", "settle", "fail", "close", "finalize", "clear", "finish"} => hash # "run"
  /\ pc \in {"settle", "fail", "close", "finalize", "clear", "finish"} => saver = "done"
  /\ pc \in {"close", "finalize", "clear", "finish"} => threadEvent /\ stopEvent
  /\ pc \in {"finalize", "clear", "finish"} => ~fdOpen /\ ~httpOpen
  /\ ReturnsClean

\* A verdict is about the file as it stays: a chunk that is reported is queued no more.
Judged ==
  /\ queued \cap reported = {}
  /\ hash = "match" => reported = Chunks /\ data = Chunks
  /\ pc \in {"pool", "drain", "stopWriter", "stopHasher", "save", "settle", "fail", "close",
             "finalize", "clear", "finish"} => hash # "off"
  /\ pc \in {"clear", "finish"} => hash = "match"
  /\ state = "COMPLETED" => hash = "match"

\* The state when nobody has interfered.
Undisturbed ==
  used = 0 /\ ~interrupted /\ ~writerError =>
    /\ user = NoCall
    /\ pc \in {"idle", "clearOld", "enter"} => state = "IDLE"
    /\ pc = "probe" => state = "PROBING"
    /\ pc \in {"prepare", "pool", "drain", "stopWriter", "stopHasher", "save", "settle", "fail",
               "finalize", "clear", "finish"} => state = "DOWNLOADING"
    /\ pc = "close" /\ success => state = "DOWNLOADING"
    /\ pc = "fail" => ~success
    /\ pc = "raised" => saver = "off"

-------------------------------------------------------------------------------
\* Types.
LEMMA TypedInit == Init => Typed
<1> SUFFICES ASSUME Init PROVE Typed OBVIOUS
<1> USE DEF Init, Fresh
<1>1. TypedPlaces BY DEF TypedPlaces, States, Pcs
<1>2. TypedFlags BY DEF TypedFlags
<1>3. TypedCalls BY DownloaderAssumption DEF DownloaderAssumption, TypedCalls, NoCall
<1>4. TypedSets BY DEF TypedSets
<1>5. Unprepared BY DEF Unprepared
<1> QED BY <1>1, <1>2, <1>3, <1>4, <1>5 DEF Typed

\* The preparations come first.
LEMMA UnpreparedStep ==
  ASSUME Unprepared, [Next]_vars
  PROVE  Unprepared'
<1> USE DEF Unprepared, startVars, eventVars, userVars, writerVars, saverVars, handles,
           fileVars
<1>1. CASE Prologue
  BY <1>1 DEF Prologue, Start, ClearOld, StartProbing, ProbeFails, ProbeSucceeds, Prepare,
     PrepareFails, Enter, Loaded
<1>2. CASE Pool
  BY <1>2 DEF Pool, PoolSucceeds, PoolStops, PoolReturns, FetchCompletes
<1>3. CASE PoolGivesUp \/ Interrupt \/ InterruptOutsidePool
  BY <1>3 DEF PoolGivesUp, Interrupt, InterruptOutsidePool
<1>4. CASE Epilogue
  BY <1>4 DEF Epilogue, WriterStopReturns, HasherStopReturns, SaveState, Settle, SettleFails,
     Close, Finalize, FinalizeIf, Clear, Finish, Enter
<1>5. CASE Writer \/ Hasher
  BY <1>5 DEF Writer, Hasher, WriterWorks, WriterEnds, WriterFails, HasherConcludes, HasherQuits,
     HasherDies
<1>6. CASE Saver \/ Callback
  BY <1>6 DEF Saver, SaverWakes, SaverWrites, Callback
<1>7. CASE User \/ \E call \in Calls : UserCalls(call)
  BY <1>7 DEF User, UserCalls, UserActs, UserSignals, UserSaves
<1>8. CASE NextSession BY <1>8 DEF NextSession
<1>9. CASE UNCHANGED vars BY <1>9 DEF vars
<1> QED BY <1>1, <1>2, <1>3, <1>4, <1>5, <1>6, <1>7, <1>8, <1>9 DEF Next, Finished

\* State, places of start() and threads.
LEMMA TypedPlacesStep ==
  ASSUME TypedPlaces, [Next]_vars
  PROVE  TypedPlaces'
<1> USE DEF TypedPlaces, States, Pcs, startVars, eventVars, userVars, writerVars, saverVars,
     handles,
           fileVars
<1>1. CASE Prologue
  BY <1>1 DEF Prologue, Start, ClearOld, StartProbing, ProbeFails, ProbeSucceeds, Prepare,
     PrepareFails, Enter, Loaded, Target
<1>2. CASE Pool
  <2>1. CASE PoolSucceeds BY <2>1 DEF PoolSucceeds
  <2>2. CASE PoolStops BY <2>2 DEF PoolStops
  <2>3. CASE PoolReturns BY <2>3 DEF PoolReturns
  <2>4. CASE \E c \in Chunks : FetchCompletes(c) BY <2>4 DEF FetchCompletes
  <2> QED BY <1>2, <2>1, <2>2, <2>3, <2>4 DEF Pool
<1>3. CASE PoolGivesUp \/ Interrupt \/ InterruptOutsidePool
  <2>1. CASE PoolGivesUp BY <2>1 DEF PoolGivesUp
  <2>2. CASE Interrupt BY <2>2 DEF Interrupt
  <2>3. CASE InterruptOutsidePool BY <2>3 DEF InterruptOutsidePool
  <2> QED BY <1>3, <2>1, <2>2, <2>3
<1>4. CASE Epilogue
  BY <1>4 DEF Epilogue, WriterStopReturns, HasherStopReturns, SaveState, Settle, SettleFails,
     Close, Finalize, FinalizeIf, Clear, Finish, Enter, Target
<1>5. CASE Writer \/ Hasher
  BY <1>5 DEF Writer, Hasher, WriterWorks, WriterEnds, WriterFails, HasherConcludes, HasherQuits,
     HasherDies, Target
<1>6. CASE Saver \/ Callback
  BY <1>6 DEF Saver, SaverWakes, SaverWrites, Callback, Target
<1>7. CASE User \/ \E call \in Calls : UserCalls(call)
  BY <1>7 DEF User, UserCalls, UserActs, UserSignals, UserSaves, Target
<1>8. CASE NextSession BY <1>8 DEF NextSession, Target
<1>9. CASE UNCHANGED vars BY <1>9 DEF vars, Target
<1> QED BY <1>1, <1>2, <1>3, <1>4, <1>5, <1>6, <1>7, <1>8, <1>9 DEF Next, Finished

\* Events, answers, descriptors.
LEMMA TypedFlagsStep ==
  ASSUME TypedFlags, [Next]_vars
  PROVE  TypedFlags'
<1> USE DEF TypedFlags, startVars, eventVars, userVars, writerVars, saverVars, handles,
           fileVars
<1>1. CASE Prologue
  <2>1. CASE \E overwrite \in Overwrite : Start(overwrite) BY <2>1 DEF Start
  <2>2. CASE ClearOld BY <2>2 DEF ClearOld
  <2>3. CASE StartProbing BY <2>3 DEF StartProbing, Enter
  <2>4. CASE ProbeFails BY <2>4 DEF ProbeFails, Enter
  <2>5. CASE ProbeSucceeds BY <2>5 DEF ProbeSucceeds, Enter
  <2>6. CASE Prepare BY <2>6 DEF Prepare, Loaded
  <2>7. CASE PrepareFails BY <2>7 DEF PrepareFails
  <2> QED BY <1>1, <2>1, <2>2, <2>3, <2>4, <2>5, <2>6, <2>7 DEF Prologue
<1>2. CASE Pool
  <2>1. CASE PoolSucceeds BY <2>1 DEF PoolSucceeds
  <2>2. CASE PoolStops BY <2>2 DEF PoolStops
  <2>3. CASE PoolReturns BY <2>3 DEF PoolReturns
  <2>4. CASE \E c \in Chunks : FetchCompletes(c) BY <2>4 DEF FetchCompletes
  <2> QED BY <1>2, <2>1, <2>2, <2>3, <2>4 DEF Pool
<1>3. CASE PoolGivesUp \/ Interrupt \/ InterruptOutsidePool
  <2>1. CASE PoolGivesUp BY <2>1 DEF PoolGivesUp
  <2>2. CASE Interrupt BY <2>2 DEF Interrupt
  <2>3. CASE InterruptOutsidePool
    <3>1. file' = file \/ file' = TRUE BY <2>3 DEF InterruptOutsidePool
    <3>2. UNCHANGED <<success, interrupted, eventVars, writerVars, handles>>
      BY <2>3 DEF InterruptOutsidePool
    <3> QED BY <3>1, <3>2
  <2> QED BY <1>3, <2>1, <2>2, <2>3
<1>4. CASE Epilogue
  <2>1. CASE WriterStopReturns BY <2>1 DEF WriterStopReturns
  <2>2. CASE HasherStopReturns BY <2>2 DEF HasherStopReturns
  <2>3. CASE SaveState BY <2>3 DEF SaveState
  <2>4. CASE Settle BY <2>4 DEF Settle
  <2>5. CASE SettleFails BY <2>5 DEF SettleFails, Enter
  <2>6. CASE Close BY <2>6 DEF Close
  <2>7. CASE Finalize BY <2>7 DEF Finalize, FinalizeIf, Enter
  <2>8. CASE Clear BY <2>8 DEF Clear
  <2>9. CASE Finish BY <2>9 DEF Finish, Enter
  <2> QED BY <1>4, <2>1, <2>2, <2>3, <2>4, <2>5, <2>6, <2>7, <2>8, <2>9 DEF Epilogue
<1>5. CASE Writer \/ Hasher
  <2>1. CASE WriterWorks BY <2>1 DEF WriterWorks
  <2>2. CASE WriterEnds BY <2>2 DEF WriterEnds
  <2>3. CASE WriterFails BY <2>3 DEF WriterFails
  <2>4. CASE HasherConcludes BY <2>4 DEF HasherConcludes
  <2>5. CASE HasherQuits BY <2>5 DEF HasherQuits
  <2>6. CASE HasherDies BY <2>6 DEF HasherDies
  <2> QED BY <1>5, <2>1, <2>2, <2>3, <2>4, <2>5, <2>6 DEF Writer, Hasher
<1>6. CASE Saver \/ Callback
  <2>1. CASE SaverWakes BY <2>1 DEF SaverWakes
  <2>2. CASE SaverWrites BY <2>2 DEF SaverWrites
  <2>3. CASE Callback BY <2>3 DEF Callback
  <2> QED BY <1>6, <2>1, <2>2, <2>3 DEF Saver
<1>7. CASE User \/ \E call \in Calls : UserCalls(call)
  <2>1. CASE UserActs BY <2>1 DEF UserActs
  <2>2. CASE UserSignals BY <2>2 DEF UserSignals
  <2>3. CASE UserSaves BY <2>3 DEF UserSaves
  <2>4. CASE \E call \in Calls : UserCalls(call) BY <2>4 DEF UserCalls
  <2> QED BY <1>7, <2>1, <2>2, <2>3, <2>4 DEF User
<1>8. CASE NextSession BY <1>8 DEF NextSession
<1>9. CASE UNCHANGED vars BY <1>9 DEF vars
<1> QED BY <1>1, <1>2, <1>3, <1>4, <1>5, <1>6, <1>7, <1>8, <1>9 DEF Next, Finished

\* The calls of the user and what they schedule.
LEMMA TypedCallsStep ==
  ASSUME TypedCalls, [Next]_vars
  PROVE  TypedCalls'
<1> USE DEF TypedCalls, startVars, eventVars, userVars, writerVars, saverVars, handles,
           fileVars
<1>1. CASE Prologue
  BY <1>1 DEF Prologue, Start, ClearOld, StartProbing, ProbeFails, ProbeSucceeds, Prepare,
     PrepareFails, Enter, Loaded
<1>2. CASE Pool
  BY <1>2 DEF Pool, PoolSucceeds, PoolStops, PoolReturns, FetchCompletes
<1>3. CASE PoolGivesUp \/ Interrupt \/ InterruptOutsidePool
  BY <1>3 DEF PoolGivesUp, Interrupt, InterruptOutsidePool
<1>4. CASE Epilogue
  BY <1>4 DEF Epilogue, WriterStopReturns, HasherStopReturns, SaveState, Settle, SettleFails,
     Close, Finalize, FinalizeIf, Clear, Finish, Enter
<1>5. CASE Writer \/ Hasher
  BY <1>5 DEF Writer, Hasher, WriterWorks, WriterEnds, WriterFails, HasherConcludes, HasherQuits,
     HasherDies
<1>6. CASE Saver \/ Callback
  <2>1. CASE SaverWakes BY <2>1 DEF SaverWakes
  <2>2. CASE SaverWrites BY <2>2 DEF SaverWrites
  <2>3. CASE Callback BY <2>3 DEF Callback
  <2> QED BY <1>6, <2>1, <2>2, <2>3 DEF Saver
<1>7. CASE UserActs
  <2>1. user \in [call : Calls, step : {"act", "save", "signal"}]
    BY <1>7 DEF UserActs, NoCall
  <2>2. user' \in [call : Calls, step : {"act", "save", "signal"}] \cup {NoCall}
    BY <1>7, <2>1 DEF UserActs
  <2>3. callbacks' \in Seq({"stop", "pause", "unpause"})
    <3>1. \A s \in Seq({"stop", "pause", "unpause"}) :
            callbacks \o s \in Seq({"stop", "pause", "unpause"})
      OBVIOUS
    <3>2. <<"pause">> \in Seq({"stop", "pause", "unpause"})
          /\ <<"unpause">> \in Seq({"stop", "pause", "unpause"})
      OBVIOUS
    <3> QED BY <1>7, <3>1, <3>2 DEF UserActs, Schedule
  <2> QED BY <1>7, <2>2, <2>3 DEF UserActs
<1>10. CASE UserSignals
  <2>1. <<"stop", "unpause">> \in Seq({"stop", "pause", "unpause"}) OBVIOUS
  <2>2. callbacks' \in Seq({"stop", "pause", "unpause"})
    <3>1. callbacks \o <<"stop", "unpause">> \in Seq({"stop", "pause", "unpause"}) BY <2>1
    <3> QED BY <1>10, <3>1 DEF UserSignals, Schedule
  <2>3. user' = NoCall /\ used' = used /\ sessions' = sessions BY <1>10 DEF UserSignals
  <2> QED BY <2>2, <2>3
<1>11. CASE UserSaves BY <1>11 DEF UserSaves
<1>12. ASSUME NEW call \in Calls, UserCalls(call) PROVE TypedCalls'
  <2>1. user' \in [call : Calls, step : {"act", "save", "signal"}]
    BY <1>12 DEF UserCalls
  <2>2. used' \in 0..MaxCalls
    BY <1>12, DownloaderAssumption DEF DownloaderAssumption, UserCalls
  <2> QED BY <1>12, <2>1, <2>2 DEF UserCalls
<1>8. CASE NextSession BY <1>8, DownloaderAssumption DEF DownloaderAssumption, NextSession
<1>9. CASE UNCHANGED vars BY <1>9 DEF vars
<1> QED BY <1>1, <1>2, <1>3, <1>4, <1>5, <1>6, <1>7, <1>8, <1>9, <1>10, <1>11, <1>12
        DEF Next, User, Finished

\* Only completed chunks are queued, reported or saved by the saver.
LEMMA TypedSetsStep ==
  ASSUME TypedSets, Unprepared, [Next]_vars
  PROVE  TypedSets'
<1> USE DEF TypedSets, Unprepared, startVars, eventVars, userVars, writerVars, saverVars, handles,
           fileVars
<1>1. CASE Prologue
  BY <1>1 DEF Prologue, Start, ClearOld, StartProbing, ProbeFails, ProbeSucceeds, Prepare,
     PrepareFails, Enter, Loaded
<1>2. CASE Pool
  BY <1>2 DEF Pool, PoolSucceeds, PoolStops, PoolReturns, FetchCompletes
<1>3. CASE PoolGivesUp \/ Interrupt \/ InterruptOutsidePool
  BY <1>3 DEF PoolGivesUp, Interrupt, InterruptOutsidePool
<1>4. CASE Epilogue
  BY <1>4 DEF Epilogue, WriterStopReturns, HasherStopReturns, SaveState, Settle, SettleFails,
     Close, Finalize, FinalizeIf, Clear, Finish, Enter
<1>5. CASE Writer \/ Hasher
  BY <1>5 DEF Writer, Hasher, WriterWorks, WriterEnds, WriterFails, HasherConcludes, HasherQuits,
     HasherDies
<1>6. CASE Saver \/ Callback
  BY <1>6 DEF Saver, SaverWakes, SaverWrites, Callback
<1>7. CASE User \/ \E call \in Calls : UserCalls(call)
  BY <1>7 DEF User, UserCalls, UserActs, UserSignals, UserSaves
<1>8. CASE NextSession BY <1>8 DEF NextSession
<1>9. CASE UNCHANGED vars BY <1>9 DEF vars
<1> QED BY <1>1, <1>2, <1>3, <1>4, <1>5, <1>6, <1>7, <1>8, <1>9 DEF Next, Finished

\* What is put away stays so.
LEMMA PutAwayStep ==
  ASSUME PutAway, Unprepared, [Next]_vars
  PROVE  PutAway'
<1> USE DEF PutAway, Unprepared, ReturnsClean, startVars, eventVars, userVars, writerVars,
     saverVars, handles,
           fileVars
<1>1. CASE Prologue
  <2>1. CASE \E overwrite \in Overwrite : Start(overwrite) BY <2>1 DEF Start
  <2>2. CASE ClearOld BY <2>2 DEF ClearOld
  <2>3. CASE StartProbing BY <2>3 DEF StartProbing, Enter
  <2>4. CASE ProbeFails BY <2>4 DEF ProbeFails, Enter
  <2>5. CASE ProbeSucceeds BY <2>5 DEF ProbeSucceeds, Enter
  <2>6. CASE Prepare BY <2>6 DEF Prepare, Loaded
  <2>7. CASE PrepareFails BY <2>7 DEF PrepareFails
  <2> QED BY <1>1, <2>1, <2>2, <2>3, <2>4, <2>5, <2>6, <2>7 DEF Prologue
<1>2. CASE Pool
  BY <1>2 DEF Pool, PoolSucceeds, PoolStops, PoolReturns, FetchCompletes
<1>3. CASE PoolGivesUp \/ Interrupt \/ InterruptOutsidePool
  BY <1>3 DEF PoolGivesUp, Interrupt, InterruptOutsidePool
<1>4. CASE Epilogue
  BY <1>4 DEF Epilogue, WriterStopReturns, HasherStopReturns, SaveState, Settle, SettleFails,
     Close, Finalize, FinalizeIf, Clear, Finish, Enter
<1>5. CASE Writer \/ Hasher
  BY <1>5 DEF Writer, Hasher, WriterWorks, WriterEnds, WriterFails, HasherConcludes, HasherQuits,
     HasherDies
<1>6. CASE Saver \/ Callback
  <2>1. CASE SaverWakes BY <2>1 DEF SaverWakes
  <2>2. CASE SaverWrites BY <2>2 DEF SaverWrites
  <2>3. CASE Callback BY <2>3 DEF Callback
  <2> QED BY <1>6, <2>1, <2>2, <2>3 DEF Saver
<1>7. CASE User \/ \E call \in Calls : UserCalls(call)
  BY <1>7 DEF User, UserCalls, UserActs, UserSignals, UserSaves
<1>8. CASE NextSession BY <1>8 DEF NextSession
<1>9. CASE UNCHANGED vars BY <1>9 DEF vars
<1> QED BY <1>1, <1>2, <1>3, <1>4, <1>5, <1>6, <1>7, <1>8, <1>9 DEF Next, Finished

\* The verdict stays true.
LEMMA JudgedStep ==
  ASSUME Typed, Judged, Hashing = {TRUE}, [Next]_vars
  PROVE  Judged'
<1> USE DEF Judged, Typed, TypedSets, Unprepared, startVars, eventVars, userVars, writerVars,
     saverVars, handles,
           fileVars
<1>1. CASE Prologue
  BY <1>1 DEF Prologue, Start, ClearOld, StartProbing, ProbeFails, ProbeSucceeds, Prepare,
     PrepareFails, Enter, Loaded
<1>2. CASE Pool
  BY <1>2 DEF Pool, PoolSucceeds, PoolStops, PoolReturns, FetchCompletes
<1>3. CASE PoolGivesUp \/ Interrupt \/ InterruptOutsidePool
  BY <1>3 DEF PoolGivesUp, Interrupt, InterruptOutsidePool
<1>4. CASE Epilogue
  <2>1. CASE WriterStopReturns BY <2>1 DEF WriterStopReturns
  <2>2. CASE HasherStopReturns BY <2>2 DEF HasherStopReturns
  <2>3. CASE SaveState BY <2>3 DEF SaveState
  <2>4. CASE Settle BY <2>4 DEF Settle
  <2>5. CASE SettleFails BY <2>5 DEF SettleFails, Enter
  <2>6. CASE Close BY <2>6 DEF Close
  <2>7. CASE Finalize BY <2>7 DEF Finalize, FinalizeIf, Enter, Verified
  <2>8. CASE Clear BY <2>8 DEF Clear
  <2>9. CASE Finish BY <2>9 DEF Finish, Enter
  <2> QED BY <1>4, <2>1, <2>2, <2>3, <2>4, <2>5, <2>6, <2>7, <2>8, <2>9 DEF Epilogue
<1>5. CASE Writer \/ Hasher
  BY <1>5 DEF Writer, Hasher, WriterWorks, WriterEnds, WriterFails, HasherConcludes, HasherQuits,
     HasherDies
<1>6. CASE Saver \/ Callback
  BY <1>6 DEF Saver, SaverWakes, SaverWrites, Callback
<1>7. CASE User \/ \E call \in Calls : UserCalls(call)
  <2>1. CASE UserActs BY <2>1 DEF UserActs, Target
  <2>2. CASE UserSignals BY <2>2 DEF UserSignals
  <2>3. CASE UserSaves BY <2>3 DEF UserSaves
  <2>4. CASE \E call \in Calls : UserCalls(call) BY <2>4 DEF UserCalls
  <2> QED BY <1>7, <2>1, <2>2, <2>3, <2>4 DEF User
<1>8. CASE NextSession BY <1>8 DEF NextSession
<1>9. CASE UNCHANGED vars BY <1>9 DEF vars
<1> QED BY <1>1, <1>2, <1>3, <1>4, <1>5, <1>6, <1>7, <1>8, <1>9 DEF Next, Finished

\* Nobody has interfered.
LEMMA UndisturbedStep ==
  ASSUME Typed, Undisturbed, ~Interrupts, [Next]_vars
  PROVE  Undisturbed'
<1> USE DEF Undisturbed, Unprepared, startVars, eventVars, userVars, writerVars, saverVars,
     handles,
           fileVars
<1>0. Unprepared /\ used \in Nat BY DownloaderAssumption DEF DownloaderAssumption, Typed,
     TypedCalls
<1>1. CASE Prologue
  <2>1. CASE \E overwrite \in Overwrite : Start(overwrite) BY <1>0, <2>1 DEF Start, NoCall, After
  <2>2. CASE ClearOld BY <2>2 DEF ClearOld, NoCall, After
  <2>3. CASE StartProbing BY <2>3 DEF StartProbing, Enter, NoCall, After
  <2>4. CASE ProbeFails BY <2>4 DEF ProbeFails, Enter, NoCall, After
  <2>5. CASE ProbeSucceeds BY <2>5 DEF ProbeSucceeds, Enter, NoCall, After
  <2>6. CASE Prepare BY <1>0, <2>6 DEF Prepare, Loaded, NoCall, After
  <2>7. CASE PrepareFails BY <1>0, <2>7 DEF PrepareFails, NoCall, After
  <2> QED BY <1>1, <2>1, <2>2, <2>3, <2>4, <2>5, <2>6, <2>7 DEF Prologue
<1>2. CASE Pool
  BY <1>2 DEF Pool, PoolSucceeds, PoolStops, PoolReturns, FetchCompletes, NoCall, After
<1>3. CASE PoolGivesUp \/ Interrupt \/ InterruptOutsidePool
  BY <1>3 DEF PoolGivesUp, Interrupt, InterruptOutsidePool, NoCall, After
<1>4. CASE Epilogue
  BY <1>4 DEF Epilogue, WriterStopReturns, HasherStopReturns, SaveState, Settle, SettleFails,
     Close, Finalize, FinalizeIf, Clear, Finish, Enter, NoCall, After
<1>5. CASE Writer \/ Hasher
  BY <1>5 DEF Writer, Hasher, WriterWorks, WriterEnds, WriterFails, HasherConcludes, HasherQuits,
     HasherDies, NoCall, After
<1>6. CASE Saver \/ Callback
  BY <1>6 DEF Saver, SaverWakes, SaverWrites, Callback, NoCall, After
<1>7. CASE User \/ \E call \in Calls : UserCalls(call)
  <2>1. CASE UserActs BY <2>1 DEF UserActs, NoCall, After
  <2>2. CASE UserSignals BY <2>2 DEF UserSignals, NoCall, After
  <2>3. CASE UserSaves BY <2>3 DEF UserSaves, NoCall, After
  <2>4. CASE \E call \in Calls : UserCalls(call) BY <1>0, <2>4 DEF UserCalls, NoCall, After
  <2> QED BY <1>7, <2>1, <2>2, <2>3, <2>4 DEF User
<1>8. CASE NextSession BY <1>8 DEF NextSession, NoCall, After
<1>9. CASE UNCHANGED vars BY <1>9 DEF vars, NoCall, After
<1> QED BY <1>1, <1>2, <1>3, <1>4, <1>5, <1>6, <1>7, <1>8, <1>9 DEF Next, Finished

-------------------------------------------------------------------------------
LEMMA TypedStep ==
  ASSUME Typed, [Next]_vars
  PROVE  Typed'
BY UnpreparedStep, TypedPlacesStep, TypedFlagsStep, TypedCallsStep, TypedSetsStep DEF Typed

\* The invariants hold before anything has been done.
LEMMA StartsRight == Init => PutAway /\ Judged /\ Undisturbed
<1> SUFFICES ASSUME Init PROVE PutAway /\ Judged /\ Undisturbed OBVIOUS
<1> USE DEF Init, Fresh
<1>1. PutAway BY DEF PutAway, ReturnsClean
<1>2. Judged BY DEF Judged
<1>3. Undisturbed BY DEF Undisturbed, NoCall
<1> QED BY <1>1, <1>2, <1>3

\* The strengthened type invariant is kept whatever the calls, the faults and the sessions.
LEMMA AlwaysTyped == Spec => []Typed
<1>1. Init => Typed BY TypedInit
<1>2. Typed /\ [Next]_vars => Typed' BY TypedStep
<1> QED BY <1>1, <1>2, PTL DEF Spec

\* Every variable keeps to its type in downloads of any number of chunks and sessions.
THEOREM TypeCorrect == Spec => []TypeOK
<1>1. Typed => TypeOK
  BY DEF Typed, TypedPlaces, TypedFlags, TypedCalls, TypedSets, Pcs, TypeOK
<1> QED BY <1>1, AlwaysTyped, PTL

\* However start() comes to a result, with any calls, faults and interruptions before it,
\* the descriptor and the HTTP session are closed, the saver is done, the threads have been
\* told to end and the hashing thread has ended.
THEOREM ReturnsAreClean == Spec => []ReturnsClean
<1>1. Init => PutAway BY StartsRight
<1>2. Typed /\ PutAway /\ [Next]_vars => PutAway' BY PutAwayStep DEF Typed
<1>3. PutAway => ReturnsClean BY DEF PutAway
<1> QED BY <1>1, <1>2, <1>3, AlwaysTyped, PTL DEF Spec

\* With a checksum in every session, COMPLETED means that the file is whole, whatever the
\* mirrors serve and whatever is called, interrupted or resumed on the way.
THEOREM ChecksumMeansWhole == Hashing = {TRUE} /\ Spec => []CompletedIsWhole
<1> SUFFICES ASSUME Hashing = {TRUE} PROVE Spec => []CompletedIsWhole
  OBVIOUS
<1>1. Init => Judged BY StartsRight
<1>2. Typed /\ Judged /\ [Next]_vars => Judged' BY JudgedStep
<1>3. Judged => CompletedIsWhole BY DEF Judged, CompletedIsWhole
<1> QED BY <1>1, <1>2, <1>3, AlwaysTyped, PTL DEF Spec

\* A step that removes the progress file removes it with the old file or from a whole one.
LEMMA ClearsStep ==
  ASSUME Typed, Judged, [Next]_vars, progress # {}, progress' = {}
  PROVE  data = Chunks \/ pc = "clearOld"
<1> USE DEF startVars, eventVars, userVars, writerVars, saverVars, handles, fileVars
<1>1. CASE Prologue
  BY <1>1 DEF Prologue, Start, ClearOld, StartProbing, ProbeFails, ProbeSucceeds, Prepare,
     PrepareFails
<1>2. CASE Pool
  BY <1>2 DEF Pool, PoolSucceeds, PoolStops, PoolReturns, FetchCompletes
<1>3. CASE PoolGivesUp \/ Interrupt \/ InterruptOutsidePool
  BY <1>3 DEF PoolGivesUp, Interrupt, InterruptOutsidePool, Judged
<1>4. CASE Epilogue
  BY <1>4 DEF Epilogue, WriterStopReturns, HasherStopReturns, SaveState, Settle, SettleFails,
     Close, Finalize, FinalizeIf, Clear, Finish, Judged
<1>5. CASE Writer \/ Hasher
  BY <1>5 DEF Writer, Hasher, WriterWorks, WriterEnds, WriterFails, HasherConcludes, HasherQuits,
     HasherDies
<1>6. CASE Saver \/ Callback
  BY <1>6 DEF Saver, SaverWakes, SaverWrites, Callback
<1>7. CASE User \/ \E call \in Calls : UserCalls(call)
  BY <1>7 DEF User, UserCalls, UserActs, UserSignals, UserSaves
<1>8. CASE NextSession BY <1>8 DEF NextSession
<1>9. CASE UNCHANGED vars BY <1>9 DEF vars
<1> QED BY <1>1, <1>2, <1>3, <1>4, <1>5, <1>6, <1>7, <1>8, <1>9 DEF Next, Finished

\* With a checksum in every session, a resumable download never loses its progress file
\* before its file is whole, unless the user asks to overwrite it.
THEOREM ClearsOnlyWhole == Hashing = {TRUE} /\ Spec => ClearedIsWhole
<1> SUFFICES ASSUME Hashing = {TRUE} PROVE Spec => ClearedIsWhole
  OBVIOUS
<1>1. Init => Judged BY StartsRight
<1>2. Typed /\ Judged /\ [Next]_vars => Judged' BY JudgedStep
<1>3. Typed /\ Judged /\ [Next]_vars =>
        [progress # {} /\ progress' = {} => data = Chunks \/ pc = "clearOld"]_vars
  BY ClearsStep
<1> QED BY <1>1, <1>2, <1>3, AlwaysTyped, PTL DEF Spec, ClearedIsWhole

\* Where nobody interrupts, start() raises after the pool has run only if the user called
\* something or the writer failed; giving up and a mismatch are results.
THEOREM UndisturbedReturn == ~Interrupts /\ Spec => []UndisturbedReturns
<1> SUFFICES ASSUME ~Interrupts PROVE Spec => []UndisturbedReturns
  OBVIOUS
<1>1. Init => Undisturbed BY StartsRight
<1>2. Typed /\ Undisturbed /\ [Next]_vars => Undisturbed' BY UndisturbedStep
<1>3. Typed /\ Undisturbed => UndisturbedReturns
  BY DownloaderAssumption
     DEF DownloaderAssumption, Typed, TypedCalls, Undisturbed, UndisturbedReturns
<1> QED BY <1>1, <1>2, <1>3, AlwaysTyped, PTL DEF Spec
================================================================================
