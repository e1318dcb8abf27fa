-------------------------------- MODULE Session --------------------------------
(***************************************************************************)
(* The sessions of one download and the progress file between them         *)
(* (persistence.py, session.py, and downloader.py as it uses them).        *)
(*                                                                         *)
(* A session probes its mirrors, decides on the layout of the file, loads  *)
(* the progress file and accepts it or not, completes chunks and saves its *)
(* progress: from an executor thread every three seconds (periodic), and,  *)
(* with the state lock held, from pause() and at the end of start()        *)
(* (locked).  A chunk counts as completed when its data is with the writer *)
(* thread, which has yet to put it into the file.  A save writes a         *)
(* temporary file and renames it.  The process may die between any two     *)
(* steps, and the power may fail.  From one session to the next the remote *)
(* file may change.                                                        *)
(***************************************************************************)
EXTENDS Naturals, FiniteSets

CONSTANTS
  Mirrors, None,   \* see Prober
  Chunks,          \* the chunks of the file when it is cut
  Settings,        \* the settings Init chooses from
  Versions,        \* bound: versions of the remote file
  MaxSessions,     \* bound: sessions
  MaxSaves         \* bound: saves of pause() and of the saver, per session

ASSUME SessionAssumption ==
  /\ IsFiniteSet(Mirrors) /\ Mirrors # {} /\ None \notin Mirrors
  /\ IsFiniteSet(Chunks) /\ Chunks # {}
  /\ Settings \subseteq [safe : BOOLEAN, tags : BOOLEAN, power : BOOLEAN, overwrite : BOOLEAN,
                          mmap : BOOLEAN, stops : BOOLEAN,
                          serves : SUBSET {"ranges", "plain", "dead"}]
  /\ Versions \in Nat \ {0}
  /\ MaxSessions \in Nat \ {0} /\ MaxSaves \in Nat

Savers == {"periodic", "locked"}

\* Two names and two savers hold on to as many files at most.
Inodes == 1..4

VARIABLES
  setting,     \* safe: safe_state_saves; tags: the servers send ETags; power: it may fail;
               \* overwrite: sessions may be asked to; mmap: the file is mapped where it can be;
               \* stops: a stop() or the disk may end the writer; serves: what a mirror may do
  remote,      \* the version of the remote file
  serves, out, fallback, answered, found,   \* the probe
  phase,       \* where the session is
  told,        \* its metadata: the version, and whether the file is cut into chunks
  text,        \* _download_state: the version it is marked with, its layout, its list
  completed,   \* _completed_set
  file,        \* the destination exists
  data,        \* the version of each chunk in it, 0 for none or a mixture
  queued,      \* the chunks that the writer thread has yet to write and mark
  dropped,     \* history: chunks that were never written when their process or writer ended
  live, tmp,   \* the inode under the progress file's two names, 0 for none
  content,     \* what is in each inode
  synced,      \* the inodes that are on the medium
  saver,       \* the saves under way
  lastSaved,   \* last_saved
  saves,       \* saves so far in this session
  overlapped,  \* history: two saves were under way at once
  orphaned,    \* history: a session died after it removed the file and before its list
  sessions

probe == <<serves, out, fallback, answered, found>>
destination == <<file, data, queued, dropped>>
names == <<live, tmp>>
vars == <<setting, remote, probe, phase, told, text, completed, destination, names, content,
          synced, saver, lastSaved, saves, overlapped, orphaned, sessions>>

Probe == INSTANCE Prober

NoText == [version |-> 0, cut |-> FALSE, list |-> {}]

\* What was written last, and the length of the file: over a longer text a shorter one
\* leaves its end.
Blank == [text |-> NoText, length |-> 0]
Length(t) == 1 + Cardinality(t.list)
IsWhole(f) == f.length = Length(f.text)

Idle == [at |-> "no", inode |-> 0, text |-> NoText]
Saving(s) == saver[s].at # "no"
Locked == Saving("locked")

\* A file that is not cut is one chunk.
First == CHOOSE c \in Chunks : TRUE
Layout == IF told.cut THEN Chunks ELSE {First}
Parts(list) == IF told.cut THEN list ELSE IF list = {} THEN {} ELSE Chunks

Serving == [Mirrors -> setting.serves]

Init ==
  /\ setting \in Settings
  /\ remote = 1
  /\ serves \in Serving
  /\ out = Mirrors /\ fallback = None /\ answered = {} /\ found = "no"
  /\ phase = "start"
  /\ told = [version |-> 0, cut |-> FALSE]
  /\ text = NoText /\ completed = {}
  /\ file = FALSE /\ data = [c \in Chunks |-> 0] /\ queued = {} /\ dropped = {}
  /\ live = 0 /\ tmp = 0
  /\ content = [i \in Inodes |-> Blank] /\ synced = {}
  /\ saver = [s \in Savers |-> Idle]
  /\ lastSaved = 0 /\ saves = 0 /\ overlapped = FALSE /\ orphaned = FALSE
  /\ sessions = 1

-------------------------------------------------------------------------------
\* The session starts.

\* load: None for a missing file and for one that is no JSON text.
Loads == IF live # 0 /\ IsWhole(content[live]) THEN {content[live].text} ELSE {}

\* A destination without its progress file is refused, or removed (overwrite).
Start ==
  /\ phase = "start"
  /\ \/ ~file /\ phase' = "probe" /\ UNCHANGED destination
     \/ file /\ phase' = (IF Loads = {} THEN "over" ELSE "probe") /\ UNCHANGED destination
     \/ /\ file /\ setting.overwrite
        /\ file' = FALSE /\ data' = [c \in Chunks |-> 0] /\ dropped' = {}
        /\ phase' = "clearOld" /\ UNCHANGED queued
  /\ UNCHANGED <<setting, remote, probe, told, text, completed, names, content, synced, saver,
                 lastSaved, saves, overlapped, orphaned, sessions>>

\* clear(), for the progress of the removed file.
ClearOld ==
  /\ phase = "clearOld" /\ phase' = "probe"
  /\ live' = 0
  /\ UNCHANGED <<setting, remote, probe, told, text, completed, destination, tmp, content,
                 synced, saver, lastSaved, saves, overlapped, orphaned, sessions>>

\* Without ranges the file is one chunk (_apply_probe_fallback).
Probes ==
  /\ phase = "probe"
  /\ \E m \in Mirrors : Probe!ProbeEnds(m)
  /\ phase' = CASE found' = "no" -> "probe" [] found' = "missing" -> "over" [] OTHER -> "load"
  /\ told' = IF found' \in {"ranges", "plain"}
             THEN [version |-> remote, cut |-> found' = "ranges"] ELSE told
  /\ UNCHANGED <<setting, remote, text, completed, destination, names, content, synced, saver,
                 lastSaved, saves, overlapped, orphaned, sessions>>

\* Slip: the ETags are compared only when the layout has changed.
ValidForAnyTag(t) == t.cut = told.cut \/ (setting.tags /\ t.version = told.version)

\* Slip: the chunk size is not compared.
ValidForAnyLayout(t) == setting.tags => t.version = told.version

\* validate_for_resume; without ETags one version of a size looks like the other.
ValidForResume(t) ==
  /\ t.cut = told.cut
  /\ setting.tags => t.version = told.version

FreshState == [version |-> told.version, cut |-> told.cut, list |-> {}]

\* prepare_file, load_resume_state.
Resume ==
  /\ phase = "load" /\ phase' = "run"
  /\ file' = TRUE
  /\ text' \in LET valid == {t \in Loads : ValidForResume(t)}
               IN  IF valid = {} THEN {FreshState} ELSE valid
  /\ completed' = text'.list
  /\ lastSaved' = Cardinality(completed')
  /\ UNCHANGED <<setting, remote, probe, told, data, queued, dropped, names, content, synced,
                 saver, saves, overlapped, orphaned, sessions>>

\* The writer thread, or a fetch into the mapping, is in the middle of a chunk; an attempt
\* that fails there leaves it so.  Over its own version it writes what is there.
Pieces(c) ==
  /\ phase = "run"
  /\ c \in (Layout \ completed) \cup queued
  /\ data' = [d \in Chunks |-> IF d \in Parts({c}) /\ data[d] # told.version THEN 0 ELSE data[d]]
  /\ UNCHANGED <<setting, remote, probe, phase, told, text, completed, file, queued, dropped,
                 names, content, synced, saver, lastSaved, saves, overlapped, orphaned, sessions>>

\* The chunk is in the file.
Fills(c) ==
  /\ data' = [d \in Chunks |-> IF d \in Parts({c}) THEN told.version ELSE data[d]]
  /\ dropped' = dropped \ Parts({c})

\* init_writer
Mapped == setting.mmap /\ told.cut

\* fetch() returns and the chunk is added to the completed set under the state lock: its
\* writes and its mark are in the writer's queue, or its data in the mapping.
Completes(c) ==
  /\ phase = "run" /\ ~Locked
  /\ c \in Layout \ completed
  /\ completed' = completed \cup {c}
  /\ \/ Mapped /\ Fills(c) /\ UNCHANGED queued
     \/ ~Mapped /\ queued' = queued \cup {c} /\ UNCHANGED <<data, dropped>>
  /\ UNCHANGED <<setting, remote, probe, phase, told, text, file, names, content, synced,
                 saver, lastSaved, saves, overlapped, orphaned, sessions>>

\* The writer thread comes to the mark.
Marks(c) ==
  /\ phase = "run"
  /\ c \in queued /\ queued' = queued \ {c}
  /\ Fills(c)
  /\ UNCHANGED <<setting, remote, probe, phase, told, text, completed, file, names, content,
                 synced, saver, lastSaved, saves, overlapped, orphaned, sessions>>

\* What was in the queue goes with the thread.
Drops == queued' = {} /\ dropped' = dropped \cup Parts(queued)

-------------------------------------------------------------------------------
\* save()

Unused(i) == i \notin {live, tmp} /\ \A s \in Savers : saver[s].inode # i

\* open(tmp_path, "w"): a temporary file that is there is emptied, whoever writes to it.
Opens(s, list) ==
  LET i == IF tmp # 0 THEN tmp ELSE CHOOSE j \in Inodes : Unused(j)
  IN  /\ ~Saving(s) /\ ~Locked
      /\ tmp' = i
      /\ content' = [content EXCEPT ![i] = Blank] /\ synced' = synced \ {i}
      /\ text' = [text EXCEPT !.list = list]
      /\ saver' = [saver EXCEPT ![s] = [at |-> "write", inode |-> i, text |-> text']]
      /\ overlapped' = (overlapped \/ \E u \in Savers : Saving(u))
      /\ UNCHANGED <<setting, remote, probe, told, completed, file, data, live, orphaned,
                     sessions>>

\* _run_state_saver: only when there are more chunks than at the last time.
SaverSaves ==
  /\ phase = "run" /\ saves < MaxSaves /\ saves' = saves + 1
  /\ Cardinality(completed) > lastSaved
  /\ lastSaved' = Cardinality(completed)
  /\ Opens("periodic", completed)
  /\ UNCHANGED <<phase, queued, dropped>>

\* pause()
PauseSaves ==
  /\ phase = "run" /\ saves < MaxSaves /\ saves' = saves + 1
  /\ Opens("locked", completed)
  /\ UNCHANGED <<phase, lastSaved, queued, dropped>>

\* The end of start(), whatever has been completed: the writer has come to the end of its
\* queue, or left it because of a stop, of an error, or of a disk too slow for its stop().
FinalSave ==
  /\ phase = "run" /\ phase' = "final"
  /\ queued = {} \/ setting.stops
  /\ Drops
  /\ Opens("locked", completed)
  /\ UNCHANGED <<lastSaved, saves>>

\* Slip: safe_state_saves is forgotten.
AfterWritingUnsynced == "replace"

AfterWriting == IF setting.safe THEN "sync" ELSE "replace"

\* A descriptor stays its saver's, also when the file under it is the live one meanwhile.
Writes(s) ==
  LET w == saver[s]
      f == content[w.inode]
      longest == IF f.length > Length(w.text) THEN f.length ELSE Length(w.text)
  IN  /\ w.at = "write"
      /\ content' = [content EXCEPT ![w.inode] = [text |-> w.text, length |-> longest]]
      /\ synced' = synced \ {w.inode}
      /\ saver' = [saver EXCEPT ![s].at = AfterWriting]
      /\ UNCHANGED <<setting, remote, probe, phase, told, text, completed, destination, names,
                     lastSaved, saves, overlapped, orphaned, sessions>>

\* flush, fsync
Syncs(s) ==
  /\ saver[s].at = "sync"
  /\ synced' = synced \cup {saver[s].inode}
  /\ saver' = [saver EXCEPT ![s].at = "replace"]
  /\ UNCHANGED <<setting, remote, probe, phase, told, text, completed, destination, names,
                 content, lastSaved, saves, overlapped, orphaned, sessions>>

\* os.replace takes whatever has the temporary name, or raises an OSError that is caught.
Replaces(s) ==
  /\ saver[s].at = "replace"
  /\ saver' = [saver EXCEPT ![s] = Idle]
  /\ live' = (IF tmp # 0 THEN tmp ELSE live) /\ tmp' = 0
  /\ UNCHANGED <<setting, remote, probe, phase, told, text, completed, destination, content,
                 synced, lastSaved, saves, overlapped, orphaned, sessions>>

\* The end: a whole and verified file needs no progress file.
Clears ==
  /\ phase = "final" /\ ~Locked /\ completed = Layout
  /\ phase' = "over"
  /\ live' = 0
  /\ UNCHANGED <<setting, remote, probe, told, text, completed, destination, tmp, content,
                 synced, saver, lastSaved, saves, overlapped, orphaned, sessions>>

Ends ==
  /\ phase = "final" /\ ~Locked
  /\ phase' = "over"
  /\ UNCHANGED <<setting, remote, probe, told, text, completed, destination, names, content,
                 synced, saver, lastSaved, saves, overlapped, orphaned, sessions>>

-------------------------------------------------------------------------------
\* From one session to the next, whether the process ended or died.

Restarts ==
  /\ sessions < MaxSessions /\ sessions' = sessions + 1
  /\ remote' \in remote..Versions
  /\ orphaned' = (orphaned \/ (phase = "clearOld" /\ live # 0))
  /\ \E how \in Serving : Probe!Asks(how)
  /\ phase' = "start"
  /\ told' = [version |-> 0, cut |-> FALSE] /\ text' = NoText /\ completed' = {}
  /\ saver' = [s \in Savers |-> Idle]
  /\ lastSaved' = 0 /\ saves' = 0
  /\ Drops
  /\ UNCHANGED <<setting, file, names, overlapped>>

NextSession == Restarts /\ UNCHANGED <<data, content, synced>>

\* With the power goes what is not on the medium; the data of the destination never is.
PowerFails ==
  /\ setting.power
  /\ Restarts
  /\ \E lost \in SUBSET Chunks :
       data' = [c \in Chunks |-> IF c \in lost THEN 0 ELSE data[c]]
  /\ content' = [i \in Inodes |-> IF i \in synced THEN content[i] ELSE Blank]
  /\ UNCHANGED synced

Finished == phase = "over" /\ sessions = MaxSessions /\ UNCHANGED vars

Next ==
  \/ Start \/ ClearOld \/ Probes \/ Resume
  \/ \E c \in Chunks : Pieces(c) \/ Completes(c) \/ Marks(c)
  \/ SaverSaves \/ PauseSaves \/ FinalSave
  \/ \E s \in Savers : Writes(s) \/ Syncs(s) \/ Replaces(s)
  \/ Clears \/ Ends
  \/ NextSession \/ PowerFails
  \/ Finished

Spec == Init /\ [][Next]_vars

-------------------------------------------------------------------------------
Texts == [version : 0..Versions, cut : BOOLEAN, list : SUBSET Chunks]

\* Every variable keeps to its type.
TypeOK ==
  /\ setting \in Settings /\ remote \in 1..Versions
  /\ serves \in Serving /\ out \subseteq Mirrors /\ answered \subseteq Mirrors
  /\ fallback \in Mirrors \cup {None}
  /\ found \in {"no", "ranges", "plain", "missing"}
  /\ phase \in {"start", "clearOld", "probe", "load", "run", "final", "over"}
  /\ told \in [version : 0..remote, cut : BOOLEAN]
  /\ text \in Texts /\ completed \subseteq Layout
  /\ file \in BOOLEAN /\ data \in [Chunks -> 0..remote]
  /\ queued \subseteq completed /\ dropped \subseteq Chunks
  /\ names \in (0..4) \X (0..4) /\ (live = tmp => live = 0)
  /\ \A i \in Inodes : content[i] \in [text : Texts, length : Nat]
  /\ synced \subseteq Inodes
  /\ saver \in [Savers -> [at : {"no", "write", "sync", "replace"}, inode : 0..4, text : Texts]]
  /\ lastSaved \in 0..Cardinality(Chunks) /\ saves \in 0..MaxSaves
  /\ overlapped \in BOOLEAN /\ orphaned \in BOOLEAN /\ sessions \in 1..MaxSessions

\* What a session takes for completed is in the file in the version it downloads, or on
\* its way there, except for `lost'.
HasAllBut(lost) ==
  \A c \in Parts(completed) : data[c] = told.version \/ c \in Parts(queued) \cup lost

\* Whatever sessions, crashes and remote changes came before, every chunk a session takes
\* for completed has the data of the version it downloads (load_resume_state): "Automatically
\* detects if the remote file has changed and restarts if necessary" (README.md:12).  Excepted
\* are only the chunks that some earlier process, or its writer thread, ended before writing
\* and that nobody has written since; it takes ETags, a medium that keeps what was written,
\* and no crash between the removal of the file and that of its list (start).
ResumeIsTrue == setting.tags /\ ~setting.power /\ ~orphaned => HasAllBut(dropped)

\* The same without the exception, as the README has it: "If interrupted, the download can be
\* resumed exactly where it left off" (README.md:12).  A process that dies between a save of
\* _run_state_saver and the writes of the chunks in it breaks this, and so does a stop that
\* makes the writer thread leave its queue.
ResumeIsExact == setting.tags /\ ~setting.power /\ ~orphaned => HasAllBut({})

\* Whenever the process or, with safe_state_saves, the power goes, the progress file is
\* missing or a whole text, an earlier one or the next (save), provided that no two saves
\* ever came to overlap.
SaveIsAtomic ==
  ~overlapped /\ (setting.power => setting.safe) => live = 0 \/ IsWhole(content[live])

\* Ranges are given up only when every mirror was heard and none has them, and the file is
\* missing only when nobody answered (probe).
BestAnswerWins == Probe!BestAnswerWins
================================================================================
