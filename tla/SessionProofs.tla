----------------------------- MODULE SessionProofs -----------------------------
(***************************************************************************)
(* Proofs about Session, for any number of mirrors, chunks, versions,      *)
(* saves and sessions.                                                     *)
(***************************************************************************)
EXTENDS Session, FiniteSetTheorems, TLAPS

Phases == {"start", "clearOld", "probe", "load", "run", "final", "over"}
Steps == {"no", "write", "sync", "replace"}

\* The texts that sessions write up to a version of the remote file.
Recorded(r) ==
  {t \in [version : 0..r, cut : BOOLEAN, list : SUBSET Chunks] : t.cut \/ t.list \subseteq {First}}

TypedProbe ==
  /\ serves \in Serving /\ out \subseteq Mirrors /\ answered \subseteq Mirrors
  /\ fallback \in Mirrors \cup {None}
  /\ found \in {"no", "ranges", "plain", "missing"}

TypedFiles ==
  /\ live \in 0..4 /\ tmp \in 0..4 /\ (live = tmp => live = 0)
  /\ content \in [Inodes -> [text : Recorded(remote), length : Nat]]
  /\ synced \subseteq Inodes
  /\ saver \in [Savers -> [at : Steps, inode : 0..4, text : Recorded(remote)]]

Typed ==
  /\ setting \in Settings /\ remote \in 1..Versions
  /\ TypedProbe /\ TypedFiles
  /\ phase \in Phases
  /\ told \in [version : 0..remote, cut : BOOLEAN]
  /\ text \in Recorded(remote) /\ completed \subseteq Layout
  /\ file \in BOOLEAN /\ data \in [Chunks -> 0..remote]
  /\ queued \subseteq completed /\ dropped \subseteq Chunks
  /\ lastSaved \in 0..Cardinality(Chunks) /\ saves \in 0..MaxSaves
  /\ overlapped \in BOOLEAN /\ orphaned \in BOOLEAN /\ sessions \in 1..MaxSessions

\* What is settled when.
Placed ==
  /\ phase \in {"start", "clearOld", "probe", "load"} =>
       completed = {} /\ \A s \in Savers : saver[s].at = "no"
  /\ phase \in {"load", "run", "final"} => told.version = remote
  /\ phase \in {"run", "final"} => text.cut = told.cut /\ (setting.tags => text.version = told.version)
  /\ \A s \in Savers : saver[s].at # "no" => saver[s].inode # 0

\* What has yet to be written, now or from earlier sessions, and what need not be.
Pending == Parts(queued) \cup dropped
There(c) == data[c] = remote \/ c \in Pending

\* What a text of the present version claims is there; a text of an earlier one will never
\* be believed again.
Claims(t) == IF t.cut THEN t.list ELSE IF t.list = {} THEN {} ELSE Chunks
Covered(t) == t.version = remote => \A c \in Claims(t) : There(c)

Listed ==
  /\ HasAllBut(dropped)
  /\ live # 0 /\ phase # "clearOld" => Covered(content[live].text)
  /\ tmp # 0 /\ (\E s \in Savers : saver[s].at # "no") => Covered(content[tmp].text)
  /\ \A s \in Savers : saver[s].at # "no" => Covered(saver[s].text)

Trusted == setting.tags /\ ~setting.power /\ ~orphaned => Listed

\* As long as saves do not overlap, the temporary file is that of the one saver, and its
\* content goes with his step.
Durable(i) == setting.power => i \in synced

Atomic ==
  ~overlapped /\ (setting.power => setting.safe) =>
    /\ \A s, u \in Savers : saver[s].at # "no" /\ saver[u].at # "no" => s = u
    /\ live # 0 => IsWhole(content[live]) /\ Durable(live)
    /\ \A s \in Savers :
         /\ saver[s].at # "no" => saver[s].inode = tmp
         /\ saver[s].at = "write" => content[tmp].length = 0
         /\ saver[s].at \in {"sync", "replace"} => IsWhole(content[tmp])
         /\ saver[s].at = "replace" => Durable(tmp)

\* While the probe goes on, it has heard no answer with ranges, and kept one without.
Probing ==
  /\ found = "no" =>
       /\ out # {}
       /\ \A m \in answered : serves[m] = "plain"
       /\ (fallback = None <=> answered = {})
  /\ found # "no" => out = {}
  /\ Probe!BestAnswerWins

Inv == Typed /\ Placed /\ Trusted /\ Atomic /\ Probing

-------------------------------------------------------------------------------
\* Lists are finite.
LEMMA ListFinite ==
  ASSUME NEW S \in SUBSET Chunks
  PROVE  IsFiniteSet(S) /\ Cardinality(S) \in Nat /\ Cardinality(S) <= Cardinality(Chunks)
BY FS_Subset, FS_CardinalityType, SessionAssumption DEF SessionAssumption

LEMMA SettingTypes ==
  ASSUME Typed
  PROVE  /\ setting.safe \in BOOLEAN /\ setting.tags \in BOOLEAN /\ setting.power \in BOOLEAN
         /\ setting.overwrite \in BOOLEAN /\ setting.serves \subseteq {"ranges", "plain", "dead"}
BY SessionAssumption DEF SessionAssumption, Typed

LEMMA FirstChunk == First \in Chunks
BY SessionAssumption DEF SessionAssumption, First

\* Whatever was recorded up to one version was recorded up to the next.
LEMMA RecordedGrows ==
  ASSUME NEW r \in Nat, NEW q \in Nat, r <= q, NEW t \in Recorded(r)
  PROVE  t \in Recorded(q)
BY DEF Recorded

LEMMA LengthIsNat ==
  ASSUME NEW r \in Nat, NEW t \in Recorded(r)
  PROVE  Length(t) \in Nat \ {0}
<1>1. t.list \in SUBSET Chunks BY DEF Recorded
<1> QED BY <1>1, ListFinite DEF Length

\* There is an inode to open.
LEMMA OpensOne ==
  ASSUME TypedFiles, tmp = 0
  PROVE  \E j \in Inodes : Unused(j)
<1>1. PICK p \in 0..4 : p = saver["periodic"].inode BY DEF TypedFiles, Savers
<1>2. PICK l \in 0..4 : l = saver["locked"].inode BY DEF TypedFiles, Savers
<1>3. \A j \in Inodes : j # live /\ j # p /\ j # l => Unused(j)
  BY <1>1, <1>2 DEF Unused, Savers, Inodes
<1>4. \E j \in Inodes : j # live /\ j # p /\ j # l
  <2>1. 1 \in Inodes /\ 2 \in Inodes /\ 3 \in Inodes /\ 4 \in Inodes BY DEF Inodes
  <2>2. live \in 0..4 BY DEF TypedFiles
  <2> QED BY <2>1, <2>2
<1> QED BY <1>3, <1>4

\* What opening the temporary file does, whichever inode it is.
LEMMA OpensAt ==
  ASSUME TypedFiles, NEW s \in Savers, Opens(s, completed)
  PROVE  \E i \in Inodes :
           /\ i # live /\ (tmp # 0 => i = tmp)
           /\ tmp' = i
           /\ content' = [content EXCEPT ![i] = Blank] /\ synced' = synced \ {i}
           /\ saver' = [saver EXCEPT ![s] = [at |-> "write", inode |-> i, text |-> text']]
<1>1. PICK i : i = IF tmp # 0 THEN tmp ELSE CHOOSE j \in Inodes : Unused(j) OBVIOUS
<1>2. i \in Inodes /\ i # live /\ (tmp # 0 => i = tmp)
  <2>1. CASE tmp # 0 BY <1>1, <2>1 DEF TypedFiles, Inodes
  <2>2. CASE tmp = 0
    <3>1. i \in Inodes /\ Unused(i) BY <1>1, <2>2, OpensOne
    <3> QED BY <3>1, <2>2 DEF Unused
  <2> QED BY <2>1, <2>2
<1>3. /\ tmp' = i
      /\ content' = [content EXCEPT ![i] = Blank] /\ synced' = synced \ {i}
      /\ saver' = [saver EXCEPT ![s] = [at |-> "write", inode |-> i, text |-> text']]
  BY <1>1 DEF Opens
<1> QED BY <1>2, <1>3

LEMMA BlankFile ==
  ASSUME NEW r \in Nat
  PROVE  /\ NoText \in Recorded(r)
         /\ Blank \in [text : Recorded(r), length : Nat]
         /\ Idle \in [at : Steps, inode : 0..4, text : Recorded(r)]
<1>1. NoText \in Recorded(r) BY DEF Recorded, NoText
<1> QED BY <1>1 DEF Blank, Idle, Steps

\* The text that a session writes.
LEMMA SavedText ==
  ASSUME Typed, Placed, phase \in {"run", "final"}, text' = [text EXCEPT !.list = completed]
  PROVE  /\ text' \in Recorded(remote)
         /\ text'.list = completed /\ text'.cut = text.cut /\ text'.version = text.version
<1>1. text \in Recorded(remote) /\ text.cut = told.cut BY DEF Typed, Placed
<1>2. completed \subseteq Chunks /\ (told.cut \/ completed \subseteq {First})
  BY FirstChunk DEF Typed, Layout
<1> QED BY <1>1, <1>2 DEF Recorded

LEMMA InvInit == Init => Inv
<1> SUFFICES ASSUME Init PROVE Inv OBVIOUS
<1>1. Typed
  <2>1. TypedProbe BY DEF Init, TypedProbe
  <2>2. TypedFiles BY BlankFile DEF Init, TypedFiles, Inodes
  <2>3. completed \subseteq Layout BY DEF Init
  <2>4. Cardinality(Chunks) \in Nat BY ListFinite
  <2>5. text \in Recorded(remote) BY BlankFile DEF Init
  <2>6. setting \in Settings /\ remote \in 1..Versions /\ phase \in Phases
    BY SessionAssumption DEF SessionAssumption, Init, Phases
  <2>7. told \in [version : 0..remote, cut : BOOLEAN] /\ data \in [Chunks -> 0..remote]
    BY DEF Init
  <2>8. /\ file \in BOOLEAN /\ overlapped \in BOOLEAN /\ orphaned \in BOOLEAN
        /\ queued \subseteq completed /\ dropped \subseteq Chunks
    BY DEF Init
  <2>9. lastSaved \in 0..Cardinality(Chunks) BY <2>4 DEF Init
  <2>10. saves \in 0..MaxSaves /\ sessions \in 1..MaxSessions
    BY SessionAssumption DEF SessionAssumption, Init
  <2> QED BY <2>1, <2>2, <2>3, <2>5, <2>6, <2>7, <2>8, <2>9, <2>10 DEF Typed
<1>2. Placed BY DEF Init, Placed, Idle
<1>3. Trusted BY DEF Init, Trusted, Listed, Idle, HasAllBut, Parts
<1>4. Atomic BY DEF Init, Atomic, Idle
<1>5. Probing BY SessionAssumption DEF SessionAssumption, Init, Probing, Probe!BestAnswerWins
<1> QED BY <1>1, <1>2, <1>3, <1>4, <1>5 DEF Inv
-------------------------------------------------------------------------------
\* Types.

\* The setting is chosen once.
LEMMA SettingStays ==
  ASSUME [Next]_vars
  PROVE  setting' = setting
BY DEF Next, vars, probe, destination, names, Start, ClearOld, Probes, Resume, Pieces, Completes, Marks, Opens,
       SaverSaves, PauseSaves, FinalSave, Writes, Syncs, Replaces, Clears, Ends, Restarts,
       NextSession, PowerFails, Finished

\* The probe's variables.
LEMMA TypedProbeStep ==
  ASSUME Typed, [Next]_vars
  PROVE  TypedProbe'
<1>1. CASE Probes
  <2>1. PICK m \in Mirrors : Probe!ProbeEnds(m) BY <1>1 DEF Probes
  <2> QED BY <2>1, SettingTypes, SettingStays DEF Typed, TypedProbe, Probe!ProbeEnds, Probe!Best, Serving
<1>2. CASE Restarts
  <2>1. PICK how \in Serving : Probe!Asks(how) BY <1>2 DEF Restarts
  <2> QED BY <2>1, SettingStays DEF Typed, TypedProbe, Probe!Asks, Serving
<1>3. CASE UNCHANGED probe
  BY <1>3, SettingStays DEF probe, Typed, TypedProbe, Serving
<1>4. Probes \/ Restarts \/ UNCHANGED probe
  BY DEF Next, vars, probe, Start, ClearOld, Resume, Pieces, Completes, Marks, Opens,
       SaverSaves, PauseSaves, FinalSave, Writes, Syncs, Replaces, Clears, Ends,
       NextSession, PowerFails, Finished
<1> QED BY <1>1, <1>2, <1>3, <1>4

LEMMA ProbingStep ==
  ASSUME Inv, [Next]_vars
  PROVE  Probing'
<1> USE DEF Probing, Probe!BestAnswerWins
<1>0. Probing /\ TypedProbe /\ None \notin Mirrors
  BY SessionAssumption DEF SessionAssumption, Inv, Typed
<1>1. CASE Probes
  <2>1. PICK m \in Mirrors : Probe!ProbeEnds(m) BY <1>1 DEF Probes
  <2>2. PICK answer \in {serves[m], "dead"} :
          /\ found' = Probe!Best(m, answer)
          /\ out' = IF found' = "ranges" THEN {} ELSE out \ {m}
          /\ fallback' = IF answer = "plain" /\ fallback = None THEN m ELSE fallback
          /\ answered' = IF answer = "dead" THEN answered ELSE answered \cup {m}
    BY <2>1 DEF Probe!ProbeEnds
  <2>3. found = "no" /\ m \in out /\ serves' = serves BY <2>1, <1>0 DEF Probe!ProbeEnds
  <2>4. answer \in {"ranges", "plain", "dead"}
    BY SettingTypes DEF Inv, Typed, TypedProbe, Serving
  <2>5. CASE answer = "ranges" BY <2>2, <2>3, <2>5, <1>0 DEF Probe!Best
  <2>6. CASE answer = "plain"
    <3>1. serves[m] = "plain" BY <2>2, <2>6
    <3> QED BY <2>2, <2>3, <2>6, <3>1, <1>0 DEF Probe!Best
  <2>7. CASE answer = "dead" BY <2>2, <2>3, <2>7, <1>0 DEF Probe!Best
  <2> QED BY <2>4, <2>5, <2>6, <2>7
<1>2. CASE Restarts
  <2>1. PICK how \in Serving : Probe!Asks(how) BY <1>2 DEF Restarts
  <2> QED BY <2>1, SessionAssumption DEF SessionAssumption, Probe!Asks
<1>3. CASE UNCHANGED probe BY <1>3, <1>0 DEF probe
<1>4. Probes \/ Restarts \/ UNCHANGED probe
  BY DEF Next, vars, probe, Start, ClearOld, Resume, Pieces, Completes, Marks, Opens,
       SaverSaves, PauseSaves, FinalSave, Writes, Syncs, Replaces, Clears, Ends,
       NextSession, PowerFails, Finished
<1> QED BY <1>1, <1>2, <1>3, <1>4
\* The progress file and the saves under way.
LEMMA TypedFilesStep ==
  ASSUME Typed, Placed, [Next]_vars
  PROVE  TypedFiles'
<1> USE DEF TypedFiles
<1>0. /\ TypedFiles /\ remote \in Nat /\ remote' \in Nat /\ remote <= remote'
      /\ \A t \in Recorded(remote) : t \in Recorded(remote')
  <2>1. TypedFiles /\ remote \in Nat BY SessionAssumption DEF SessionAssumption, Typed
  <2>2. remote' \in Nat /\ remote <= remote'
    <3>1. CASE Restarts BY <2>1, <3>1, SessionAssumption DEF SessionAssumption, Restarts
    <3>2. CASE remote' = remote BY <2>1, <3>2
    <3> QED BY <3>1, <3>2
        DEF Next, vars, probe, Start, ClearOld, Probes, Resume, Pieces, Completes, Marks, Opens,
          SaverSaves, PauseSaves, FinalSave, Writes, Syncs, Replaces, Clears, Ends,
          NextSession, PowerFails, Finished
  <2> QED BY <2>1, <2>2, RecordedGrows
<1>1. ASSUME NEW s \in Savers, Opens(s, completed), phase \in {"run", "final"} PROVE TypedFiles'
  <2>1. PICK i \in Inodes :
          /\ i # live /\ (tmp # 0 => i = tmp)
          /\ tmp' = i
          /\ content' = [content EXCEPT ![i] = Blank] /\ synced' = synced \ {i}
          /\ saver' = [saver EXCEPT ![s] = [at |-> "write", inode |-> i, text |-> text']]
    BY <1>0, <1>1, OpensAt
  <2>2. text' \in Recorded(remote) BY <1>1, SavedText DEF Opens
  <2>3. live' = live /\ remote' = remote BY <1>1 DEF Opens
  <2>4. i \in 0..4 /\ i # 0 BY DEF Inodes
  <2>5. saver' \in [Savers -> [at : Steps, inode : 0..4, text : Recorded(remote)]]
    BY <1>0, <2>1, <2>2, <2>4 DEF Steps
  <2>6. content' \in [Inodes -> [text : Recorded(remote), length : Nat]]
    BY <1>0, <2>1, BlankFile
  <2> QED BY <1>0, <2>1, <2>3, <2>4, <2>5, <2>6
<1>2. ASSUME NEW s \in Savers, Writes(s) PROVE TypedFiles'
  <2> DEFINE w == saver[s]
             longest == IF content[w.inode].length > Length(w.text)
                        THEN content[w.inode].length ELSE Length(w.text)
  <2>1. w \in [at : Steps, inode : 0..4, text : Recorded(remote)] /\ w.inode \in Inodes
    BY <1>0, <1>2 DEF Writes, Placed, Inodes
  <2>2. longest \in Nat BY <1>0, <2>1, LengthIsNat
  <2>3. content' \in [Inodes -> [text : Recorded(remote), length : Nat]]
    <3>1. content' = [content EXCEPT ![w.inode] = [text |-> w.text, length |-> longest]]
      BY <1>2 DEF Writes
    <3> HIDE DEF longest
    <3> QED BY <1>0, <2>1, <2>2, <3>1
  <2>4. saver' \in [Savers -> [at : Steps, inode : 0..4, text : Recorded(remote)]]
    <3>1. saver' = [saver EXCEPT ![s].at = AfterWriting] BY <1>2 DEF Writes
    <3>2. AfterWriting \in Steps BY DEF AfterWriting, Steps
    <3> QED BY <1>0, <3>1, <3>2
  <2>5. live' = live /\ tmp' = tmp /\ remote' = remote /\ synced' \subseteq Inodes
    BY <1>0, <1>2 DEF Writes, names
  <2> QED BY <1>0, <2>3, <2>4, <2>5
<1>3. ASSUME NEW s \in Savers, Syncs(s) PROVE TypedFiles'
  <2>1. saver[s].inode \in Inodes BY <1>0, <1>3 DEF Syncs, Placed, Inodes
  <2> QED BY <1>0, <1>3, <2>1 DEF Syncs, names, Steps
<1>4. ASSUME NEW s \in Savers, Replaces(s) PROVE TypedFiles'
  BY <1>0, <1>4, BlankFile DEF Replaces
<1>5. CASE Restarts /\ (content' = content \/ PowerFails) /\ synced' = synced
  <2>1. content' \in [Inodes -> [text : Recorded(remote'), length : Nat]]
    <3>1. content' = [i \in Inodes |-> IF i \in synced THEN content[i] ELSE Blank]
          \/ content' = content
      BY <1>5 DEF PowerFails
    <3>2. \A f \in [text : Recorded(remote), length : Nat] : f \in [text : Recorded(remote'), length : Nat]
      BY <1>0
    <3> QED BY <1>0, <3>1, <3>2, BlankFile
  <2>2. saver' \in [Savers -> [at : Steps, inode : 0..4, text : Recorded(remote')]]
    BY <1>0, <1>5, BlankFile DEF Restarts
  <2> QED BY <1>0, <1>5, <2>1, <2>2 DEF Restarts, names
<1>6. CASE live' \in {live, 0} /\ UNCHANGED <<tmp, content, synced, saver, remote>>
  BY <1>0, <1>6
<1> QED
  <2>1. ASSUME SaverSaves \/ PauseSaves \/ FinalSave PROVE TypedFiles'
    BY <1>1, <2>1 DEF SaverSaves, PauseSaves, FinalSave, Savers
  <2>2. CASE UNCHANGED <<live, tmp, content, synced, saver, remote>> \/ ClearOld \/ Clears
    BY <1>6, <2>2 DEF ClearOld, Clears
  <2>3. ASSUME NextSession \/ PowerFails PROVE TypedFiles'
    BY <1>5, <2>3 DEF NextSession, PowerFails
  <2> QED BY <1>2, <1>3, <1>4, <2>1, <2>2, <2>3
      DEF Next, vars, names, Start, Probes, Resume, Pieces, Completes, Marks, Ends, Finished
\* A text that may be resumed from.
LEMMA LoadedText ==
  ASSUME TypedFiles, NEW t \in Loads
  PROVE  live # 0 /\ t = content[live].text /\ t \in Recorded(remote) /\ IsWhole(content[live])
BY DEF Loads, TypedFiles, Inodes

LEMMA ResumedText ==
  ASSUME Typed, Resume
  PROVE  /\ text' \in Recorded(remote) /\ text'.cut = told.cut
         /\ setting.tags => text'.version = told.version
         /\ text'.list = {} \/ text' \in Loads
<1>1. CASE {t \in Loads : ValidForResume(t)} = {}
  <2>1. text' = FreshState BY <1>1 DEF Resume
  <2> QED BY <2>1, SessionAssumption DEF SessionAssumption, Typed, FreshState, Recorded
<1>2. CASE {t \in Loads : ValidForResume(t)} # {}
  <2>1. text' \in Loads /\ ValidForResume(text') BY <1>2 DEF Resume
  <2> QED BY <2>1, LoadedText DEF Typed, ValidForResume
<1> QED BY <1>1, <1>2

LEMMA TypedStep ==
  ASSUME Typed, Placed, [Next]_vars
  PROVE  Typed'
<1>1. TypedProbe' /\ TypedFiles' BY TypedProbeStep, TypedFilesStep
<1>2. setting' \in Settings BY SettingStays DEF Typed
<1>3. remote \in Nat /\ Versions \in Nat /\ MaxSessions \in Nat /\ MaxSaves \in Nat
  BY SessionAssumption DEF SessionAssumption, Typed
<1>4. ASSUME remote' = remote,
             phase' \in Phases, told' \in [version : 0..remote, cut : BOOLEAN],
             text' \in Recorded(remote), completed' \subseteq Layout',
             file' \in BOOLEAN, data' \in [Chunks -> 0..remote],
             queued' \subseteq completed', dropped' \subseteq Chunks,
             lastSaved' \in 0..Cardinality(Chunks), saves' \in 0..MaxSaves,
             overlapped' \in BOOLEAN, orphaned' \in BOOLEAN, sessions' = sessions
      PROVE  Typed'
  BY <1>1, <1>2, <1>4 DEF Typed
<1>5. told' = told => Layout' = Layout BY DEF Layout
<1>20. Parts(queued) \subseteq Chunks BY FirstChunk DEF Typed, Layout, Parts
<1>6. ASSUME NEW s \in Savers, Opens(s, completed), phase = "run", phase' \in Phases,
             lastSaved' \in 0..Cardinality(Chunks), saves' \in 0..MaxSaves,
             queued' \in {queued, {}}, dropped' \in {dropped, dropped \cup Parts(queued)}
      PROVE  Typed'
  <2>1. text' \in Recorded(remote) BY <1>6, SavedText DEF Opens
  <2>2. overlapped' \in BOOLEAN BY <1>6 DEF Opens, Typed
  <2>3. queued' \subseteq completed' /\ dropped' \subseteq Chunks
    <3>1. completed' = completed /\ queued \subseteq completed /\ dropped \subseteq Chunks
      BY <1>6 DEF Opens, Typed
    <3> QED BY <1>6, <1>20, <3>1
  <2> QED BY <1>4, <1>5, <1>6, <2>1, <2>2, <2>3 DEF Opens, Typed
<1>7. Cardinality(completed) \in 0..Cardinality(Chunks)
  BY ListFinite, FirstChunk DEF Typed, Layout
<1>8. CASE Start
  <2>1. /\ data' \in [Chunks -> 0..remote]
        /\ queued' = queued /\ dropped' \in {dropped, {}}
    BY <1>3, <1>8 DEF Start, Typed, destination
  <2> QED BY <1>4, <1>5, <1>8, <2>1 DEF Start, Typed, Phases, destination, probe
<1>9. CASE ClearOld BY <1>4, <1>5, <1>9 DEF ClearOld, Typed, Phases, destination
<1>10. CASE Probes
  <2>1. completed = {} BY <1>10 DEF Probes, Placed
  <2>2. phase' \in Phases BY <1>10 DEF Probes, Phases
  <2>3. told' \in [version : 0..remote, cut : BOOLEAN] BY <1>3, <1>10 DEF Probes, Typed
  <2> QED BY <1>4, <1>10, <2>1, <2>2, <2>3 DEF Probes, Typed, destination
<1>11. CASE Resume
  <2>1. text' \in Recorded(remote) /\ completed' = text'.list /\ text'.cut = told.cut
    BY <1>11, ResumedText DEF Resume
  <2>2. completed' \subseteq Layout' BY <1>5, <1>11, <2>1 DEF Resume, Recorded, Layout
  <2>3. lastSaved' \in 0..Cardinality(Chunks)
    <3>1. completed' \in SUBSET Chunks BY <2>1 DEF Recorded
    <3>2. lastSaved' = Cardinality(completed') BY <1>11 DEF Resume
    <3>3. PICK S \in SUBSET Chunks : S = completed' BY <3>1
    <3> QED BY <3>2, <3>3, ListFinite
  <2>4. queued' \subseteq completed' /\ dropped' \subseteq Chunks
    BY <1>11 DEF Resume, Placed, Typed
  <2> QED BY <1>4, <1>11, <2>1, <2>2, <2>3, <2>4 DEF Resume, Typed, Phases
<1>12. ASSUME NEW c \in Chunks, Completes(c) PROVE Typed'
  <2>1. data' \in [Chunks -> 0..remote]
    <3>1. told.version \in 0..remote /\ data \in [Chunks -> 0..remote] BY DEF Typed
    <3> QED BY <1>12, <3>1 DEF Completes, Fills
  <2>2. completed' \subseteq Layout' BY <1>5, <1>12 DEF Completes, Typed
  <2>3. queued' \subseteq completed' /\ dropped' \subseteq Chunks
    BY <1>12 DEF Completes, Fills, Typed
  <2> QED BY <1>4, <1>12, <2>1, <2>2, <2>3 DEF Completes, Typed
<1>21. ASSUME NEW c \in Chunks, Pieces(c) \/ Marks(c) PROVE Typed'
  <2>1. data' \in [Chunks -> 0..remote]
    <3>1. /\ told.version \in 0..remote /\ data \in [Chunks -> 0..remote]
          /\ 0 \in 0..remote
      BY <1>3 DEF Typed
    <3>2. CASE Pieces(c) BY <3>1, <3>2 DEF Pieces
    <3>3. CASE Marks(c) BY <3>1, <3>3 DEF Marks, Fills
    <3> QED BY <1>21, <3>2, <3>3
  <2>2. queued' \subseteq completed' /\ dropped' \subseteq Chunks
    BY <1>21 DEF Pieces, Marks, Fills, Typed
  <2> QED BY <1>4, <1>5, <1>21, <2>1, <2>2 DEF Pieces, Marks, Typed
<1>13. CASE SaverSaves
  <2>1. saves' \in 0..MaxSaves BY <1>3, <1>13 DEF SaverSaves, Typed
  <2>2. lastSaved' \in 0..Cardinality(Chunks) BY <1>7, <1>13 DEF SaverSaves
  <2> QED BY <1>6, <1>13, <2>1, <2>2 DEF SaverSaves, Phases, Savers
<1>14. CASE PauseSaves
  <2>1. saves' \in 0..MaxSaves BY <1>3, <1>14 DEF PauseSaves, Typed
  <2> QED BY <1>6, <1>14, <2>1 DEF PauseSaves, Phases, Savers, Typed
<1>15. CASE FinalSave BY <1>6, <1>15 DEF FinalSave, Drops, Phases, Savers, Typed
<1>16. ASSUME NEW s \in Savers, Writes(s) \/ Syncs(s) \/ Replaces(s) PROVE Typed'
  BY <1>4, <1>5, <1>16 DEF Writes, Syncs, Replaces, Typed, destination
<1>17. CASE Clears \/ Ends BY <1>4, <1>5, <1>17 DEF Clears, Ends, Typed, Phases, destination
<1>18. CASE NextSession \/ PowerFails
  <2>1. Restarts BY <1>18 DEF NextSession, PowerFails
  <2>2. remote' \in 1..Versions /\ remote' >= remote BY <1>3, <2>1 DEF Restarts, Typed
  <2>3. data' \in [Chunks -> 0..remote']
    <3>1. data \in [Chunks -> 0..remote] BY DEF Typed
    <3>2. data' = data \/ \E lost \in SUBSET Chunks :
                            data' = [c \in Chunks |-> IF c \in lost THEN 0 ELSE data[c]]
      BY <1>18 DEF NextSession, PowerFails
    <3> QED BY <1>3, <2>2, <3>1, <3>2
  <2>4. text' \in Recorded(remote') BY <2>1, <2>2, BlankFile DEF Restarts
  <2>5. sessions' \in 1..MaxSessions BY <1>3, <2>1 DEF Restarts, Typed
  <2>6. completed' \subseteq Layout' BY <2>1 DEF Restarts
  <2>7. /\ told' \in [version : 0..remote', cut : BOOLEAN] /\ phase' \in Phases
        /\ file' \in BOOLEAN /\ overlapped' \in BOOLEAN
        /\ queued' \subseteq completed' /\ dropped' \subseteq Chunks
    BY <1>20, <2>1, <2>2 DEF Restarts, Drops, Typed, Phases
  <2>8. orphaned' \in BOOLEAN BY <2>1 DEF Restarts, Typed
  <2>9. lastSaved' \in 0..Cardinality(Chunks) /\ saves' \in 0..MaxSaves
    <3>1. Cardinality(Chunks) \in Nat BY ListFinite
    <3> QED BY <1>3, <2>1, <3>1 DEF Restarts
  <2> QED BY <1>1, <1>2, <2>2, <2>3, <2>4, <2>5, <2>6, <2>7, <2>8, <2>9 DEF Typed
<1>19. CASE UNCHANGED vars BY <1>4, <1>5, <1>19 DEF vars, destination, Typed
<1> QED BY <1>8, <1>9, <1>10, <1>11, <1>12, <1>13, <1>14, <1>15, <1>16, <1>17, <1>18, <1>19, <1>21
        DEF Next, Finished
-------------------------------------------------------------------------------
\* What is settled when.
LEMMA PlacedStep ==
  ASSUME Typed, Placed, [Next]_vars
  PROVE  Placed'
<1> USE DEF Placed
<1>1. setting' = setting BY SettingStays
<1>2. ASSUME NEW s \in Savers, Opens(s, completed), phase = "run", phase' \in {"run", "final"}
      PROVE  Placed'
  <2>1. PICK i \in Inodes :
          saver' = [saver EXCEPT ![s] = [at |-> "write", inode |-> i, text |-> text']]
    BY <1>2, OpensAt DEF Typed
  <2>2. i # 0 /\ saver \in [Savers -> [at : Steps, inode : 0..4, text : Recorded(remote)]]
    BY DEF Inodes, Typed, TypedFiles
  <2>3. text'.cut = text.cut /\ text'.version = text.version BY <1>2, SavedText DEF Opens
  <2>4. UNCHANGED <<told, remote>> BY <1>2 DEF Opens
  <2>5. \A u \in Savers : saver'[u].at # "no" => saver'[u].inode # 0 BY <2>1, <2>2
  <2> QED BY <1>1, <1>2, <2>3, <2>4, <2>5
<1>3. ASSUME NEW s \in Savers, Writes(s) \/ Syncs(s) \/ Replaces(s) PROVE Placed'
  <2>1. saver \in [Savers -> [at : Steps, inode : 0..4, text : Recorded(remote)]]
    BY DEF Typed, TypedFiles
  <2>2. UNCHANGED <<phase, told, remote, text, completed>> BY <1>3 DEF Writes, Syncs, Replaces
  <2>3. saver[s].at # "no" BY <1>3 DEF Writes, Syncs, Replaces
  <2>4. \A u \in Savers : saver'[u].at # "no" =>
           saver[u].at # "no" /\ saver'[u].inode = saver[u].inode
    BY <1>3, <2>1, <2>3 DEF Writes, Syncs, Replaces, Idle
  <2> QED BY <1>1, <2>2, <2>4
<1>4. CASE Start \/ ClearOld BY <1>1, <1>4 DEF Start, ClearOld
<1>5. CASE Probes
  <2>1. phase' = "probe" \/ phase' = "over" \/ (phase' = "load" /\ found' # "no" /\ found' # "missing")
    BY <1>5 DEF Probes
  <2>2. found' \in {"no", "ranges", "plain", "missing"}
    BY TypedProbeStep DEF TypedProbe
  <2>3. phase' = "load" => told'.version = remote BY <1>5, <2>1, <2>2 DEF Probes
  <2>4. UNCHANGED <<saver, completed, remote>> /\ phase = "probe" BY <1>5 DEF Probes
  <2>5. \A s \in Savers : saver[s].at = "no" BY <2>4
  <2> QED BY <1>1, <2>1, <2>3, <2>4, <2>5
<1>6. CASE Resume
  <2>1. text'.cut = told.cut /\ (setting.tags => text'.version = told.version)
    BY <1>6, ResumedText
  <2> QED BY <1>1, <1>6, <2>1 DEF Resume
<1>7. ASSUME NEW c \in Chunks, Pieces(c) \/ Completes(c) \/ Marks(c) PROVE Placed'
  BY <1>1, <1>7 DEF Pieces, Completes, Marks
<1>8. CASE SaverSaves \/ PauseSaves \/ FinalSave
  BY <1>2, <1>8 DEF SaverSaves, PauseSaves, FinalSave, Savers
<1>9. CASE Clears \/ Ends BY <1>1, <1>9 DEF Clears, Ends
<1>10. CASE Restarts BY <1>1, <1>10 DEF Restarts, Idle
<1>11. CASE UNCHANGED vars BY <1>1, <1>11 DEF vars
<1> QED BY <1>3, <1>4, <1>5, <1>6, <1>7, <1>8, <1>9, <1>10, <1>11
        DEF Next, NextSession, PowerFails, Finished

-------------------------------------------------------------------------------
\* A single saver's file.
LEMMA AtomicStep ==
  ASSUME Typed, Placed, Atomic, [Next]_vars
  PROVE  Atomic'
<1> USE DEF Atomic
<1>1. setting' = setting BY SettingStays
<1>2. /\ live \in 0..4 /\ tmp \in 0..4 /\ (live = tmp => live = 0) /\ synced \subseteq Inodes
      /\ content \in [Inodes -> [text : Recorded(remote), length : Nat]]
      /\ saver \in [Savers -> [at : Steps, inode : 0..4, text : Recorded(remote)]]
      /\ overlapped \in BOOLEAN /\ setting.power \in BOOLEAN /\ setting.safe \in BOOLEAN
  BY SettingTypes DEF Typed, TypedFiles
<1> SUFFICES ASSUME ~overlapped', setting.power => setting.safe
             PROVE  (/\ \A s, u \in Savers : saver[s].at # "no" /\ saver[u].at # "no" => s = u
                     /\ live # 0 => IsWhole(content[live]) /\ Durable(live)
                     /\ \A s \in Savers :
                          /\ saver[s].at # "no" => saver[s].inode = tmp
                          /\ saver[s].at = "write" => content[tmp].length = 0
                          /\ saver[s].at \in {"sync", "replace"} => IsWhole(content[tmp])
                          /\ saver[s].at = "replace" => Durable(tmp))'
  BY <1>1
<1>3. ~overlapped
  BY <1>2 DEF Next, vars, probe, destination, names, Start, ClearOld, Probes, Resume, Pieces, Completes, Marks,
       Opens, SaverSaves, PauseSaves, FinalSave, Writes, Syncs, Replaces, Clears, Ends, Restarts,
       NextSession, PowerFails, Finished
<1>4. ASSUME NEW s \in Savers, NEW u \in Savers, saver[s].at # "no", saver[u].at # "no"
      PROVE  s = u
  BY <1>3, <1>4
<1>5. live # 0 => live \in Inodes /\ IsWhole(content[live]) /\ Durable(live)
  BY <1>2, <1>3 DEF Inodes
<1>6. ASSUME NEW s \in Savers, saver[s].at # "no"
      PROVE  /\ saver[s].inode = tmp /\ tmp # 0 /\ tmp \in Inodes /\ live # tmp
             /\ saver[s].at = "write" => content[tmp].length = 0
             /\ saver[s].at \in {"sync", "replace"} => IsWhole(content[tmp])
             /\ saver[s].at = "replace" => Durable(tmp)
  BY <1>2, <1>3, <1>6 DEF Placed, Inodes
<1>7. ASSUME NEW s \in Savers, Opens(s, completed) PROVE Atomic'
  <2>1. PICK i \in Inodes :
          /\ i # live /\ tmp' = i
          /\ content' = [content EXCEPT ![i] = Blank] /\ synced' = synced \ {i}
          /\ saver' = [saver EXCEPT ![s] = [at |-> "write", inode |-> i, text |-> text']]
    BY <1>7, OpensAt DEF Typed
  <2>2. \A u \in Savers : saver[u].at = "no" BY <1>2, <1>7 DEF Opens, Saving
  <2>3. live' = live BY <1>7 DEF Opens
  <2>4. live' # 0 => IsWhole(content[live])' /\ Durable(live)'
    BY <1>1, <1>2, <1>5, <2>1, <2>3 DEF Durable, IsWhole
  <2>5. content'[i].length = 0 BY <1>2, <2>1 DEF Blank
  <2>6. \A u \in Savers : saver'[u] = (IF u = s THEN [at |-> "write", inode |-> i, text |-> text'] ELSE saver[u])
    BY <1>2, <2>1
  <2> QED BY <2>1, <2>2, <2>4, <2>5, <2>6 DEF IsWhole, Durable
<1>8. ASSUME NEW s \in Savers, Writes(s) PROVE Atomic'
  <2>1. saver[s].at = "write" /\ saver[s].inode = tmp /\ tmp \in Inodes /\ live # tmp
        /\ content[tmp].length = 0 /\ \A u \in Savers \ {s} : saver[u].at = "no"
    BY <1>4, <1>6, <1>8 DEF Writes
  <2>2. PICK t \in Recorded(remote) : t = saver[s].text BY <1>2
  <2>3. Length(t) \in Nat \ {0} /\ remote \in Nat
    BY LengthIsNat, SessionAssumption DEF SessionAssumption, Typed
  <2>4. content' = [content EXCEPT ![tmp] = [text |-> t, length |-> Length(t)]]
    <3>1. ~(content[tmp].length > Length(t)) BY <2>1, <2>3
    <3> QED BY <1>8, <2>1, <2>2, <3>1 DEF Writes
  <2>5. /\ live' = live /\ tmp' = tmp /\ synced' = synced \ {tmp}
        /\ saver' = [saver EXCEPT ![s].at = AfterWriting]
    BY <1>8, <2>1 DEF Writes, names
  <2>6. IsWhole(content[tmp])' BY <1>2, <2>1, <2>4, <2>5 DEF IsWhole, Length
  <2>7. live' # 0 => IsWhole(content[live])' /\ Durable(live)'
    BY <1>1, <1>2, <1>5, <2>1, <2>4, <2>5 DEF Durable, IsWhole
  <2>8. \A u \in Savers : u # s => saver'[u] = saver[u] BY <1>2, <2>5
  <2>9. saver'[s].at = AfterWriting /\ saver'[s].inode = tmp BY <1>2, <2>1, <2>5
  <2>10. AfterWriting = "replace" => ~setting.power /\ AfterWriting # "write"
    BY DEF AfterWriting
  <2>11. AfterWriting \in {"sync", "replace"} BY DEF AfterWriting
  <2> QED BY <1>1, <2>1, <2>5, <2>6, <2>7, <2>8, <2>9, <2>10, <2>11 DEF Durable
<1>9. ASSUME NEW s \in Savers, Syncs(s) PROVE Atomic'
  <2>1. /\ saver[s].at = "sync" /\ saver[s].inode = tmp /\ tmp \in Inodes /\ IsWhole(content[tmp])
        /\ \A u \in Savers \ {s} : saver[u].at = "no"
    BY <1>4, <1>6, <1>9 DEF Syncs
  <2>2. /\ live' = live /\ tmp' = tmp /\ content' = content /\ synced' = synced \cup {tmp}
        /\ saver' = [saver EXCEPT ![s].at = "replace"]
    BY <1>9, <2>1 DEF Syncs, names
  <2>3. \A u \in Savers : u # s => saver'[u] = saver[u] BY <1>2, <2>2
  <2>4. saver'[s].at = "replace" /\ saver'[s].inode = tmp BY <1>2, <2>1, <2>2
  <2>5. live' # 0 => IsWhole(content[live])' /\ Durable(live)'
    BY <1>1, <1>5, <2>2 DEF Durable, IsWhole
  <2>6. IsWhole(content[tmp])' /\ Durable(tmp)' BY <2>1, <2>2 DEF Durable, IsWhole, Length
  <2> QED BY <2>1, <2>2, <2>3, <2>4, <2>5, <2>6
<1>10. ASSUME NEW s \in Savers, Replaces(s) PROVE Atomic'
  <2>1. /\ saver[s].at = "replace" /\ tmp # 0 /\ IsWhole(content[tmp]) /\ Durable(tmp)
        /\ \A u \in Savers \ {s} : saver[u].at = "no"
    BY <1>4, <1>6, <1>10 DEF Replaces
  <2>2. /\ live' = tmp /\ content' = content /\ synced' = synced
        /\ saver' = [saver EXCEPT ![s] = Idle]
    BY <1>10, <2>1 DEF Replaces
  <2>3. \A u \in Savers : saver'[u].at = "no" BY <1>2, <2>1, <2>2 DEF Idle
  <2>4. IsWhole(content[live])' /\ Durable(live)' BY <1>1, <2>1, <2>2 DEF Durable, IsWhole, Length
  <2> QED BY <2>3, <2>4
<1>11. ASSUME live' \in {live, 0}, UNCHANGED <<tmp, content, synced, saver>> PROVE Atomic'
  <2>1. live' # 0 => IsWhole(content[live])' /\ Durable(live)'
    BY <1>1, <1>5, <1>11 DEF Durable, IsWhole
  <2>2. \A s \in Savers : saver[s].at # "no" =>
          /\ saver'[s] = saver[s] /\ tmp' = tmp /\ content'[tmp'] = content[tmp]
          /\ Durable(tmp)' <=> Durable(tmp)
    BY <1>1, <1>11 DEF Durable
  <2> QED BY <1>4, <1>6, <1>11, <2>1, <2>2 DEF IsWhole
<1>12. CASE NextSession \/ PowerFails
  <2>1. live' = live /\ \A s \in Savers : saver'[s].at = "no"
    BY <1>12 DEF NextSession, PowerFails, Restarts, names, Idle
  <2>2. live # 0 => (live \in synced' /\ content'[live] = content[live]) \/ NextSession
    BY <1>2, <1>5, <1>12 DEF PowerFails, Durable
  <2>3. NextSession => content' = content /\ synced' = synced BY DEF NextSession
  <2>4. live' # 0 => IsWhole(content[live])' /\ Durable(live)'
    BY <1>1, <1>5, <2>1, <2>2, <2>3 DEF IsWhole, Durable
  <2> QED BY <2>1, <2>4
<1> QED
  <2>1. ASSUME SaverSaves \/ PauseSaves \/ FinalSave PROVE Atomic'
    BY <1>7, <2>1 DEF SaverSaves, PauseSaves, FinalSave, Savers
  <2>2. CASE ClearOld \/ Clears BY <1>1, <1>11, <2>2 DEF ClearOld, Clears
  <2>3. CASE UNCHANGED <<live, tmp, content, synced, saver>> BY <1>1, <1>11, <2>3
  <2> QED BY <1>1, <1>8, <1>9, <1>10, <1>12, <2>1, <2>2, <2>3
      DEF Next, vars, names, Start, Probes, Resume, Pieces, Completes, Marks, Ends, Finished
-------------------------------------------------------------------------------
\* What a resumed list says.

\* Only the removal of the file takes away what is there.
LEMMA ThereStays ==
  ASSUME Typed, Placed, [Next]_vars, ~PowerFails, phase' # "clearOld", NEW d \in Chunks,
         There(d)
  PROVE  There(d)' \/ remote' # remote
<1> USE DEF There, Pending
<1>1. /\ data \in [Chunks -> 0..remote] /\ queued \subseteq completed
      /\ phase = "run" => told.version = remote
  BY DEF Typed, Placed
<1>2. ASSUME NEW c \in Chunks, Pieces(c) PROVE There(d)'
  <2>1. UNCHANGED <<told, queued, dropped, remote>> /\ told.version = remote
    BY <1>1, <1>2 DEF Pieces
  <2>2. data[d] = remote => data'[d] = remote BY <1>2, <2>1 DEF Pieces
  <2> QED BY <2>1, <2>2 DEF Parts
<1>3. ASSUME NEW c \in Chunks, Fills(c), UNCHANGED <<told, remote>>, told.version = remote,
             queued' \in {queued, queued \ {c}}
      PROVE  There(d)'
  <2>1. data'[d] = IF d \in Parts({c}) THEN remote ELSE data[d] BY <1>3 DEF Fills
  <2>2. d \in Parts(queued) => d \in Parts({c}) \/ d \in Parts(queued)' BY <1>3 DEF Parts
  <2>3. d \in dropped => d \in Parts({c}) \/ d \in dropped' BY <1>3 DEF Fills
  <2> QED BY <1>3, <2>1, <2>2, <2>3
<1>4. ASSUME NEW c \in Chunks, Completes(c) PROVE There(d)'
  <2>1. UNCHANGED <<told, remote>> /\ told.version = remote BY <1>1, <1>4 DEF Completes
  <2>2. CASE Fills(c) /\ queued' = queued BY <1>3, <2>1, <2>2
  <2>3. CASE queued' = queued \cup {c} /\ UNCHANGED <<data, dropped>>
    <3>1. d \in Parts(queued) => d \in Parts(queued)' BY <2>1, <2>3 DEF Parts
    <3> QED BY <2>1, <2>3, <3>1
  <2> QED BY <1>4, <2>2, <2>3 DEF Completes
<1>5. ASSUME NEW c \in Chunks, Marks(c) PROVE There(d)' BY <1>1, <1>3, <1>5 DEF Marks
<1>6. CASE Drops /\ data' = data
  <2>1. d \in Pending => d \in dropped' BY <1>6 DEF Drops
  <2> QED BY <1>6, <2>1
<1>7. CASE UNCHANGED <<data, queued, dropped, remote>> /\ (told' = told \/ queued = {})
  <2>1. Parts(queued)' = Parts(queued) BY <1>7 DEF Parts
  <2> QED BY <1>7, <2>1
<1>8. CASE Probes BY <1>1, <1>7, <1>8 DEF Probes, Placed, destination
<1>9. CASE SaverSaves \/ PauseSaves BY <1>7, <1>9 DEF SaverSaves, PauseSaves, Opens
<1>10. CASE FinalSave BY <1>6, <1>10 DEF FinalSave, Opens
<1>11. CASE NextSession BY <1>6, <1>11 DEF NextSession, Restarts
<1>12. CASE Start BY <1>7, <1>12 DEF Start, destination
<1> QED BY <1>2, <1>4, <1>5, <1>7, <1>8, <1>9, <1>10, <1>11, <1>12
    DEF Next, vars, destination, ClearOld, Resume, Writes, Syncs, Replaces, Clears, Ends, Finished

\* So a text stays covered; one of an earlier version is out of date for good.
LEMMA CoveredStays ==
  ASSUME Typed, Placed, [Next]_vars, ~PowerFails, phase' # "clearOld",
         NEW t \in Recorded(remote), Covered(t)
  PROVE  Covered(t)'
<1>1. remote \in Nat /\ t.version \in 0..remote
  BY SessionAssumption DEF SessionAssumption, Typed, Recorded
<1>2. remote' = remote \/ (remote' \in Nat /\ remote' > remote)
  <2>1. CASE Restarts BY <1>1, <2>1, SessionAssumption DEF SessionAssumption, Restarts
  <2>2. CASE remote' = remote BY <2>2
  <2> QED BY <2>1, <2>2
      DEF Next, vars, Start, ClearOld, Probes, Resume, Pieces, Completes, Marks, Opens,
        SaverSaves, PauseSaves, FinalSave, Writes, Syncs, Replaces, Clears, Ends,
        NextSession, PowerFails, Finished
<1>3. CASE remote' = remote
  <2>1. Claims(t) \subseteq Chunks BY DEF Claims, Recorded
  <2>2. ASSUME t.version = remote, NEW c \in Claims(t) PROVE There(c)'
    BY <1>3, <2>1, <2>2, ThereStays DEF Covered
  <2> QED BY <1>3, <2>2 DEF Covered
<1>4. CASE remote' \in Nat /\ remote' > remote BY <1>1, <1>4 DEF Covered
<1> QED BY <1>2, <1>3, <1>4

\* What the session writes down is in the file, or on its way.
LEMMA SavedIsCovered ==
  ASSUME Placed, HasAllBut(dropped), setting.tags, phase \in {"run", "final"},
         NEW t \in Recorded(remote),
         t.list = completed, t.cut = text.cut, t.version = text.version
  PROVE  Covered(t)
<1>1. t.version = told.version /\ t.cut = told.cut /\ told.version = remote BY DEF Placed
<1>2. Claims(t) = Parts(completed) BY <1>1 DEF Claims, Parts
<1> QED BY <1>1, <1>2 DEF Covered, HasAllBut, There, Pending

\* What the session has completed.
LEMMA HasAllStep ==
  ASSUME Typed, Placed, Listed, [Next]_vars, ~PowerFails, setting.tags
  PROVE  HasAllBut(dropped)'
<1>1. CASE completed' = {} BY <1>1 DEF HasAllBut, Parts
<1>2. CASE UNCHANGED <<told, completed, data, queued, dropped>>
  BY <1>2 DEF Listed, HasAllBut, Parts
<1>3. ASSUME phase = "run", phase' # "clearOld", UNCHANGED <<told, remote>>,
             NEW d \in Chunks, d \in Parts(completed)
      PROVE  data'[d] = told'.version \/ d \in Parts(queued)' \cup dropped'
  <2>1. There(d) /\ told.version = remote
    BY <1>3 DEF Listed, HasAllBut, There, Pending, Placed
  <2>2. There(d)' BY <1>3, <2>1, ThereStays
  <2> QED BY <1>3, <2>1, <2>2 DEF There, Pending
<1>4. ASSUME phase = "run", phase' # "clearOld", UNCHANGED <<told, remote, completed>>
      PROVE  HasAllBut(dropped)'
  <2>1. Parts(completed) \subseteq Chunks BY FirstChunk DEF Typed, Layout, Parts
  <2>2. Parts(completed)' = Parts(completed) BY <1>4 DEF Parts
  <2> QED BY <1>3, <1>4, <2>1, <2>2 DEF HasAllBut
<1>5. ASSUME NEW c \in Chunks, Pieces(c) \/ Marks(c) PROVE HasAllBut(dropped)'
  BY <1>4, <1>5 DEF Pieces, Marks
<1>6. ASSUME NEW c \in Chunks, Completes(c) PROVE HasAllBut(dropped)'
  <2>1. /\ UNCHANGED <<told, remote, phase>> /\ phase = "run"
        /\ completed' = completed \cup {c}
    BY <1>6 DEF Completes
  <2>2. Parts(completed)' \subseteq Parts(completed) \cup Parts({c}) BY <2>1 DEF Parts
  <2>3. Parts(completed) \subseteq Chunks /\ Parts({c}) \subseteq Chunks
    BY FirstChunk DEF Typed, Layout, Parts
  <2>4. ASSUME NEW d \in Parts({c})
        PROVE  data'[d] = told'.version \/ d \in Parts(queued)' \cup dropped'
    <3>1. CASE Fills(c) BY <2>1, <2>3, <2>4, <3>1 DEF Fills
    <3>2. CASE queued' = queued \cup {c} BY <2>1, <2>4, <3>2 DEF Parts
    <3> QED BY <1>6, <3>1, <3>2 DEF Completes
  <2> QED BY <1>3, <2>1, <2>2, <2>3, <2>4 DEF HasAllBut
<1>7. CASE Resume
  <2>1. /\ UNCHANGED <<told, remote, data, queued, dropped>> /\ completed' = text'.list
        /\ told.version = remote /\ phase = "load"
    BY <1>7 DEF Resume, Placed
  <2>2. text'.cut = told.cut /\ text'.version = told.version /\ text' \in Recorded(remote)
        /\ (text'.list = {} \/ text' \in Loads)
    BY <1>7, ResumedText
  <2>3. CASE text'.list = {} BY <1>1, <2>1, <2>3
  <2>4. CASE text' \in Loads
    <3>1. PICK t \in Recorded(remote) : t = text' BY <2>2
    <3>2. Covered(t)
      <4>1. live # 0 /\ t = content[live].text BY <2>4, <3>1, LoadedText DEF Typed
      <4> QED BY <2>1, <4>1 DEF Listed
    <3>3. Parts(completed)' = Claims(t) BY <2>1, <2>2, <3>1 DEF Parts, Claims
    <3>4. Parts(queued)' = Parts(queued) BY <2>1 DEF Parts
    <3>5. \A d \in Claims(t) : data[d] = remote \/ d \in Parts(queued) \cup dropped
      BY <2>1, <2>2, <3>1, <3>2 DEF Covered, There, Pending
    <3> QED BY <2>1, <3>3, <3>4, <3>5 DEF HasAllBut
  <2> QED BY <2>2, <2>3, <2>4
<1>8. CASE Start BY <1>1, <1>8 DEF Start, Placed
<1>9. CASE Probes BY <1>1, <1>9 DEF Probes, Placed
<1>10. CASE SaverSaves \/ PauseSaves \/ FinalSave
  BY <1>4, <1>10 DEF SaverSaves, PauseSaves, FinalSave, Opens
<1>11. CASE NextSession BY <1>1, <1>11 DEF NextSession, Restarts
<1>12. CASE UNCHANGED vars BY <1>2, <1>12 DEF vars, destination
<1> QED BY <1>2, <1>5, <1>6, <1>7, <1>8, <1>9, <1>10, <1>11, <1>12
    DEF Next, destination, ClearOld, Writes, Syncs, Replaces, Clears, Ends, Finished

LEMMA TrustedStep ==
  ASSUME Typed, Placed, Trusted, [Next]_vars
  PROVE  Trusted'
<1>1. setting' = setting BY SettingStays
<1> SUFFICES ASSUME setting.tags, ~setting.power, ~orphaned' PROVE Listed'
  BY <1>1 DEF Trusted
<1>2. ~orphaned
  BY DEF Next, vars, probe, destination, names, Start, ClearOld, Probes, Resume, Pieces,
       Completes, Marks, Opens, SaverSaves, PauseSaves, FinalSave, Writes, Syncs, Replaces,
       Clears, Ends, Restarts, NextSession, PowerFails, Finished
<1>3. /\ Listed /\ ~PowerFails
      /\ live \in 0..4 /\ tmp \in 0..4 /\ (live = tmp => live = 0)
      /\ content \in [Inodes -> [text : Recorded(remote), length : Nat]]
      /\ saver \in [Savers -> [at : Steps, inode : 0..4, text : Recorded(remote)]]
  BY <1>2 DEF Trusted, Typed, TypedFiles, PowerFails
<1>4. HasAllBut(dropped)' BY <1>3, HasAllStep
<1>5. ASSUME NEW t \in Recorded(remote), Covered(t), phase' # "clearOld" PROVE Covered(t)'
  BY <1>3, <1>5, CoveredStays
<1>6. live # 0 /\ phase # "clearOld" => Covered(content[live].text) BY <1>3 DEF Listed
<1>7. ASSUME NEW i \in Inodes
      PROVE  content[i].text \in Recorded(remote)
  BY <1>3
<1>8. ASSUME \A s \in Savers : saver'[s].at = "no",
             live' # 0 /\ phase' # "clearOld" => live' = live /\ content' = content /\ phase # "clearOld"
      PROVE  Listed'
  <2>1. live' # 0 /\ phase' # "clearOld" => Covered(content[live].text)'
    <3> SUFFICES ASSUME live' # 0, phase' # "clearOld" PROVE Covered(content[live].text)'
      OBVIOUS
    <3>1. live \in Inodes /\ Covered(content[live].text) BY <1>3, <1>6, <1>8 DEF Inodes
    <3>2. PICK t \in Recorded(remote) : t = content[live].text BY <1>7, <3>1
    <3>3. Covered(t)' BY <1>5, <3>1, <3>2
    <3> QED BY <1>8, <3>2, <3>3 DEF Covered
  <2> QED BY <1>4, <1>8, <2>1 DEF Listed
<1>9. CASE Start BY <1>8, <1>9 DEF Start, Placed, names
<1>10. CASE ClearOld BY <1>8, <1>10 DEF ClearOld, Placed
<1>11. CASE Probes BY <1>8, <1>11 DEF Probes, Placed, names
<1>12. CASE Resume BY <1>8, <1>12 DEF Resume, Placed, names
<1>13. CASE NextSession
  <2>1. /\ \A s \in Savers : saver'[s].at = "no"
        /\ UNCHANGED <<live, content>> /\ ~(phase = "clearOld" /\ live # 0)
    BY <1>13 DEF NextSession, Restarts, names, Idle
  <2> QED BY <1>8, <2>1
\* Every text after the other steps is one of those before it, empty, or what was completed.
<1>14. ASSUME phase # "clearOld", phase' # "clearOld",
              live' # 0 => live' \in Inodes /\ \E t \in Recorded(remote) :
                             Covered(t) /\ content'[live'].text = t,
              tmp' # 0 /\ (\E s \in Savers : saver'[s].at # "no") =>
                \E t \in Recorded(remote) : Covered(t) /\ content'[tmp'].text = t,
              \A s \in Savers : saver'[s].at # "no" =>
                \E t \in Recorded(remote) : Covered(t) /\ saver'[s].text = t
       PROVE  Listed'
  <2>1. live' # 0 => Covered(content[live].text)' BY <1>5, <1>14 DEF Covered
  <2>2. tmp' # 0 /\ (\E s \in Savers : saver'[s].at # "no") => Covered(content[tmp].text)'
    BY <1>5, <1>14 DEF Covered
  <2>3. \A s \in Savers : saver'[s].at # "no" => Covered(saver[s].text)'
    BY <1>5, <1>14 DEF Covered
  <2> QED BY <1>4, <2>1, <2>2, <2>3 DEF Listed
<1>15. /\ live # 0 /\ phase # "clearOld" => live \in Inodes /\ \E t \in Recorded(remote) :
            Covered(t) /\ content[live].text = t
       /\ tmp # 0 /\ (\E s \in Savers : saver[s].at # "no") => tmp \in Inodes /\
            \E t \in Recorded(remote) : Covered(t) /\ content[tmp].text = t
       /\ \A s \in Savers : saver[s].at # "no" =>
            \E t \in Recorded(remote) : Covered(t) /\ saver[s].text = t
  BY <1>3, <1>7 DEF Listed, Inodes
<1>16. ASSUME phase # "clearOld", phase' # "clearOld", live' \in {live, 0},
              UNCHANGED <<tmp, content, saver>>
       PROVE  Listed'
  BY <1>14, <1>15, <1>16
<1>17. ASSUME NEW c \in Chunks, Pieces(c) \/ Completes(c) \/ Marks(c) PROVE Listed'
  BY <1>16, <1>17 DEF Pieces, Completes, Marks, names
<1>18. CASE Clears \/ Ends BY <1>16, <1>18 DEF Clears, Ends, names
<1>19. ASSUME NEW s \in Savers, Opens(s, completed), phase = "run", phase' \in {"run", "final"}
       PROVE  Listed'
  <2>1. PICK i \in Inodes :
          /\ i # live /\ tmp' = i
          /\ content' = [content EXCEPT ![i] = Blank]
          /\ saver' = [saver EXCEPT ![s] = [at |-> "write", inode |-> i, text |-> text']]
    BY <1>19, OpensAt DEF Typed
  <2>2. live' = live BY <1>19 DEF Opens
  <2>3. /\ text' \in Recorded(remote)
        /\ text'.list = completed /\ text'.cut = text.cut /\ text'.version = text.version
    BY <1>19, SavedText DEF Opens
  <2>4. PICK t \in Recorded(remote) : t = text' BY <2>3
  <2>5. Covered(t) BY <1>3, <1>19, <2>3, <2>4, SavedIsCovered DEF Listed
  <2>6. live' # 0 => live' \in Inodes /\ \E u \in Recorded(remote) :
                       Covered(u) /\ content'[live'].text = u
    BY <1>3, <1>15, <1>19, <2>1, <2>2
  <2>7. \E u \in Recorded(remote) : Covered(u) /\ content'[tmp'].text = u
    <3>1. content'[tmp'].text = NoText BY <1>3, <2>1 DEF Blank
    <3>2. remote \in Nat BY SessionAssumption DEF SessionAssumption, Typed
    <3>3. NoText \in Recorded(remote) BY <3>2, BlankFile
    <3>4. Covered(NoText) BY DEF Covered, Claims, NoText
    <3> QED BY <3>1, <3>3, <3>4
  <2>8. ASSUME NEW u \in Savers, saver'[u].at # "no"
        PROVE  \E v \in Recorded(remote) : Covered(v) /\ saver'[u].text = v
    <3>1. CASE u = s
      <4>1. saver'[u].text = t BY <1>3, <2>1, <2>4, <3>1
      <4> QED BY <2>5, <4>1
    <3>2. CASE u # s
      <4>1. saver'[u] = saver[u] BY <1>3, <2>1, <3>2
      <4> QED BY <1>15, <2>8, <4>1
    <3> QED BY <3>1, <3>2
  <2> QED BY <1>14, <1>19, <2>6, <2>7, <2>8
<1>20. ASSUME NEW s \in Savers, Writes(s), phase # "clearOld" PROVE Listed'
  <2>1. UNCHANGED <<live, tmp, phase>> /\ saver[s].at # "no" BY <1>20 DEF Writes, names
  <2>2. \A i \in Inodes : content'[i].text = content[i].text \/ content'[i].text = saver[s].text
    BY <1>3, <1>20 DEF Writes
  <2>3. \A u \in Savers : saver'[u].at # "no" =>
          saver'[u].text = saver[u].text /\ saver[u].at # "no"
    BY <1>3, <1>20, <2>1 DEF Writes
  <2>4. live' # 0 => live' \in Inodes /\ \E t \in Recorded(remote) :
                       Covered(t) /\ content'[live'].text = t
    BY <1>15, <1>20, <2>1, <2>2
  <2>5. tmp' # 0 => \E t \in Recorded(remote) : Covered(t) /\ content'[tmp'].text = t
    BY <1>15, <2>1, <2>2
  <2>6. ASSUME NEW u \in Savers, saver'[u].at # "no"
        PROVE  \E t \in Recorded(remote) : Covered(t) /\ saver'[u].text = t
    <3>1. saver'[u].text = saver[u].text /\ saver[u].at # "no" BY <2>3, <2>6
    <3> QED BY <1>15, <3>1
  <2> QED BY <1>14, <1>20, <2>1, <2>4, <2>5, <2>6
<1>21. ASSUME NEW s \in Savers, Syncs(s) \/ Replaces(s), phase # "clearOld" PROVE Listed'
  <2>1. UNCHANGED <<content, phase>> /\ saver[s].at # "no"
    BY <1>21 DEF Syncs, Replaces, names, destination
  <2>2. live' \in {live, tmp} /\ tmp' \in {tmp, 0} BY <1>21 DEF Syncs, Replaces, names
  <2>3. live' # 0 => live' \in Inodes /\ \E t \in Recorded(remote) :
                       Covered(t) /\ content'[live'].text = t
    BY <1>15, <1>21, <2>1, <2>2
  <2>4. tmp' # 0 => \E t \in Recorded(remote) : Covered(t) /\ content'[tmp'].text = t
    BY <1>15, <2>1, <2>2
  <2>5. \A u \in Savers : saver'[u].at # "no" =>
          saver'[u].text = saver[u].text /\ saver[u].at # "no"
    BY <1>3, <1>21, <2>1 DEF Syncs, Replaces, Idle
  <2>6. ASSUME NEW u \in Savers, saver'[u].at # "no"
        PROVE  \E t \in Recorded(remote) : Covered(t) /\ saver'[u].text = t
    <3>1. saver'[u].text = saver[u].text /\ saver[u].at # "no" BY <2>5, <2>6
    <3> QED BY <1>15, <3>1
  <2> QED BY <1>14, <1>21, <2>1, <2>3, <2>4, <2>6
<1>22. CASE SaverSaves \/ PauseSaves \/ FinalSave
  BY <1>19, <1>22 DEF SaverSaves, PauseSaves, FinalSave, Savers
<1>23. ASSUME NEW s \in Savers, Writes(s) \/ Syncs(s) \/ Replaces(s) PROVE Listed'
  <2>1. phase # "clearOld" BY <1>23 DEF Placed, Writes, Syncs, Replaces
  <2> QED BY <1>20, <1>21, <1>23, <2>1
<1>24. CASE UNCHANGED vars
  <2>1. UNCHANGED <<phase, names, content, saver>> BY <1>24 DEF vars
  <2>2. CASE phase # "clearOld" BY <1>16, <2>1, <2>2 DEF names
  <2>3. CASE phase = "clearOld" BY <1>8, <2>1, <2>3 DEF Placed
  <2> QED BY <2>2, <2>3
<1> QED BY <1>3, <1>9, <1>10, <1>11, <1>12, <1>13, <1>17, <1>18, <1>22, <1>23, <1>24
        DEF Next, Finished

-------------------------------------------------------------------------------
\* The invariant holds in every behaviour.
THEOREM Invariant == Spec => []Inv
<1>1. Init => Inv BY InvInit
<1>2. Inv /\ [Next]_vars => Inv'
  BY TypedStep, PlacedStep, TrustedStep, AtomicStep, ProbingStep DEF Inv
<1> QED BY <1>1, <1>2, PTL DEF Spec

\* Every variable keeps to its type, whatever sessions, crashes and saves there are.
THEOREM TypeCorrect == Spec => []TypeOK
<1>1. Inv => TypeOK
  <2> SUFFICES ASSUME Inv PROVE TypeOK OBVIOUS
  <2>1. Typed /\ remote \in 1..Versions /\ Versions \in Nat
    BY SessionAssumption DEF SessionAssumption, Inv, Typed
  <2>2. Recorded(remote) \subseteq Texts
    BY <2>1 DEF Recorded, Texts
  <2>3. \A i \in Inodes : content[i] \in [text : Texts, length : Nat]
    BY <2>1, <2>2 DEF Typed, TypedFiles
  <2>4. saver \in [Savers -> [at : Steps, inode : 0..4, text : Texts]]
    BY <2>1, <2>2 DEF Typed, TypedFiles
  <2>5. names \in (0..4) \X (0..4) /\ (live = tmp => live = 0) /\ synced \subseteq Inodes
    BY <2>1 DEF Typed, TypedFiles, names
  <2> QED BY <2>1, <2>2, <2>3, <2>4, <2>5 DEF Typed, TypedProbe, TypeOK, Phases, Steps
<1> QED BY <1>1, Invariant, PTL

\* With ETags, on a medium that keeps what was written, and when no session died between
\* the removal of the old file and that of its list, what a session believes to be in the
\* file is there, in the version it downloads, or on its way there (load_resume_state,
\* validate_for_resume), except for what an earlier process or its writer thread took along
\* from its queue.
THEOREM ResumesAreTrue == Spec => []ResumeIsTrue
<1>1. Inv => ResumeIsTrue BY DEF Inv, Trusted, Listed, ResumeIsTrue
<1> QED BY <1>1, Invariant, PTL

\* A progress file is missing or whole at every crash, with fsync also after a power
\* failure, unless two saves have overlapped (save of persistence.py).
THEOREM SavesAreAtomic == Spec => []SaveIsAtomic
<1>1. Inv => SaveIsAtomic BY DEF Inv, Atomic, SaveIsAtomic
<1> QED BY <1>1, Invariant, PTL

\* The probe passes no mirror with ranges over for one without, nor an answer for none
\* (probe of prober.py).
THEOREM ProbesAreFair == Spec => []BestAnswerWins
<1>1. Inv => BestAnswerWins BY DEF Inv, Probing, BestAnswerWins
<1> QED BY <1>1, Invariant, PTL
===============================================================================
