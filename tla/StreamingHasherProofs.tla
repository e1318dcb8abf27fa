------------------------- MODULE StreamingHasherProofs -------------------------
(***************************************************************************)
(* Proofs about StreamingHasher, for any number of chunks, parts and       *)
(* writing tasks and for files of known and of unknown size.               *)
(***************************************************************************)
EXTENDS StreamingHasher, TLAPS

CellSet == [chunk : Chunks, part : Parts, by : Origins \cup {Hole}]

Typed ==
  /\ file \in Files /\ wanted \in Wants
  /\ disk \in [Chunks -> [Parts -> Origins \cup {Hole}]]
  /\ marked \subseteq Store!Marks
  /\ mapping \in BOOLEAN /\ stopped \in BOOLEAN
  /\ failed \in BOOLEAN /\ computed \in BOOLEAN
  /\ thread \in {"idle", "look", "view", "read", "end", "done"}
  /\ chunk \in 0..file.chunks
  /\ part \in 1..(NumParts + 1)
  /\ hashed \in Seq(CellSet)
  /\ verified \in {"none", "true", "false"}
  /\ owner \in {"start", "run", "stop", "joined", "finalized", "raised"}
  /\ answer \in {"none", "true", "false", "incomplete"}
  /\ recheck \in {"none", "true", "false"}

\* Where the thread is: on a reported chunk of the file, behind it only reported ones.
Placed ==
  /\ mapping => file.mapped
  /\ thread = "view" => file.mapped
  /\ thread \in {"read", "view"} \/ part > 1 => chunk < file.chunks /\ IsOnDisk(chunk)
  /\ thread \in {"idle", "look", "view", "end"} => part = 1
  /\ thread = "end" => chunk = file.chunks \/ stopped
  /\ \A c \in FileChunks : c < chunk => IsOnDisk(c)
  /\ Len(hashed) <= Position(chunk, part) - 1
  /\ thread = "idle" <=> owner = "start" \/ wanted = "none"

\* A cell that was hashed is the one of its position in the file, and stays so.
CellIsRight(i) ==
  /\ hashed[i].chunk \in FileChunks /\ hashed[i].part \in Parts
  /\ Position(hashed[i].chunk, hashed[i].part) = i
  /\ hashed[i].by = disk[hashed[i].chunk][hashed[i].part]
  /\ IsOnDisk(hashed[i].chunk)

\* Nothing was left out; a file of unknown size was read to its end and no further.
UpToHere ==
  /\ file.known \/ chunk = 0 => Len(hashed) = Position(chunk, part) - 1
  /\ ~file.known /\ chunk = 1 => AtEnd(0, Len(hashed) + 1)
  /\ ~file.known /\ Len(hashed) > 0 => ~AtEnd(0, Len(hashed))

\* What was hashed is a prefix of the file, unless the stop event broke the reading off.
Faithful ==
  ~stopped \/ computed => (\A i \in 1..Len(hashed) : CellIsRight(i)) /\ UpToHere

\* Digest, verdict and answers follow from one another.
Decided ==
  /\ computed => chunk = file.chunks /\ thread = "done"
  /\ computed => verified = Verdict(hashed)
  /\ ~computed => verified = "none"
  /\ thread = "done" /\ ~computed => stopped \/ failed
  /\ owner \in {"joined", "finalized"} => thread \in {"idle", "done"}
  /\ answer # "none" =>
       /\ owner = "finalized"
       /\ answer = IF wanted = "none" THEN "true"
                   ELSE IF verified = "none" THEN "incomplete" ELSE verified
  /\ recheck # "none" => owner = "finalized"
  /\ recheck # "none" /\ computed => recheck = verified

Inv == Typed /\ Placed /\ Faithful /\ Decided

-------------------------------------------------------------------------------
\* Positions count the parts of the file: no two parts have the same one.
LEMMA PositionUnique ==
  ASSUME NEW c \in Nat, NEW d \in Nat, NEW p \in Parts, NEW q \in Parts,
         Position(c, p) = Position(d, q)
  PROVE  c = d /\ p = q
<1>1. NumParts \in Nat \ {0} BY StreamingHasherAssumption DEF StreamingHasherAssumption
<1>2. ASSUME NEW a \in Nat, NEW b \in Nat, a < b PROVE a * NumParts + NumParts <= b * NumParts
  <2>1. PICK k \in Nat : b = a + 1 + k BY <1>2
  <2>2. b * NumParts = a * NumParts + NumParts + k * NumParts BY <1>1, <2>1
  <2>3. k * NumParts \in Nat /\ a * NumParts \in Nat BY <1>1, <2>1
  <2> QED BY <1>1, <2>2, <2>3
<1>3. c * NumParts \in Nat /\ d * NumParts \in Nat BY <1>1
<1>4. CASE c < d BY <1>1, <1>2, <1>3, <1>4 DEF Position, Parts
<1>5. CASE d < c BY <1>1, <1>2, <1>3, <1>5 DEF Position, Parts
<1>6. CASE c = d BY <1>1, <1>3, <1>6 DEF Position, Parts
<1> QED BY <1>4, <1>5, <1>6

\* The place after the last part of a chunk is the place before the next chunk.
LEMMA NextChunk ==
  ASSUME NEW c \in Nat, NEW d \in Nat, c < d
  PROVE  /\ c * NumParts \in Nat /\ d * NumParts \in Nat
         /\ Position(c, NumParts) = Position(c + 1, 0)
         /\ Position(c, NumParts) <= Position(d, 0)
<1>1. NumParts \in Nat \ {0} BY StreamingHasherAssumption DEF StreamingHasherAssumption
<1>2. PICK k \in Nat : d = c + 1 + k OBVIOUS
<1>3. d * NumParts = c * NumParts + NumParts + k * NumParts BY <1>1, <1>2
<1>4. k * NumParts \in Nat /\ c * NumParts \in Nat BY <1>1, <1>2
<1>5. (c + 1) * NumParts = c * NumParts + NumParts BY <1>1
<1> QED BY <1>1, <1>3, <1>4, <1>5 DEF Position

\* The number of chunks and the length of a file in its cases.
LEMMA FileShape ==
  ASSUME Typed
  PROVE  /\ file.known \in BOOLEAN /\ file.mapped \in BOOLEAN
         /\ file.chunks \in Nat \ {0} /\ file.chunks <= MaxChunks
         /\ FileChunks \subseteq Chunks
         /\ file.known => file.len = file.chunks * NumParts
         /\ ~file.known => file.chunks = 1 /\ ~file.mapped
         /\ file.len \in Nat
BY StreamingHasherAssumption DEF StreamingHasherAssumption, Typed, Files, FileChunks, Chunks

\* What a writer does leaves reported chunks reported and untouched.
LEMMA ReportedStay ==
  ASSUME Typed, WriterWorks, NEW d \in Chunks, IsOnDisk(d)
  PROVE  IsOnDisk(d)' /\ disk'[d] = disk[d]
<1>1. PICK c \in FileChunks : Store!StepOf(c) BY DEF WriterWorks
<1>2. PICK n \in Store!Parts :
        \/ \E t \in Tasks : Store!Store(c, n, t) \/ Store!Report(c, n, t)
        \/ Store!Cut(c, n)
  BY <1>1 DEF Store!StepOf
<1>3. CASE \E t \in Tasks : Store!Store(c, n, t)
  BY <1>3 DEF Store!Store, IsOnDisk, Store!IsOnDisk, Typed
<1>4. CASE \E t \in Tasks : Store!Report(c, n, t)
  BY <1>4 DEF Store!Report, IsOnDisk, Store!IsOnDisk
<1>5. CASE Store!Cut(c, n)
  BY <1>5 DEF Store!Cut, IsOnDisk, Store!IsOnDisk, Typed
<1> QED BY <1>2, <1>3, <1>4, <1>5

\* A chunk as a sequence of cells.
LEMMA ChunkCells ==
  ASSUME Typed, NEW c \in Chunks
  PROVE  LET s == [p \in Parts |-> Cell(c, p)]
         IN  /\ s \in Seq(CellSet) /\ Len(s) = NumParts
             /\ \A p \in Parts : s[p] = Cell(c, p)
<1> DEFINE s == [p \in Parts |-> Cell(c, p)]
<1>1. NumParts \in Nat BY StreamingHasherAssumption DEF StreamingHasherAssumption
<1>2. \A p \in Parts : Cell(c, p) \in CellSet BY DEF Cell, CellSet, Typed
<1>3. s \in [1..NumParts -> CellSet] BY <1>2 DEF Parts
<1>4. s \in Seq(CellSet) BY <1>1, <1>3
<1>5. Len(s) = NumParts BY <1>1, <1>3, <1>4 DEF Parts
<1> QED BY <1>4, <1>5

LEMMA TypedStep == Inv /\ [Next]_vars => Typed'
<1> SUFFICES ASSUME Inv, [Next]_vars PROVE Typed'
  OBVIOUS
<1>1. Typed /\ Placed BY DEF Inv
<1> USE StreamingHasherAssumption, FileShape DEF StreamingHasherAssumption
<1>2. CASE SeesChunk BY <1>1, <1>2 DEF SeesChunk, Unmoved, chosen, storeVars, ownerVars, Typed
<1>3. CASE HashesView
  <2>3. chunk < file.chunks BY <1>1, <1>3 DEF HashesView, Placed
  <2>1. chunk \in Chunks BY <1>1, <2>3 DEF Typed, FileChunks
  <2>2. hashed' \in Seq(CellSet) BY <1>1, <1>3, <2>1, ChunkCells DEF HashesView, Typed
  <2> QED BY <1>1, <1>3, <2>3, <2>2 DEF HashesView, Unmoved, chosen, storeVars, ownerVars, Typed
<1>4. CASE ReadsPart
  <2>1. chunk \in Chunks BY <1>1, <1>4 DEF ReadsPart, Placed, Typed, FileChunks
  <2>2. part \in Parts BY <1>1, <1>4 DEF ReadsPart, Typed, Parts
  <2>3. Cell(chunk, part) \in CellSet BY <1>1, <2>1, <2>2 DEF Cell, CellSet, Typed
  <2>4. hashed' \in Seq(CellSet) BY <1>1, <1>4, <2>3 DEF ReadsPart, Typed
  <2> QED BY <1>1, <1>4, <2>2, <2>4
         DEF ReadsPart, Unmoved, chosen, storeVars, ownerVars, Typed, Parts
<1>5. CASE EndsChunk
  BY <1>1, <1>5 DEF EndsChunk, Unmoved, chosen, storeVars, ownerVars, Typed, Placed
<1>6. CASE EndsLoop BY <1>1, <1>6 DEF EndsLoop, Unmoved, chosen, storeVars, ownerVars, Typed
<1>7. CASE Verifies
  <2>1. computed' \in BOOLEAN /\ verified' \in {"none", "true", "false"}
    BY <1>1, <1>7 DEF Verifies, Concludes, Verdict, Typed
  <2> QED BY <1>1, <1>7, <2>1
         DEF Verifies, Concludes, Unmoved, chosen, storeVars, ownerVars, Typed
<1>8. CASE ThreadDies BY <1>1, <1>8 DEF ThreadDies, Unmoved, chosen, storeVars, ownerVars, Typed
<1>9. CASE Start BY <1>1, <1>9 DEF Start, chosen, storeVars, Typed
<1>10. CASE StopWriter
  <2>1. mapping' \in BOOLEAN BY <1>1, <1>10 DEF StopWriter, Typed
  <2>2. owner' \in {"stop", "raised"} BY <1>10 DEF StopWriter
  <2>3. UNCHANGED <<chosen, storeVars, stopped, hashVars, answer, recheck, failed>>
    BY <1>10 DEF StopWriter
  <2> QED BY <1>1, <2>1, <2>2, <2>3 DEF chosen, storeVars, hashVars, Typed
<1>11. CASE StopReturns BY <1>1, <1>11 DEF StopReturns, chosen, storeVars, hashVars, Typed
<1>12. CASE Finalize BY <1>1, <1>12 DEF Finalize, chosen, storeVars, hashVars, Typed
<1>13. CASE VerifyFile
  BY <1>1, <1>13 DEF VerifyFile, Verdict, chosen, storeVars, hashVars, Typed
<1>14. CASE SetStop BY <1>1, <1>14 DEF SetStop, chosen, storeVars, hashVars, ownerVars, Typed
<1>15. CASE WriterWorks
  <2>1. disk' \in [Chunks -> [Parts -> Origins \cup {Hole}]] /\ marked' \subseteq Store!Marks
    <3>1. PICK c \in Chunks : Store!StepOf(c) BY <1>1, <1>15 DEF WriterWorks
    <3>2. PICK n \in Parts :
            \/ \E t \in Tasks : Store!Store(c, n, t) \/ Store!Report(c, n, t)
            \/ Store!Cut(c, n)
      BY <3>1 DEF Store!StepOf, Store!Parts, Parts
    <3>3. CASE \E t \in Tasks : Store!Store(c, n, t)
      BY <1>1, <3>3 DEF Store!Store, Typed, Origins
    <3>4. CASE \E t \in Tasks : Store!Report(c, n, t)
      BY <1>1, <3>4 DEF Store!Report, Typed, Store!Marks, Store!Origins, Store!Parts, Parts
    <3>5. CASE Store!Cut(c, n)
      BY <1>1, <3>5 DEF Store!Cut, Typed, Store!Parts, Parts
    <3> QED BY <3>2, <3>3, <3>4, <3>5
  <2> QED BY <1>1, <1>15, <2>1 DEF WriterWorks, chosen, hashVars, ownerVars, Typed
<1>16. CASE UNCHANGED vars
  BY <1>1, <1>16 DEF vars, chosen, storeVars, hashVars, ownerVars, Typed
<1> QED BY <1>2, <1>3, <1>4, <1>5, <1>6, <1>7, <1>8, <1>9, <1>10, <1>11, <1>12, <1>13, <1>14,
           <1>15, <1>16 DEF Next, ThreadStep, Finished

\* Whatever happens, the file keeps its shape and reported chunks stay as they are.
LEMMA Stays ==
  ASSUME Inv, [Next]_vars
  PROVE  /\ file' = file /\ wanted' = wanted /\ FileChunks' = FileChunks
         /\ \A d \in Chunks : IsOnDisk(d) => IsOnDisk(d)' /\ disk'[d] = disk[d]
<1>1. CASE WriterWorks
  BY <1>1, ReportedStay DEF Inv, WriterWorks, chosen, FileChunks
<1>2. CASE UNCHANGED <<chosen, storeVars>>
  BY <1>2 DEF chosen, storeVars, FileChunks, IsOnDisk, Store!IsOnDisk
<1>3. CASE ThreadStep \/ ThreadDies
  <2>1. UNCHANGED <<chosen, storeVars>>
    BY <1>3 DEF ThreadStep, SeesChunk, HashesView, ReadsPart, EndsChunk, EndsLoop, Verifies,
                Concludes, ThreadDies, Unmoved
  <2> QED BY <2>1, <1>2
<1>4. CASE Start \/ StopWriter \/ StopReturns \/ Finalize \/ VerifyFile \/ SetStop \/ Finished
  <2>1. UNCHANGED <<chosen, storeVars>>
    BY <1>4 DEF Start, StopWriter, StopReturns, Finalize, VerifyFile, SetStop, Finished, vars
  <2> QED BY <2>1, <1>2
<1> QED BY <1>1, <1>2, <1>3, <1>4 DEF Next, vars

\* The products in positions.
LEMMA Products ==
  ASSUME Typed
  PROVE  /\ NumParts \in Nat \ {0} /\ chunk \in Nat /\ part \in Nat /\ Len(hashed) \in Nat
         /\ chunk * NumParts \in Nat
         /\ (chunk + 1) * NumParts = chunk * NumParts + NumParts
<1>1. NumParts \in Nat \ {0} BY StreamingHasherAssumption DEF StreamingHasherAssumption
<1>2. chunk \in Nat /\ part \in Nat /\ Len(hashed) \in Nat BY <1>1, FileShape DEF Typed
<1> QED BY <1>1, <1>2

LEMMA InvInit == Init => Inv
<1> SUFFICES ASSUME Init PROVE Inv
  OBVIOUS
<1> USE StreamingHasherAssumption DEF StreamingHasherAssumption
<1>1. disk \in [Chunks -> [Parts -> Origins \cup {Hole}]] /\ marked \subseteq Store!Marks
  BY DEF Init, Store!Init, Store!Marks, Store!Origins, Store!Parts, Parts, Origins
<1>2. file.mapped \in BOOLEAN /\ file.chunks \in Nat BY DEF Init, Files
<1>3. hashed = <<>> /\ Len(hashed) = 0 /\ hashed \in Seq(CellSet) BY DEF Init
<1>4. Typed
  <2>1. part \in 1..(NumParts + 1) BY DEF Init
  <2>2. chunk \in 0..file.chunks BY <1>2 DEF Init
  <2> QED BY <1>1, <1>2, <1>3, <2>1, <2>2 DEF Init, Typed
<1>5. Position(chunk, part) - 1 = 0 BY DEF Init, Position
<1>6. Placed BY <1>2, <1>3, <1>5 DEF Init, Placed, FileChunks
<1>7. Faithful BY <1>3, <1>5 DEF Init, Faithful, UpToHere
<1>8. Decided BY DEF Init, Decided
<1> QED BY <1>4, <1>6, <1>7, <1>8 DEF Inv

LEMMA PlacedStep == Inv /\ [Next]_vars => Placed'
<1> SUFFICES ASSUME Inv, [Next]_vars PROVE Placed'
  OBVIOUS
<1>0. Typed /\ Placed BY DEF Inv
<1>f. /\ file.known \in BOOLEAN /\ file.chunks \in Nat \ {0} /\ FileChunks \subseteq Chunks
      /\ FileChunks = 0..(file.chunks - 1)
  BY <1>0, FileShape DEF FileChunks
<1>n. /\ NumParts \in Nat \ {0} /\ chunk \in Nat /\ part \in Nat /\ Len(hashed) \in Nat
      /\ chunk * NumParts \in Nat
      /\ (chunk + 1) * NumParts = chunk * NumParts + NumParts
  BY <1>0, Products
<1>s. /\ file' = file /\ wanted' = wanted /\ FileChunks' = FileChunks
      /\ \A d \in FileChunks : IsOnDisk(d) => IsOnDisk(d)'
  BY Stays, <1>f
<1>r. \A d \in FileChunks : d < chunk => IsOnDisk(d)' BY <1>0, <1>s DEF Placed
<1>k. PICK k \in Nat : k = chunk BY <1>n
<1>a. thread \in {"read", "view"} \/ part > 1 => k < file.chunks /\ IsOnDisk(k)
  BY <1>0, <1>k DEF Placed
<1>c. thread \in {"read", "view"} \/ part > 1 => k \in FileChunks BY <1>a, <1>f, <1>k
<1>d. thread \in {"read", "view"} \/ part > 1 => IsOnDisk(k)' BY <1>a, <1>c, <1>s
<1>1. CASE SeesChunk
  <2>1. k \in FileChunks /\ IsOnDisk(k)' BY <1>1, <1>f, <1>k, <1>s DEF SeesChunk
  <2>2. thread' \in {"view", "read"} /\ (thread' = "view" => mapping) BY <1>1 DEF SeesChunk
  <2>3. UNCHANGED <<chunk, part, hashed, mapping, stopped, owner>>
    BY <1>1 DEF SeesChunk, Unmoved, ownerVars
  <2> QED BY <1>1, <1>0, <1>f, <1>k, <1>s, <1>r, <2>1, <2>2, <2>3 DEF SeesChunk, Placed, Position
<1>2. CASE HashesView
  <2>1. k \in FileChunks /\ IsOnDisk(k)' /\ part = 1 BY <1>2, <1>0, <1>c, <1>d DEF HashesView, Placed
  <2>2. Len(hashed') = Len(hashed) + NumParts
    <3> DEFINE s == [p \in Parts |-> Cell(chunk, p)]
    <3>1. s \in Seq(CellSet) /\ Len(s) = NumParts BY <1>0, <1>f, <1>k, <2>1, ChunkCells
    <3>2. hashed' = hashed \o s BY <1>2 DEF HashesView
    <3>3. hashed \in Seq(CellSet) BY <1>0 DEF Typed
    <3> HIDE DEF s
    <3> QED BY <3>1, <3>2, <3>3
  <2>3. \A d \in FileChunks : d < chunk' => IsOnDisk(d)'
    BY <1>2, <1>r, <1>f, <1>k, <2>1 DEF HashesView
  <2>4. Len(hashed)' <= Position(chunk, part)' - 1
    BY <1>2, <1>0, <1>n, <2>1, <2>2 DEF HashesView, Placed, Position
  <2>5. UNCHANGED <<part, mapping, stopped, owner>> BY <1>2 DEF HashesView, Unmoved, ownerVars
  <2> QED BY <1>2, <1>0, <1>s, <2>1, <2>3, <2>4, <2>5 DEF HashesView, Placed
<1>3. CASE ReadsPart
  <2>1. k < file.chunks /\ IsOnDisk(k)' BY <1>3, <1>a, <1>d DEF ReadsPart
  <2>2. Len(hashed') = Len(hashed) + 1 BY <1>3, <1>0 DEF ReadsPart, Typed
  <2>4. Len(hashed)' <= Position(chunk, part)' - 1
    BY <1>3, <1>0, <1>n, <2>2 DEF ReadsPart, Placed, Position
  <2>5. UNCHANGED <<thread, chunk, mapping, stopped, owner>>
    BY <1>3 DEF ReadsPart, Unmoved, ownerVars
  <2> QED BY <1>3, <1>0, <1>k, <1>s, <1>r, <2>1, <2>4, <2>5 DEF ReadsPart, Placed
<1>4. CASE EndsChunk
  <2>1. k \in FileChunks /\ IsOnDisk(k)' BY <1>4, <1>c, <1>d DEF EndsChunk
  <2>3. \A d \in FileChunks : d < chunk' => IsOnDisk(d)'
    BY <1>4, <1>r, <1>f, <1>k, <2>1 DEF EndsChunk
  <2>4. Len(hashed)' <= Position(chunk, part)' - 1
    BY <1>4, <1>0, <1>n DEF EndsChunk, Placed, Position, Typed
  <2>5. UNCHANGED <<mapping, stopped, owner>> BY <1>4 DEF EndsChunk, Unmoved, ownerVars
  <2> QED BY <1>4, <1>0, <1>s, <2>3, <2>4, <2>5 DEF EndsChunk, Placed
<1>5. CASE EndsLoop
  BY <1>5, <1>0, <1>s, <1>r DEF EndsLoop, Unmoved, ownerVars, Placed, Position
<1>6. CASE Verifies
  BY <1>6, <1>0, <1>s, <1>r DEF Verifies, Concludes, Unmoved, ownerVars, Placed, Position
<1>7. CASE ThreadDies
  <2>1. part > 1 => IsOnDisk(k)' /\ k < file.chunks BY <1>a, <1>d
  <2> QED BY <1>7, <1>0, <1>k, <1>s, <1>r, <2>1 DEF ThreadDies, Unmoved, ownerVars, Placed, Position
<1>8. CASE Start
  <2>1. thread = "idle" /\ part = 1 BY <1>8, <1>0 DEF Start, Placed
  <2> QED BY <1>8, <1>0, <1>s, <1>r, <2>1 DEF Start, Placed, Position
<1>9. CASE \/ StopWriter \/ StopReturns \/ Finalize \/ VerifyFile \/ SetStop \/ WriterWorks
           \/ UNCHANGED vars
  <2>1. UNCHANGED <<thread, chunk, part, hashed>>
    BY <1>9 DEF StopWriter, StopReturns, Finalize, VerifyFile, SetStop, WriterWorks, vars, hashVars
  <2>2. (stopped => stopped') /\ (mapping' => mapping)
    BY <1>9 DEF StopWriter, StopReturns, Finalize, VerifyFile, SetStop, WriterWorks, vars
  <2>3. owner' = "start" <=> owner = "start"
    BY <1>9 DEF StopWriter, StopReturns, Finalize, VerifyFile, SetStop, WriterWorks, vars, ownerVars
  <2>4. thread \in {"read", "view"} \/ part > 1 => k < file.chunks /\ IsOnDisk(k)' BY <1>a, <1>d
  <2> QED BY <1>0, <1>k, <1>s, <1>r, <2>1, <2>2, <2>3, <2>4 DEF Placed, Position
<1> QED BY <1>1, <1>2, <1>3, <1>4, <1>5, <1>6, <1>7, <1>8, <1>9 DEF Next, ThreadStep, Finished

\* Only a thread that was not stopped takes the digest, and the event is never cleared.
LEMMA StoppedStays ==
  ASSUME Inv, [Next]_vars, ~stopped' \/ computed'
  PROVE  ~stopped \/ computed
<1>1. stopped \in BOOLEAN /\ computed \in BOOLEAN BY DEF Inv, Typed
<1>2. CASE Verifies
  <2>1. stopped' = stopped BY <1>2 DEF Verifies, Concludes, Unmoved
  <2>2. stopped => computed' = computed BY <1>2 DEF Verifies, Concludes
  <2> QED BY <2>1, <2>2
<1>3. CASE ~Verifies
  <2>1. computed' = computed
    BY <1>3 DEF Next, ThreadStep, SeesChunk, HashesView, ReadsPart, EndsChunk, EndsLoop,
                ThreadDies, Start, StopWriter, StopReturns, Finalize, VerifyFile, SetStop,
                WriterWorks, Finished, vars, hashVars
  <2>2. stopped => stopped'
    BY <1>3 DEF Next, ThreadStep, SeesChunk, HashesView, ReadsPart, EndsChunk, EndsLoop,
                ThreadDies, Start, StopWriter, StopReturns, Finalize, VerifyFile, SetStop,
                WriterWorks, Finished, vars, Unmoved
  <2> QED BY <1>1, <2>1, <2>2
<1> QED BY <1>2, <1>3

\* While it reads a chunk the digest is not taken yet.
LEMMA ReadingNotComputed ==
  ASSUME Inv, thread \in {"read", "view"} PROVE ~computed
BY DEF Inv, Decided

\* A hashed cell stays right where hashed and its chunk stay as they are.
LEMMA CellStays ==
  ASSUME Inv, [Next]_vars, NEW i \in 1..Len(hashed), CellIsRight(i), hashed'[i] = hashed[i]
  PROVE  CellIsRight(i)'
<1>1. PICK d \in FileChunks : d = hashed[i].chunk BY DEF CellIsRight
<1>2. d \in Chunks BY FileShape DEF Inv
<1>3. IsOnDisk(d) BY <1>1 DEF CellIsRight
<1>4. IsOnDisk(d)' /\ disk'[d] = disk[d] /\ FileChunks' = FileChunks BY <1>2, <1>3, Stays
<1>5. hashed'[i].chunk = d BY <1>1
<1>6. IsOnDisk(hashed[i].chunk)' BY <1>4, <1>5 DEF IsOnDisk, Store!IsOnDisk
<1> QED BY <1>1, <1>4, <1>5, <1>6 DEF CellIsRight, Position

\* Where the file ends does not change once its only chunk is reported.
LEMMA EndStays ==
  ASSUME Inv, [Next]_vars, IsOnDisk(0), NEW p \in Nat
  PROVE  AtEnd(0, p)' <=> AtEnd(0, p)
<1>1. 0 \in Chunks BY StreamingHasherAssumption DEF StreamingHasherAssumption, Chunks
<1>2. disk'[0] = disk[0] /\ file' = file BY <1>1, Stays
<1> QED BY <1>2 DEF AtEnd

LEMMA FaithfulStep == Inv /\ [Next]_vars => Faithful'
<1> SUFFICES ASSUME Inv, [Next]_vars, ~stopped' \/ computed'
             PROVE  (\A i \in 1..Len(hashed) : CellIsRight(i))' /\ UpToHere'
  BY DEF Faithful
<1>0. Typed /\ Placed BY DEF Inv
<1>p. ~stopped \/ computed BY StoppedStays
<1>h. (\A i \in 1..Len(hashed) : CellIsRight(i)) /\ UpToHere BY <1>p DEF Inv, Faithful
<1>f. /\ file.known \in BOOLEAN /\ file.chunks \in Nat \ {0} /\ FileChunks \subseteq Chunks
      /\ FileChunks = 0..(file.chunks - 1)
      /\ ~file.known => file.chunks = 1 /\ ~file.mapped
  BY <1>0, FileShape DEF FileChunks
<1>n. /\ NumParts \in Nat \ {0} /\ chunk \in Nat /\ part \in Nat /\ Len(hashed) \in Nat
      /\ chunk * NumParts \in Nat
      /\ (chunk + 1) * NumParts = chunk * NumParts + NumParts
  BY <1>0, Products
<1>t. hashed \in Seq(CellSet) /\ part \in 1..(NumParts + 1) BY <1>0 DEF Typed
<1>s. file' = file /\ FileChunks' = FileChunks BY Stays
<1>1. CASE UNCHANGED <<chunk, part, hashed>>
  <2>1. \A i \in 1..Len(hashed') : CellIsRight(i)' BY <1>1, <1>h, CellStays
  <2>2. ~file.known /\ (Len(hashed) > 0 \/ chunk = 1) => IsOnDisk(0)
    <3>1. CASE ~file.known /\ Len(hashed) > 0
      <4>1. CellIsRight(1) BY <3>1, <1>h, <1>n
      <4>2. hashed[1].chunk = 0 BY <4>1, <3>1, <1>f DEF CellIsRight
      <4> QED BY <4>1, <4>2 DEF CellIsRight
    <3>2. CASE ~file.known /\ chunk = 1
      BY <3>2, <1>0, <1>f DEF Placed
    <3> QED BY <3>1, <3>2
  <2>3. ~file.known /\ chunk = 1 => AtEnd(0, Len(hashed) + 1)'
    <3> SUFFICES ASSUME ~file.known, chunk = 1 PROVE AtEnd(0, Len(hashed) + 1)'
      OBVIOUS
    <3>1. PICK n \in Nat : n = Len(hashed) + 1 BY <1>n
    <3>2. AtEnd(0, n) BY <3>1, <1>h DEF UpToHere
    <3>3. AtEnd(0, n)' BY <3>1, <3>2, <2>2, EndStays
    <3> QED BY <3>1, <3>3, <1>1
  <2>4. ~file.known /\ Len(hashed) > 0 => ~AtEnd(0, Len(hashed))'
    <3> SUFFICES ASSUME ~file.known, Len(hashed) > 0 PROVE ~AtEnd(0, Len(hashed))'
      OBVIOUS
    <3>1. PICK n \in Nat : n = Len(hashed) BY <1>n
    <3>2. ~AtEnd(0, n) BY <3>1, <1>h DEF UpToHere
    <3>3. ~AtEnd(0, n)' BY <3>1, <3>2, <2>2, EndStays
    <3> QED BY <3>1, <3>3, <1>1
  <2> QED BY <1>1, <1>h, <1>s, <2>1, <2>3, <2>4 DEF UpToHere, Position
<1>2. CASE HashesView
  <2>1. ~stopped /\ file.known /\ chunk < file.chunks /\ part = 1 /\ IsOnDisk(chunk)
    BY <1>2, <1>0, <1>p, <1>f, ReadingNotComputed DEF HashesView, Placed
  <2>2. chunk \in FileChunks /\ chunk \in Chunks BY <2>1, <1>f, <1>n
  <2> DEFINE s == [p \in Parts |-> Cell(chunk, p)]
  <2>3. /\ s \in Seq(CellSet) /\ Len(s) = NumParts
        /\ \A p \in Parts : s[p] = Cell(chunk, p)
    BY <1>0, <2>2, ChunkCells
  <2>4. hashed' = hashed \o s /\ chunk' = chunk + 1 /\ part' = part /\ UNCHANGED <<disk, marked>>
    BY <1>2 DEF HashesView, Unmoved, storeVars
  <2> HIDE DEF s
  <2>5. Len(hashed) = chunk * NumParts BY <1>h, <1>n, <2>1 DEF UpToHere, Position
  <2>6. Len(hashed') = Len(hashed) + NumParts
    <3>1. s \in Seq(CellSet) /\ Len(s) = NumParts BY <2>3
    <3>2. hashed' = hashed \o s BY <2>4
    <3>3. hashed \in Seq(CellSet) BY <1>t
    <3> QED BY <3>1, <3>2, <3>3
  <2>7. ASSUME NEW i \in 1..Len(hashed') PROVE CellIsRight(i)'
    <3>1. CASE i \in 1..Len(hashed)
      <4>1. hashed'[i] = hashed[i] BY <3>1, <2>3, <2>4, <1>t
      <4> QED BY <3>1, <4>1, <1>h, CellStays
    <3>2. CASE i \notin 1..Len(hashed)
      <4>1. PICK p \in Parts : i = Len(hashed) + p BY <3>2, <2>6, <1>n DEF Parts
      <4>2. hashed'[i] = Cell(chunk, p) BY <4>1, <2>3, <2>4, <1>t, <1>n DEF Parts
      <4>3. Position(chunk, p) = i BY <4>1, <2>5 DEF Position
      <4> QED BY <4>2, <4>3, <2>1, <2>2, <2>4, <1>s
              DEF CellIsRight, Cell, IsOnDisk, Store!IsOnDisk, Position
    <3> QED BY <3>1, <3>2
  <2>8. UpToHere' BY <2>1, <2>4, <2>5, <2>6, <1>n, <1>s DEF UpToHere, Position
  <2> QED BY <2>7, <2>8
<1>3. CASE ReadsPart
  <2>1. chunk < file.chunks /\ IsOnDisk(chunk) /\ part \in Parts /\ ~AtEnd(chunk, part)
    BY <1>3, <1>0, <1>n, <1>t DEF ReadsPart, Placed, Parts
  <2>2. chunk \in FileChunks /\ chunk \in Chunks /\ (file.known \/ chunk = 0)
    BY <2>1, <1>f, <1>n
  <2>3. /\ hashed' = Append(hashed, Cell(chunk, part)) /\ chunk' = chunk /\ part' = part + 1
        /\ UNCHANGED <<disk, marked>>
    BY <1>3 DEF ReadsPart, Unmoved, storeVars
  <2>4. Len(hashed) + 1 = Position(chunk, part)
    BY <1>h, <1>n, <2>2 DEF UpToHere, Position
  <2>5. Len(hashed') = Len(hashed) + 1 /\ hashed'[Len(hashed) + 1] = Cell(chunk, part)
    BY <2>3, <1>t
  <2>6. ASSUME NEW i \in 1..Len(hashed') PROVE CellIsRight(i)'
    <3>1. CASE i \in 1..Len(hashed)
      <4>1. hashed'[i] = hashed[i] BY <3>1, <2>3, <1>t
      <4> QED BY <3>1, <4>1, <1>h, CellStays
    <3>2. CASE i = Len(hashed) + 1
      BY <3>2, <2>1, <2>2, <2>3, <2>4, <2>5, <1>s
         DEF CellIsRight, Cell, IsOnDisk, Store!IsOnDisk, Position
    <3> QED BY <3>1, <3>2, <2>5, <1>n
  <2>7. ~file.known => ~AtEnd(0, Len(hashed))'
    <3> SUFFICES ASSUME ~file.known PROVE ~AtEnd(0, Len(hashed))'
      OBVIOUS
    <3>1. chunk = 0 /\ Len(hashed') = part BY <2>2, <2>4, <2>5, <1>n DEF Position
    <3>2. PICK p \in Parts : p = part /\ ~AtEnd(0, p) BY <2>1, <3>1
    <3>3. ~AtEnd(0, p)' BY <3>2, <2>3, <1>s DEF AtEnd
    <3> QED BY <3>1, <3>2, <3>3 DEF AtEnd
  <2>8. UpToHere' BY <2>2, <2>3, <2>4, <2>5, <2>7, <1>n, <1>s DEF UpToHere, Position
  <2> QED BY <2>6, <2>8
<1>4. CASE EndsChunk
  <2>1. ~stopped /\ chunk < file.chunks /\ IsOnDisk(chunk)
    BY <1>4, <1>0, <1>p, ReadingNotComputed DEF EndsChunk, Placed
  <2>2. chunk' = chunk + 1 /\ part' = 1 /\ hashed' = hashed /\ UNCHANGED <<disk, marked>>
    BY <1>4 DEF EndsChunk, Unmoved, storeVars
  <2>3. file.known => part = NumParts + 1
    BY <1>4, <1>t, <1>n, <2>1 DEF EndsChunk, AtEnd
  <2>4. ~file.known => chunk = 0 /\ AtEnd(0, part)
    BY <1>4, <1>f, <1>n, <1>t, <2>1 DEF EndsChunk, AtEnd
  <2>5. \A i \in 1..Len(hashed') : CellIsRight(i)' BY <2>2, <1>h, CellStays
  <2>6. file.known => Len(hashed) = chunk * NumParts + NumParts
    BY <2>3, <1>h, <1>n DEF UpToHere, Position
  <2>7. ~file.known => Len(hashed) + 1 = part BY <2>4, <1>h, <1>n DEF UpToHere, Position
  <2>8. ~file.known => AtEnd(0, Len(hashed) + 1)'
    BY <2>2, <2>4, <2>7, <1>s DEF AtEnd
  <2>9. ~file.known /\ Len(hashed) > 0 => ~AtEnd(0, Len(hashed))'
    BY <2>2, <1>h, <1>s DEF AtEnd, UpToHere
  <2> QED BY <2>2, <2>4, <2>5, <2>6, <2>8, <2>9, <1>n, <1>s DEF UpToHere, Position
<1>5. \/ HashesView \/ ReadsPart \/ EndsChunk \/ UNCHANGED <<chunk, part, hashed>>
  BY DEF Next, ThreadStep, SeesChunk, EndsLoop, Verifies, Concludes, ThreadDies, Start,
         StopWriter, StopReturns, Finalize, VerifyFile, SetStop, WriterWorks, Finished, vars,
         hashVars
<1> QED BY <1>1, <1>2, <1>3, <1>4, <1>5

-------------------------------------------------------------------------------
\* How many parts were hashed when the digest is taken: all there are.
LEMMA DigestLength ==
  ASSUME Inv, computed
  PROVE  /\ chunk = file.chunks /\ part = 1
         /\ \A i \in 1..Len(hashed) : CellIsRight(i)
         /\ file.known => Len(hashed) = file.chunks * NumParts
         /\ ~file.known => /\ Len(hashed) \in 0..NumParts
                           /\ AtEnd(0, Len(hashed) + 1)
                           /\ Len(hashed) > 0 => ~AtEnd(0, Len(hashed))
<1>0. Typed /\ Placed /\ Faithful /\ Decided BY DEF Inv
<1>f. file.known \in BOOLEAN /\ file.chunks \in Nat \ {0} /\ (~file.known => file.chunks = 1)
  BY <1>0, FileShape
<1>n. /\ NumParts \in Nat \ {0} /\ chunk \in Nat /\ part \in Nat /\ Len(hashed) \in Nat
      /\ chunk * NumParts \in Nat
  BY <1>0, Products
<1>1. chunk = file.chunks BY <1>0 DEF Decided
<1>2. part = 1 BY <1>0, <1>1, <1>f, <1>n DEF Placed, Typed
<1>3. (\A i \in 1..Len(hashed) : CellIsRight(i)) /\ UpToHere BY <1>0 DEF Faithful
<1>4. file.known => Len(hashed) = file.chunks * NumParts
  BY <1>1, <1>2, <1>3, <1>f, <1>n DEF UpToHere, Position
<1>5. ~file.known => Len(hashed) \in 0..NumParts
  BY <1>0, <1>1, <1>2, <1>f, <1>n DEF Placed, Position
<1> QED BY <1>1, <1>2, <1>3, <1>4, <1>5, <1>f DEF UpToHere

\* The cells of the file lie in hashed at their positions.
LEMMA HashedCell ==
  ASSUME Inv, computed, NEW c \in FileChunks, NEW p \in Parts, Position(c, p) <= Len(hashed)
  PROVE  Position(c, p) \in 1..Len(hashed) /\ hashed[Position(c, p)] = Cell(c, p)
<1>0. Typed BY DEF Inv
<1>f. FileChunks \subseteq Chunks /\ FileChunks \subseteq Nat
  BY <1>0, FileShape DEF FileChunks
<1>n. NumParts \in Nat \ {0} /\ Len(hashed) \in Nat BY <1>0, Products
<1>1. c * NumParts \in Nat BY <1>f, <1>n
<1>2. Position(c, p) \in 1..Len(hashed) BY <1>1, <1>n DEF Position, Parts
<1>3. PICK i \in 1..Len(hashed) : i = Position(c, p) BY <1>2
<1>4. CellIsRight(i) BY DigestLength
<1>5. hashed[i].chunk = c /\ hashed[i].part = p
  <2>1. PICK d \in FileChunks, q \in Parts :
          d = hashed[i].chunk /\ q = hashed[i].part /\ Position(d, q) = i
    BY <1>4 DEF CellIsRight
  <2>2. c \in Nat /\ d \in Nat /\ Position(c, p) = Position(d, q) BY <1>3, <1>f, <2>1
  <2>3. c = d /\ p = q BY <2>2, PositionUnique
  <2> QED BY <2>1, <2>3
<1>6. hashed[i] \in CellSet BY <1>0 DEF Typed
<1>7. hashed[i].by = disk[c][p] BY <1>4, <1>5 DEF CellIsRight
<1> QED BY <1>2, <1>3, <1>5, <1>6, <1>7 DEF Cell, CellSet

\* Where the parts of a file of known and of unknown size are.
LEMMA FilePositions ==
  ASSUME Inv, NEW c \in FileChunks, NEW p \in Parts
  PROVE  /\ file.known => Position(c, p) <= file.chunks * NumParts
         /\ ~file.known => c = 0 /\ Position(c, p) = p
         /\ p \in 1..NumParts /\ Position(c, p) \in Nat
<1>0. Typed BY DEF Inv
<1>f. /\ file.known \in BOOLEAN /\ file.chunks \in Nat \ {0}
      /\ ~file.known => file.chunks = 1
      /\ c \in Nat /\ c < file.chunks
  BY <1>0, FileShape DEF FileChunks
<1>n. NumParts \in Nat \ {0} BY <1>0, Products
<1>1. /\ c * NumParts \in Nat /\ file.chunks * NumParts \in Nat
      /\ c * NumParts + NumParts <= file.chunks * NumParts
  BY <1>f, NextChunk, <1>n DEF Position
<1>2. ~file.known => c = 0 BY <1>f
<1> QED BY <1>1, <1>2, <1>n DEF Position, Parts

LEMMA DigestHolds == Inv => DigestIsOfTheFile
<1> SUFFICES ASSUME Inv, computed, NEW c \in FileChunks
             PROVE  /\ IsOnDisk(c)
                    /\ \A p \in Parts :
                         IF InFile(c, p)
                         THEN Position(c, p) <= Len(hashed) /\ hashed[Position(c, p)] = Cell(c, p)
                         ELSE Position(c, p) > Len(hashed)
  BY DEF DigestIsOfTheFile
<1>0. Typed /\ Placed BY DEF Inv
<1>f. file.known \in BOOLEAN /\ c < file.chunks BY <1>0, FileShape DEF FileChunks
<1>1. IsOnDisk(c) BY <1>0, <1>f, DigestLength DEF Placed
<1>2. ASSUME NEW p \in Parts PROVE InFile(c, p) <=> Position(c, p) <= Len(hashed)
  <2>1. CASE file.known BY <2>1, FilePositions, DigestLength DEF InFile
  <2>2. CASE ~file.known
    <3>1. c = 0 /\ Position(c, p) = p /\ p \in 1..NumParts BY <2>2, FilePositions
    <3>2. PICK n \in 0..NumParts : /\ n = Len(hashed) /\ AtEnd(0, n + 1)
                                   /\ n > 0 => ~AtEnd(0, n)
      BY <2>2, DigestLength
    <3>n. NumParts \in Nat BY <1>0, Products
    <3>3. CASE p <= n
      <4>1. ~AtEnd(0, n) BY <3>1, <3>2, <3>3
      <4>2. ~AtEnd(0, p) BY <4>1, <3>1, <3>2, <3>3, <3>n DEF AtEnd
      <4> QED BY <3>1, <3>2, <3>3, <4>2 DEF InFile
    <3>4. CASE p > n
      <4>1. AtEnd(0, p) BY <3>1, <3>2, <3>4, <3>n DEF AtEnd
      <4> QED BY <3>1, <3>2, <3>4, <4>1, <2>2 DEF InFile
    <3> QED BY <3>1, <3>2, <3>3, <3>4, <3>n
  <2> QED BY <2>1, <2>2, <1>f
<1>3. ASSUME NEW p \in Parts
      PROVE  IF InFile(c, p)
             THEN Position(c, p) <= Len(hashed) /\ hashed[Position(c, p)] = Cell(c, p)
             ELSE Position(c, p) > Len(hashed)
  <2>1. Len(hashed) \in Nat /\ Position(c, p) \in Nat BY <1>0, Products, FilePositions
  <2> QED BY <2>1, <1>2, HashedCell
<1> QED BY <1>1, <1>3

\* The division that recovers chunk and part from a position.
LEMMA PositionInverse ==
  ASSUME NEW c \in Nat, NEW p \in Parts
  PROVE  /\ (Position(c, p) - 1) \div NumParts = c
         /\ ((Position(c, p) - 1) % NumParts) + 1 = p
<1>1. NumParts \in Nat \ {0} BY StreamingHasherAssumption DEF StreamingHasherAssumption
<1>2. c * NumParts \in Nat BY <1>1
<1>3. PICK j \in Nat : j = Position(c, p) - 1 BY <1>1, <1>2 DEF Position, Parts
<1>4. PICK d \in Nat : d = j \div NumParts BY <1>1, <1>3
<1>5. PICK r \in 0..(NumParts - 1) : r = j % NumParts BY <1>1, <1>3
<1>6. j = d * NumParts + r BY <1>1, <1>4, <1>5
<1>7. r + 1 \in Parts BY <1>1, <1>5 DEF Parts
<1>8. Position(d, r + 1) = Position(c, p) BY <1>1, <1>2, <1>3, <1>5, <1>6 DEF Position, Parts
<1>9. d = c /\ r + 1 = p BY <1>7, <1>8, PositionUnique
<1> QED BY <1>3, <1>4, <1>5, <1>9

\* The whole file read at once is what was hashed part by part.
LEMMA ContentIsHashed ==
  ASSUME Inv, computed
  PROVE  Content = hashed
<1>0. Typed BY DEF Inv
<1>f. file.known \in BOOLEAN BY <1>0, FileShape
<1>n. NumParts \in Nat \ {0} /\ Len(hashed) \in Nat BY <1>0, Products
<1> DEFINE size == IF file.known THEN file.chunks * NumParts
                   ELSE CHOOSE n \in 0..NumParts : AtEnd(0, n + 1) /\ (n > 0 => ~AtEnd(0, n))
<1>1. size = Len(hashed)
  <2>1. CASE file.known BY <2>1, DigestLength
  <2>2. CASE ~file.known
    <3>1. PICK m \in 0..NumParts : m = Len(hashed) /\ AtEnd(0, m + 1) /\ (m > 0 => ~AtEnd(0, m))
      BY <2>2, DigestLength
    <3>2. PICK n \in 0..NumParts : n = size /\ AtEnd(0, n + 1) /\ (n > 0 => ~AtEnd(0, n))
      BY <2>2, <3>1
    <3>3. n = m BY <3>1, <3>2, <2>2, <1>n, SMTT(20) DEF AtEnd
    <3> QED BY <3>1, <3>2, <3>3
  <2> QED BY <2>1, <2>2, <1>f
<1>2. ASSUME NEW i \in 1..Len(hashed)
      PROVE  hashed[i] = Cell((i - 1) \div NumParts, ((i - 1) % NumParts) + 1)
  <2>1. CellIsRight(i) BY DigestLength
  <2>2. PICK d \in FileChunks, q \in Parts :
          d = hashed[i].chunk /\ q = hashed[i].part /\ Position(d, q) = i
    BY <2>1 DEF CellIsRight
  <2>3. d \in Nat BY <1>0, FileShape DEF FileChunks
  <2>4. (i - 1) \div NumParts = d /\ ((i - 1) % NumParts) + 1 = q
    BY <2>2, <2>3, PositionInverse
  <2>5. Position(d, q) <= Len(hashed) BY <2>2
  <2>6. hashed[i] = Cell(d, q) BY <2>2, <2>5, HashedCell
  <2> QED BY <2>4, <2>6
<1>3. Content = [i \in 1..size |-> Cell((i - 1) \div NumParts, ((i - 1) % NumParts) + 1)]
  BY DEF Content
<1>4. hashed = [i \in 1..Len(hashed) |-> hashed[i]] BY <1>0 DEF Typed
<1> HIDE DEF size
<1> QED BY <1>1, <1>2, <1>3, <1>4

LEMMA DecidedStep == Inv /\ [Next]_vars => Decided'
<1> SUFFICES ASSUME Inv, [Next]_vars PROVE Decided'
  OBVIOUS
<1>0. Typed /\ Placed /\ Decided BY DEF Inv
<1>s. /\ file' = file /\ wanted' = wanted /\ (Verdict(hashed)' = Verdict(hashed'))
  BY Stays DEF Verdict, Matches, Position
<1>1. ASSUME thread \in {"look", "view", "read", "end"}
      PROVE  ~computed /\ owner \notin {"joined", "finalized"} /\ answer = "none" /\ recheck = "none"
  BY <1>0, <1>1 DEF Decided
<1>2. CASE SeesChunk \/ HashesView \/ ReadsPart \/ EndsChunk \/ EndsLoop
  <2>1. /\ thread \in {"look", "view", "read", "end"}
        /\ thread' \in {"look", "view", "read", "end"}
        /\ computed' = computed /\ verified' = verified
        /\ UNCHANGED ownerVars
    BY <1>2 DEF SeesChunk, HashesView, ReadsPart, EndsChunk, EndsLoop, Unmoved
  <2> QED BY <2>1, <1>0, <1>1 DEF Decided, ownerVars
<1>3. CASE Verifies
  <2>1. /\ thread = "end" /\ thread' = "done"
        /\ chunk' = chunk /\ hashed' = hashed /\ stopped' = stopped
        /\ UNCHANGED ownerVars
    BY <1>3 DEF Verifies, Concludes, Unmoved
  <2>2. ~computed /\ owner \notin {"joined", "finalized"} /\ answer = "none" /\ recheck = "none"
    BY <1>1, <2>1
  <2>3. CASE chunk = file.chunks /\ ~stopped
    <3>1. computed' = TRUE /\ verified' = Verdict(hashed)
      BY <1>3, <2>3 DEF Verifies, Concludes
    <3> QED BY <2>1, <2>2, <2>3, <3>1, <1>0, <1>s DEF Decided, ownerVars
  <2>4. CASE ~(chunk = file.chunks /\ ~stopped)
    <3>1. computed' = computed /\ verified' = verified
      BY <1>3, <2>4 DEF Verifies, Concludes
    <3>2. stopped' BY <2>1, <2>4, <1>0 DEF Placed
    <3> QED BY <2>1, <2>2, <3>1, <3>2, <1>0 DEF Decided, ownerVars
  <2> QED BY <2>3, <2>4
<1>4. CASE ThreadDies
  <2>1. /\ thread \in {"look", "read"} /\ thread' = "done" /\ failed'
        /\ computed' = computed /\ verified' = verified
        /\ UNCHANGED ownerVars
    BY <1>4 DEF ThreadDies, Unmoved
  <2> QED BY <2>1, <1>0, <1>1 DEF Decided, ownerVars
<1>5. CASE Start
  <2>1. /\ owner = "start" /\ owner' = "run" /\ thread' \in {"idle", "look"}
        /\ UNCHANGED <<computed, verified, answer, recheck>>
    BY <1>5 DEF Start
  <2>2. thread = "idle" BY <2>1, <1>0 DEF Placed
  <2> QED BY <2>1, <2>2, <1>0 DEF Decided
<1>6. CASE StopWriter \/ StopReturns
  <2>1. /\ owner \in {"run", "stop"}
        /\ owner' \in {"raised", "stop", "joined"}
        /\ owner' = "joined" => thread \in {"idle", "done"}
        /\ UNCHANGED <<hashVars, answer, recheck, failed, stopped>>
    BY <1>6 DEF StopWriter, StopReturns
  <2> QED BY <2>1, <1>0, <1>s DEF Decided, hashVars
<1>7. CASE Finalize
  <2>1. /\ owner = "joined" /\ owner' = "finalized"
        /\ answer' = IF wanted = "none" THEN "true"
                     ELSE IF verified = "none" THEN "incomplete" ELSE verified
        /\ UNCHANGED <<hashVars, recheck, failed, stopped>>
    BY <1>7 DEF Finalize
  <2>2. recheck = "none" /\ thread \in {"idle", "done"} BY <2>1, <1>0 DEF Decided
  <2> QED BY <2>1, <2>2, <1>0, <1>s DEF Decided, hashVars
<1>8. CASE VerifyFile
  <2>1. /\ owner = "finalized" /\ recheck' = Verdict(Content)
        /\ UNCHANGED <<hashVars, owner, answer, failed, stopped>>
    BY <1>8 DEF VerifyFile
  <2>2. computed => recheck' = verified
    <3>1. ASSUME computed PROVE Verdict(Content) = Verdict(hashed)
      BY <3>1, ContentIsHashed
    <3> QED BY <2>1, <3>1, <1>0 DEF Decided
  <2> QED BY <2>1, <2>2, <1>0, <1>s DEF Decided, hashVars
<1>9. CASE SetStop \/ WriterWorks \/ UNCHANGED vars
  <2>1. UNCHANGED <<hashVars, ownerVars, failed>> /\ (stopped => stopped')
    BY <1>9 DEF SetStop, WriterWorks, vars
  <2> QED BY <2>1, <1>0, <1>s DEF Decided, hashVars, ownerVars
<1> QED BY <1>2, <1>3, <1>4, <1>5, <1>6, <1>7, <1>8, <1>9 DEF Next, ThreadStep, Finished

-------------------------------------------------------------------------------
\* The invariant is inductive.
LEMMA Invariant == Spec => []Inv
<1>1. Inv /\ [Next]_vars => Inv' BY TypedStep, PlacedStep, FaithfulStep, DecidedStep DEF Inv
<1> QED BY InvInit, <1>1, PTL DEF Spec

LEMMA TypeHolds == Inv => TypeOK
<1> SUFFICES ASSUME Inv PROVE TypeOK
  OBVIOUS
<1>0. Typed /\ Placed BY DEF Inv
<1>f. file.chunks \in Nat \ {0} BY <1>0, FileShape
<1>n. /\ NumParts \in Nat \ {0} /\ chunk \in 0..file.chunks /\ part \in 1..(NumParts + 1)
      /\ Len(hashed) \in Nat /\ chunk * NumParts \in Nat
  BY <1>0, Products DEF Typed
<1>1. Len(hashed) <= file.chunks * NumParts
  <2>1. CASE chunk = file.chunks
    <3>1. part = 1 BY <2>1, <1>0, <1>n, <1>f DEF Placed
    <3> QED BY <2>1, <3>1, <1>0, <1>n DEF Placed, Position
  <2>2. CASE chunk # file.chunks
    <3>1. chunk \in Nat /\ file.chunks \in Nat /\ chunk < file.chunks BY <2>2, <1>n, <1>f
    <3>2. /\ file.chunks * NumParts \in Nat
          /\ chunk * NumParts + NumParts <= file.chunks * NumParts
      BY <3>1, <1>n, NextChunk DEF Position
    <3> QED BY <3>2, <1>0, <1>n DEF Placed, Position
  <2> QED BY <2>1, <2>2
<1> QED BY <1>0, <1>1 DEF Typed, TypeOK, CellSet

\* Every variable keeps to its type, and no part of the file is hashed twice (_hash_loop).
THEOREM TypeCorrect == Spec => []TypeOK
BY Invariant, TypeHolds, PTL

\* The streamed digest is that of the finished file, for files of any size, also while the
\* writer goes on, a view is hashed in one call or the stop event comes (_hash_loop).
THEOREM StreamedIsWhole == Spec => []DigestIsOfTheFile
BY Invariant, DigestHolds, PTL

\* What the digest stands for: it matches exactly if the file is the right one.
LEMMA DigestTells ==
  ASSUME Inv, computed
  PROVE  Matches(hashed) <=> FileIsRight
<1>0. Typed BY DEF Inv
<1>f. file.known \in BOOLEAN /\ FileChunks \subseteq Nat /\ file.len \in Nat
  BY <1>0, FileShape DEF FileChunks
<1>n. NumParts \in Nat \ {0} /\ Len(hashed) \in Nat BY <1>0, Products
<1>h. Hole \notin Good /\ Good \subseteq Origins
  BY StreamingHasherAssumption DEF StreamingHasherAssumption, Origins
<1>1. \A i \in 1..Len(hashed) : CellIsRight(i) BY DigestLength
<1>2. ASSUME Matches(hashed), NEW c \in FileChunks, NEW p \in Parts
      PROVE  IF Position(c, p) <= file.len THEN disk[c][p] \in Good ELSE AtEnd(c, p)
  <2>0. Len(hashed) = file.len /\ Position(c, p) \in Nat BY <1>2, FilePositions DEF Matches
  <2>1. CASE Position(c, p) <= file.len
    <3>1. /\ Position(c, p) \in 1..Len(hashed)
          /\ hashed[Position(c, p)] = Cell(c, p)
      BY <2>0, <2>1, HashedCell
    <3>2. hashed[Position(c, p)].by \in Good BY <3>1, <1>2 DEF Matches
    <3> QED BY <2>1, <3>1, <3>2 DEF Cell
  <2>2. CASE Position(c, p) > file.len
    <3>1. ~file.known BY <2>2, <2>0, <1>f, FilePositions, DigestLength
    <3>2. c = 0 /\ Position(c, p) = p /\ p \in 1..NumParts BY <3>1, FilePositions
    <3>3. AtEnd(0, Len(hashed) + 1) BY <3>1, DigestLength
    <3>4. AtEnd(0, p) BY <3>2, <3>3, <2>0, <2>2, <1>n, <1>f DEF AtEnd
    <3> QED BY <2>2, <2>0, <1>f, <3>2, <3>4
  <2> QED BY <2>0, <2>1, <2>2, <1>f
<1>3. ASSUME FileIsRight PROVE Matches(hashed)
  <2>1. Len(hashed) = file.len
    <3>1. CASE file.known BY <3>1, <1>0, FileShape, DigestLength
    <3>2. CASE ~file.known
      <4>1. PICK m \in 0..NumParts : m = Len(hashed) /\ AtEnd(0, m + 1) /\ (m > 0 => ~AtEnd(0, m))
        BY <3>2, DigestLength
      <4>2. file.len \in 1..NumParts
        BY <3>2, <1>0, <1>n, StreamingHasherAssumption
           DEF Typed, Files, StreamingHasherAssumption
      <4>3. 0 \in FileChunks BY <3>2, <1>0, FileShape DEF FileChunks
      <4>4. \A p \in Parts : Position(0, p) = p BY <3>2, <4>3, FilePositions
      <4>5. \A p \in Parts : IF p <= file.len THEN disk[0][p] \in Good ELSE AtEnd(0, p)
        BY <1>3, <4>3, <4>4 DEF FileIsRight
      <4>6. ~(m < file.len)
        <5> SUFFICES ASSUME m < file.len PROVE FALSE
          OBVIOUS
        <5>1. file.len \in Parts /\ disk[0][file.len] \in Good BY <4>2, <4>5, <1>n DEF Parts
        <5>2. disk[0][file.len] = Hole BY <4>1, <4>2, <1>n DEF AtEnd
        <5> QED BY <5>1, <5>2, <1>h
      <4>7. ~(m > file.len)
        <5> SUFFICES ASSUME m > file.len PROVE FALSE
          OBVIOUS
        <5>1. m \in Parts /\ ~AtEnd(0, m) BY <4>1, <4>2, <1>n DEF Parts
        <5> QED BY <5>1, <4>2, <4>5, <1>n
      <4> QED BY <4>1, <4>2, <4>6, <4>7, <1>n
    <3> QED BY <3>1, <3>2, <1>f
  <2>2. ASSUME NEW i \in 1..Len(hashed)
        PROVE  Position(hashed[i].chunk, hashed[i].part) = i /\ hashed[i].by \in Good
    <3>1. PICK c \in FileChunks, p \in Parts :
            /\ c = hashed[i].chunk /\ p = hashed[i].part /\ Position(c, p) = i
            /\ hashed[i].by = disk[c][p]
      BY <1>1 DEF CellIsRight
    <3>2. disk[c][p] \in Good BY <1>3, <2>1, <3>1 DEF FileIsRight
    <3> QED BY <3>1, <3>2
  <2> QED BY <2>1, <2>2 DEF Matches
<1> QED BY <1>2, <1>3 DEF FileIsRight

\* The answers that finalize() can give.
LEMMA AnswersHold == Inv => AnswerIsRight /\ IncompleteHasAReason /\ SecondOpinionAgrees
<1> SUFFICES ASSUME Inv PROVE AnswerIsRight /\ IncompleteHasAReason /\ SecondOpinionAgrees
  OBVIOUS
<1>0. Typed /\ Placed /\ Decided BY DEF Inv
<1>1. ASSUME wanted # "none", answer \in {"true", "false"}
      PROVE  computed /\ answer = verified /\ verified = Verdict(hashed)
  BY <1>0, <1>1 DEF Decided, Typed
<1>2. AnswerIsRight
  <2> SUFFICES ASSUME wanted = "verify"
               PROVE  (answer = "true" => FileIsRight) /\ (answer = "false" => ~FileIsRight)
    BY DEF AnswerIsRight
  <2>1. ASSUME answer = "true" PROVE FileIsRight
    <3>1. computed /\ Matches(hashed) BY <2>1, <1>1 DEF Verdict
    <3> QED BY <3>1, DigestTells
  <2>2. ASSUME answer = "false" PROVE ~FileIsRight
    <3>1. computed /\ ~Matches(hashed) BY <2>2, <1>1 DEF Verdict
    <3> QED BY <3>1, DigestTells
  <2> QED BY <2>1, <2>2
<1>3. IncompleteHasAReason
  <2> SUFFICES ASSUME answer = "incomplete" PROVE stopped \/ failed
    BY DEF IncompleteHasAReason
  <2>1. owner = "finalized" /\ wanted # "none" /\ verified = "none"
    BY <1>0 DEF Decided, Typed
  <2>2. thread = "done" BY <2>1, <1>0 DEF Decided, Placed
  <2>3. ~computed BY <2>1, <1>0 DEF Decided, Verdict
  <2> QED BY <2>2, <2>3, <1>0 DEF Decided
<1>4. SecondOpinionAgrees BY <1>0, <1>1 DEF SecondOpinionAgrees, Decided
<1> QED BY <1>2, <1>3, <1>4

\* finalize() says neither yes to a wrong file nor no to a right one (_verify_hash).
THEOREM NoFalseAnswer == Spec => []AnswerIsRight
BY Invariant, AnswersHold, PTL

\* Without a stop and without an error the digest is always taken (_hash_loop).
THEOREM IncompleteIsExplained == Spec => []IncompleteHasAReason
BY Invariant, AnswersHold, PTL

\* Reading the finished file from end to end gives the verdict of the streamed digest
\* (verify_file).
THEOREM VerdictsAgree == Spec => []SecondOpinionAgrees
BY Invariant, AnswersHold, PTL
================================================================================
