---------------------------- MODULE StreamingHasher ----------------------------
(***************************************************************************)
(* The background hasher (hasher.py) over a disk writer.                   *)
(*                                                                         *)
(* A thread reads the chunks of the destination file in order, each one    *)
(* as soon as is_on_disk reports it, while the writer goes on writing the  *)
(* others.  The writer is a ChunkStore: the hasher sees of it is_on_disk   *)
(* and the file.  A memory-mapped writer also offers the chunk as a view   *)
(* of its mapping, which is hashed in one call.  The thread-level stop     *)
(* event may be set at any time: the thread then breaks off, in the middle *)
(* of a chunk too, unless it is in such a call.  The owner (start()) stops *)
(* the writer, then calls stop(), which waits for the thread, and          *)
(* finalize(); afterwards somebody may verify the file with verify_file(). *)
(***************************************************************************)
EXTENDS Naturals, Sequences

CONSTANTS
  MaxChunks,    \* the most chunks a file is cut into
  NumParts,     \* reads of a full chunk; a part is what one read returns
  Tasks,        \* who may write a part
  Earlier,      \* the origin of what an earlier session wrote
  Hole,         \* what reading a part nobody wrote returns
  Good,         \* the origins whose content is that of the checksum
  Wants,        \* the kinds of hash_spec: "none", "compute" (no digest expected), "verify"
  DiskMayFail   \* open and read may raise OSError

Chunks  == 0..(MaxChunks - 1)
Parts   == 1..NumParts
Origins == Tasks \cup {Earlier}

ASSUME StreamingHasherAssumption ==
  /\ MaxChunks \in Nat \ {0}
  /\ NumParts \in Nat \ {0}
  /\ DiskMayFail \in BOOLEAN
  /\ Earlier \notin Tasks
  /\ Hole \notin Tasks \cup {Earlier}
  /\ Good \subseteq Tasks \cup {Earlier}
  /\ Wants \subseteq {"none", "compute", "verify"}

\* What the session was told of its file.  A file of unknown size is one chunk, of which
\* the file of the checksum (len parts) may fill less; it is never mapped (init_writer).
Files ==
  {f \in [known : BOOLEAN, chunks : 1..MaxChunks, len : 1..(MaxChunks * NumParts),
          mapped : BOOLEAN] :
     IF f.known THEN f.len = f.chunks * NumParts
     ELSE f.chunks = 1 /\ f.len <= NumParts /\ ~f.mapped}

VARIABLES
  file,       \* total_size, _total_chunks and the kind of writer, chosen once
  wanted,     \* hash_spec, chosen once
  disk,       \* the content of the file
  marked,     \* what the writer reports
  mapping,    \* the writer's mapping is open
  stopped,    \* the thread-level stop event
  thread,     \* where the hashing thread is
  chunk,      \* current_chunk
  part,       \* the next part of it to read
  hashed,     \* what _hash_obj has been fed
  verified,   \* _verified, "none" for None
  computed,   \* _computed_hash is set
  owner,      \* what the owner has called
  answer,     \* what finalize() returned or raised
  recheck,    \* what verify_file() returned
  failed      \* open or read has raised

chosen    == <<file, wanted>>
storeVars == <<disk, marked>>
hashVars  == <<thread, chunk, part, hashed, verified, computed>>
ownerVars == <<owner, answer, recheck>>
vars      == <<chosen, storeVars, mapping, stopped, hashVars, ownerVars, failed>>

Store == INSTANCE ChunkStore WITH
           Chunks <- Chunks, NumParts <- NumParts, Tasks <- Tasks, Earlier <- Earlier,
           Hole <- Hole, disk <- disk, marked <- marked, known <- file.known

IsOnDisk(c) == Store!IsOnDisk(c)
Position(c, p) == c * NumParts + p
Cell(c, p) == [chunk |-> c, part |-> p, by |-> disk[c][p]]
FileChunks == 0..(file.chunks - 1)

\* The read returns nothing: the file ends here.
AtEnd(c, p) == ~file.known /\ \A q \in p..NumParts : disk[c][q] = Hole

\* The cells of the file as it is now, as far as the file reaches.
InFile(c, p) == file.known \/ ~AtEnd(c, p)

\* The digest is the one of the checksum: everything was read, in order, from a source
\* that has the right content.
Matches(s) ==
  /\ Len(s) = file.len
  /\ \A i \in 1..Len(s) : Position(s[i].chunk, s[i].part) = i /\ s[i].by \in Good

Init ==
  /\ file \in Files /\ wanted \in Wants
  /\ Store!Init
  /\ \A c \in Chunks : IsOnDisk(c) => c \in FileChunks
  /\ mapping = file.mapped
  /\ stopped = FALSE
  /\ thread = "idle" /\ chunk = 0 /\ part = 1
  /\ hashed = <<>>
  /\ verified = "none" /\ computed = FALSE
  /\ owner = "start" /\ answer = "none" /\ recheck = "none"
  /\ failed = FALSE

-------------------------------------------------------------------------------
\* The thread.

Unmoved == UNCHANGED <<chosen, storeVars, mapping, stopped, ownerVars>>

\* Slip: the chunk is read before it is reported.
SeesChunkEarly ==
  /\ thread = "look"
  /\ chunk < file.chunks /\ ~stopped
  /\ thread' = IF mapping THEN "view" ELSE "read"
  /\ UNCHANGED <<chunk, part, hashed, verified, computed, failed>> /\ Unmoved

\* Otherwise the thread waits for the condition, one second at most, and looks again.
\* read_chunk answers None once the mapping is closed: the chunk is read from the file.
SeesChunk ==
  /\ thread = "look"
  /\ chunk < file.chunks /\ ~stopped
  /\ IsOnDisk(chunk)
  /\ thread' = IF mapping THEN "view" ELSE "read"
  /\ UNCHANGED <<chunk, part, hashed, verified, computed, failed>> /\ Unmoved

\* Slip: the view is hashed and the chunk then read all the same.
HashesViewTwice ==
  /\ thread = "view"
  /\ hashed' = hashed \o [p \in Parts |-> Cell(chunk, p)]
  /\ thread' = "read"
  /\ UNCHANGED <<chunk, part, verified, computed, failed>> /\ Unmoved

\* One update() with the whole chunk; the view is released when it is over.
HashesView ==
  /\ thread = "view"
  /\ hashed' = hashed \o [p \in Parts |-> Cell(chunk, p)]
  /\ thread' = "look" /\ chunk' = chunk + 1
  /\ UNCHANGED <<part, verified, computed, failed>> /\ Unmoved

ReadsPart ==
  /\ thread = "read"
  /\ part <= NumParts /\ ~stopped /\ ~AtEnd(chunk, part)
  /\ hashed' = Append(hashed, Cell(chunk, part))
  /\ part' = part + 1
  /\ UNCHANGED <<thread, chunk, verified, computed, failed>> /\ Unmoved

\* Slip: the chunk is hashed again.
EndsChunkAgain ==
  /\ thread = "read"
  /\ part > NumParts \/ stopped \/ AtEnd(chunk, part)
  /\ thread' = "look" /\ part' = 1
  /\ UNCHANGED <<chunk, hashed, verified, computed, failed>> /\ Unmoved

\* The chunk has been read, or the reading broken off: on to the next one all the same.
EndsChunk ==
  /\ thread = "read"
  /\ part > NumParts \/ stopped \/ AtEnd(chunk, part)
  /\ thread' = "look" /\ part' = 1
  /\ chunk' = chunk + 1
  /\ UNCHANGED <<hashed, verified, computed, failed>> /\ Unmoved

\* Slip: the wait for a chunk does not look at the stop event.
EndsLoopOnlyAtEnd ==
  /\ thread = "look"
  /\ chunk = file.chunks
  /\ thread' = "end"
  /\ UNCHANGED <<chunk, part, hashed, verified, computed, failed>> /\ Unmoved

EndsLoop ==
  /\ thread = "look"
  /\ chunk = file.chunks \/ stopped
  /\ thread' = "end"
  /\ UNCHANGED <<chunk, part, hashed, verified, computed, failed>> /\ Unmoved

\* _verify_hash
Verdict(s) == IF wanted = "compute" \/ Matches(s) THEN "true" ELSE "false"

Concludes(finished) ==
  /\ thread = "end"
  /\ thread' = "done"
  /\ IF finished
     THEN computed' = TRUE /\ verified' = Verdict(hashed)
     ELSE UNCHANGED <<computed, verified>>
  /\ UNCHANGED <<chunk, part, hashed, failed>> /\ Unmoved

\* Slip: the digest is taken although the stop event is set.
VerifiesAnyway == Concludes(chunk = file.chunks)

\* Slip: a mismatch leaves no verdict.
VerifiesOnlyMatches == Concludes(chunk = file.chunks /\ ~stopped /\ Matches(hashed))

Verifies == Concludes(chunk = file.chunks /\ ~stopped)

\* An exception ends the thread.
ThreadDies ==
  /\ DiskMayFail
  /\ thread \in {"look", "read"}
  /\ thread' = "done"
  /\ failed' = TRUE
  /\ UNCHANGED <<chunk, part, hashed, verified, computed>> /\ Unmoved

-------------------------------------------------------------------------------
\* The owner, and everybody who may set the stop event: user, writer, owner.

Start ==
  /\ owner = "start"
  /\ owner' = "run"
  /\ thread' = IF wanted = "none" THEN "idle" ELSE "look"
  /\ UNCHANGED <<chosen, storeVars, mapping, stopped, chunk, part, hashed, verified, computed,
                 answer, recheck, failed>>

\* writer.stop().  A mapping of which the thread holds a view cannot be closed: the
\* BufferError leaves start(), and neither stop() nor finalize() is called.
StopWriter ==
  /\ owner = "run"
  /\ IF thread = "view"
     THEN owner' = "raised" /\ UNCHANGED mapping
     ELSE owner' = "stop" /\ mapping' = FALSE
  /\ UNCHANGED <<chosen, storeVars, stopped, hashVars, answer, recheck, failed>>

StopReturns ==
  /\ owner = "stop"
  /\ thread \in {"idle", "done"}
  /\ owner' = "joined"
  /\ UNCHANGED <<chosen, storeVars, mapping, stopped, hashVars, answer, recheck, failed>>

Finalize ==
  /\ owner = "joined"
  /\ owner' = "finalized"
  /\ answer' = IF wanted = "none" THEN "true"
               ELSE IF verified = "none" THEN "incomplete" ELSE verified
  /\ UNCHANGED <<chosen, storeVars, mapping, stopped, hashVars, recheck, failed>>

\* The whole file from its start to its end, whatever was reported.
Content ==
  LET size == IF file.known THEN file.chunks * NumParts
              ELSE CHOOSE n \in 0..NumParts : AtEnd(0, n + 1) /\ (n > 0 => ~AtEnd(0, n))
  IN  [i \in 1..size |-> Cell((i - 1) \div NumParts, ((i - 1) % NumParts) + 1)]

\* Slip: the last part of the file is left out.
VerifyFileShort ==
  /\ owner = "finalized" /\ recheck = "none" /\ wanted # "none"
  /\ recheck' = Verdict(SubSeq(Content, 1, Len(Content) - 1))
  /\ UNCHANGED <<chosen, storeVars, mapping, stopped, hashVars, owner, answer, failed>>

VerifyFile ==
  /\ owner = "finalized" /\ recheck = "none" /\ wanted # "none"
  /\ recheck' = Verdict(Content)
  /\ UNCHANGED <<chosen, storeVars, mapping, stopped, hashVars, owner, answer, failed>>

SetStop ==
  /\ owner # "start" /\ ~stopped
  /\ stopped' = TRUE
  /\ UNCHANGED <<chosen, storeVars, mapping, hashVars, ownerVars, failed>>

\* A memory-mapped writer that has been stopped writes no more.
WriterWorks ==
  /\ file.mapped => mapping
  /\ UNCHANGED <<chosen, mapping, stopped, hashVars, ownerVars, failed>>
  /\ \E c \in FileChunks : Store!StepOf(c)

-------------------------------------------------------------------------------
\* The session is over; the thread of a stop() that has returned is no more.
Finished == owner \in {"finalized", "raised"} /\ UNCHANGED vars

ThreadStep == SeesChunk \/ HashesView \/ ReadsPart \/ EndsChunk \/ EndsLoop \/ Verifies

Next ==
  \/ ThreadStep \/ ThreadDies
  \/ Start \/ StopWriter \/ StopReturns \/ Finalize \/ VerifyFile \/ SetStop
  \/ WriterWorks
  \/ Finished

Spec == Init /\ [][Next]_vars

\* The thread and the owner are scheduled; stop() need not be called, and the writer
\* promises nothing here.
FairSpec == Spec /\ WF_vars(ThreadStep) /\ WF_vars(StopReturns) /\ WF_vars(Finalize)

-------------------------------------------------------------------------------
\* Every variable keeps to its type; no part of the file is hashed twice.
TypeOK ==
  /\ file \in Files /\ wanted \in Wants
  /\ disk \in [Chunks -> [Parts -> Origins \cup {Hole}]]
  /\ marked \subseteq Store!Marks
  /\ mapping \in BOOLEAN /\ stopped \in BOOLEAN
  /\ failed \in BOOLEAN /\ computed \in BOOLEAN
  /\ thread \in {"idle", "look", "view", "read", "end", "done"}
  /\ chunk \in 0..file.chunks
  /\ part \in 1..(NumParts + 1)
  /\ hashed \in Seq([chunk : Chunks, part : Parts, by : Origins \cup {Hole}])
  /\ Len(hashed) <= file.chunks * NumParts
  /\ verified \in {"none", "true", "false"}
  /\ owner \in {"start", "run", "stop", "joined", "finalized", "raised"}
  /\ answer \in {"none", "true", "false", "incomplete"}
  /\ recheck \in {"none", "true", "false"}

\* The streamed digest is the digest of the finished file: when it is taken, and ever
\* after, every chunk is on disk and what was hashed, chunk by chunk while other chunks
\* were still being written, is the whole content of the file in order.
DigestIsOfTheFile ==
  computed =>
    \A c \in FileChunks :
      /\ IsOnDisk(c)
      /\ \A p \in Parts :
           IF InFile(c, p)
           THEN Position(c, p) <= Len(hashed) /\ hashed[Position(c, p)] = Cell(c, p)
           ELSE Position(c, p) > Len(hashed)

\* The file on disk is the one of the checksum.
FileIsRight ==
  \A c \in FileChunks : \A p \in Parts :
    IF Position(c, p) <= file.len THEN disk[c][p] \in Good ELSE AtEnd(c, p)

\* finalize() says neither yes to a wrong file nor no to a right one, whenever the stop
\* event came (finalize, _verify_hash).
AnswerIsRight ==
  wanted = "verify" =>
    /\ answer = "true" => FileIsRight
    /\ answer = "false" => ~FileIsRight

\* IncompleteHashError is raised only after a stop or a failure to read.
IncompleteHasAReason == answer = "incomplete" => stopped \/ failed

\* verify_file, which reads the file from end to end, comes to the verdict that the
\* streaming hasher came to chunk by chunk (verify_file, finalize).
SecondOpinionAgrees ==
  wanted # "none" /\ answer \in {"true", "false"} /\ recheck # "none" => recheck = answer

\* stop() returns once all chunks are on disk or the stop event is set: the thread does
\* not sleep through either.
StopIsAnswered ==
  owner = "stop" /\ (stopped \/ \A c \in FileChunks : IsOnDisk(c)) ~> owner = "finalized"
================================================================================
