--------------------------- MODULE FetcherInvariant ---------------------------
(***************************************************************************)
(* The inductive invariants behind the safety properties of Fetcher.       *)
(*                                                                         *)
(* The file: whatever has come of a chunk lies in a row without a gap,     *)
(* part of it in the file, part in the buffer, the rest in the piece; the  *)
(* windows a fetch has written begin with the units it received for them.  *)
(* Behind these may lie the end of what an earlier attempt wrote.          *)
(*                                                                         *)
(* The parts of the invariant are predicates on one fetch and on one chunk *)
(* of the file (a row of windows), under setting s.                        *)
(***************************************************************************)
EXTENDS Fetcher

Fetch ==
  [at : Places, chunk : Chunks, expected : Nat, from : Nat, upto : Nat,
   piece : Seq(Nat), buffer : Seq(Nat), written : Nat, net : Nat]

Cell == [by : Tasks \cup {Hole}, units : Seq(Nat)]

\* The first n units in q, and all of them, are those of the file from unit i on.
Begins(q, i, n) == n <= Len(q) /\ \A j \in 1..n : q[j] = i + j - 1
Holds(q, i) == \A j \in 1..Len(q) : q[j] = i + j - 1

\* The units of chunk c, the most of any chunk, the unit that t receives first, and how many
\* of n units in a row lie in window p.
Base(s, c) == c * s.chunk
Room(s, c) == IF s.told = 0 THEN s.size ELSE Least(s.chunk, s.size - Base(s, c))
Most(s) == NumParts * s.window
Origin(s, t, c) == IF s.ranges /\ s.kind[s.source[t]] # "plain" THEN Base(s, c) ELSE 0
Before(s, p) == (p - 1) * s.window
Part(s, n, p) == IF n <= Before(s, p) THEN 0 ELSE Least(s.window, n - Before(s, p))

InFile(s, c) == Base(s, c) < s.size /\ (s.told = 0 => c = 0)

\* Every window of a chunk begins with the first unit its writer received for it.
Row(s, c, row) ==
  \A p \in Parts :
    /\ Len(row[p].units) <= Part(s, Room(s, c), p)
    /\ row[p].units # <<>> => row[p].units[1] = Origin(s, row[p].by, c) + Before(s, p)

\* The first n units of chunk c have been written by t.
Stored(s, t, c, n, row) ==
  \A p \in Parts : Before(s, p) < n =>
    row[p].by = t /\ Begins(row[p].units, Origin(s, t, c) + Before(s, p), Part(s, n, p))

\* Nothing lies behind the n units of a row in the last window they reach into, and nothing
\* anywhere.
Snug(s, n, row) == \A p \in Parts : Before(s, p) < n => Len(row[p].units) = Part(s, n, p)
Sealed(s, n, row) == \A p \in Parts : Len(row[p].units) = Part(s, n, p)

\* The fetch asks for less than the file (Crops).
Short(s, k) == s.told = 0 /\ s.chunk < s.size /\ k.expected = s.chunk

\* The most that fetch k may collect; total is what it knows of the length.
Aim(s, k, total) == IF total = 0 THEN Room(s, k.chunk) ELSE k.expected

\* What fetch k of t has collected, and where it is in its response.
Collected(s, t, k, total) ==
  LET got == Reported(k)
      aim == Aim(s, k, total)
      begin == Origin(s, t, k.chunk)
  IN  /\ Holds(k.buffer, begin + k.written)
      /\ Holds(k.piece, begin + got)
      /\ Len(k.buffer) <= s.window /\ Len(k.piece) <= MaxPiece
      /\ got <= aim
      /\ IF total = 0 THEN k.expected = 0 ELSE k.expected = Room(s, k.chunk) \/ Short(s, k)
      /\ k.at \in {"open", "body", "finish", "cut", "mark"} => k.piece = <<>>
      /\ k.at = "open" => got = 0
      /\ k.at = "body" => k.from = begin + got
      /\ k.at = "throttled" => k.from = begin + got + Len(k.piece)
      /\ k.at \in {"copy", "check", "slow"} =>
           /\ got + Len(k.piece) <= aim
           /\ \/ k.from = begin + got + Len(k.piece)
              \/ total > 0 /\ got + Len(k.piece) = aim
      /\ k.at \in {"body", "throttled", "copy", "check", "slow"} =>
           /\ k.from <= s.size /\ k.upto < s.size
           /\ total = 0 => k.upto = s.size - 1
      /\ k.at = "finish" /\ total = 0 => got > 0
      /\ k.at \in {"cut", "mark"} =>
           k.buffer = <<>> /\ k.written > 0 /\ (total > 0 => k.written = aim)

\* Only the last window of a chunk is not a full one.
Aligned(s, k) ==
  \/ k.at \in {"finish", "cut", "mark"} /\ k.buffer = <<>>
  \/ k.written % s.window = 0

FetchRight(s, t, k, total, row) ==
  /\ InFile(s, k.chunk)
  /\ Collected(s, t, k, total)
  /\ Aligned(s, k)
  /\ Stored(s, t, k.chunk, k.written, row)
  /\ k.at = "mark" => Snug(s, k.written, row) /\ (Short(s, k) \/ Sealed(s, k.written, row))

\* A chunk that is reported holds n units, all of them if the length was known, and nothing
\* else, unless it was cropped.
MarkRight(s, m, total, crop, row) ==
  /\ InFile(s, m.chunk)
  /\ \E n \in 1..Room(s, m.chunk) :
       /\ m.parts = (n + s.window - 1) \div s.window
       /\ Stored(s, m.by, m.chunk, n, row) /\ Snug(s, n, row)
       /\ ~crop => Sealed(s, n, row) /\ (total > 0 => n = Room(s, m.chunk))

-------------------------------------------------------------------------------
Typed ==
  /\ setting \in Settings
  /\ task \in [Tasks -> Fetch]
  /\ size \in [Tasks -> {0, setting.size}]
  /\ disk \in [Chunks -> [Parts -> Cell]]
  /\ marked \subseteq [chunk : Chunks, parts : Parts, by : Tasks]
  /\ ban \in [Sources -> Nat]
  /\ failures \in 0..setting.faults
  /\ cropped \in BOOLEAN /\ (cropped => setting.told = 0)

Active(t) == task[t].at # "idle"

\* No two fetches have the same chunk, and none has one that is reported.
Exclusive ==
  \A t \in Tasks : Active(t) =>
    /\ \A u \in Tasks \ {t} : Active(u) => task[u].chunk # task[t].chunk
    /\ \A m \in marked : m.chunk # task[t].chunk

RowsRight == \A c \in Chunks : Row(setting, c, disk[c])

SizesRight == \A t \in Tasks : size[t] = 0 => setting.told = 0

FetchesRight ==
  \A t \in Tasks :
    IF Active(t)
    THEN FetchRight(setting, t, task[t], size[t], disk[task[t].chunk])
    ELSE task[t] = Idle

MarksRight == \A m \in marked : MarkRight(setting, m, size[m.by], cropped, disk[m.chunk])

Slow == \A t \in Tasks : task[t].net <= LongEnough

FileInv ==
  Typed /\ Exclusive /\ RowsRight /\ SizesRight /\ FetchesRight /\ MarksRight /\ Slow

-------------------------------------------------------------------------------
\* The bans.  Between the count of the active mirrors and its ban a slow fetch is alone.
Spared ==
  ~setting.lingers =>
    \A t \in Tasks : task[t].at = "slow" =>
      /\ Health!ActiveCount(Sources) > 1
      /\ \A u \in Tasks \ {t} : ~HoldsLoop(u)

BansInv ==
  /\ lastBan \in {"none", "slow", "failure"}
  /\ Spared
  /\ SlowKeepsOne

-------------------------------------------------------------------------------
(***************************************************************************)
(* The limiter.  Whoever sleeps took its tokens into debt.  When the first *)
(* sleeper wakes its debt is worked off, but not that of the tasks which   *)
(* took tokens after it; for these the sleep of each of them stands, one   *)
(* after the other.  So the invariant needs to know who came after whom.   *)
(***************************************************************************)
Sleep == [bytes : Nat, owed : Nat, pace : Nat, slept : Nat]

\* What the tasks in S wait for, when the sleeps are z.
Bytes(z, S) == Sum([t \in Tasks |-> IF t \in S THEN z[t].bytes ELSE 0])

\* What is left, at rate r, of the debt that sleep k is for.  A limit that was lifted in the
\* meantime has forgiven it, if the new one is lower than the old.
Left(k, r) ==
  LET worked == k.slept * k.pace
  IN  IF k.pace <= r /\ worked < k.owed THEN k.owed - worked ELSE 0

\* after[t]: the tasks that fell asleep after t and still sleep.
Covers(after, z, debt, r) ==
  \A t \in Tasks :
    /\ \A u \in after[t] : after[u] \subseteq after[t] \ {u}
    /\ z[t] # Throttle!Awake => debt <= Bytes(z, after[t]) + Left(z[t], r)

Covered(z, debt, r) == \E after \in [Tasks -> SUBSET Tasks] : Covers(after, z, debt, r)

Limits == rate # 0 /\ ~lowered

LimiterTyped ==
  /\ rate \in setting.rates \cup {setting.rate}
  /\ tokens \in Int /\ since \in Nat /\ credit \in Int /\ lowered \in BOOLEAN
  /\ sleep \in [Tasks -> Sleep]
  /\ rate # 0 => tokens <= Throttle!Capacity(rate)

SleepersRight == \A t \in Tasks : Throttle!Asleep(t) => task[t].at = "throttled"

\* The credit covers all that is in the bucket and all that waits; a debt is covered by
\* those who sleep.
CreditRight ==
  Limits => /\ credit >= Throttle!Accrued + Bytes(sleep, Tasks)
            /\ -Throttle!Accrued <= Bytes(sleep, Tasks)

DebtCovered == Limits => Covered(sleep, -Throttle!Accrued, rate)

LimiterInv == LimiterTyped /\ SleepersRight /\ CreditRight /\ DebtCovered

-------------------------------------------------------------------------------
\* The reports of progress: what a fetch has on its way, and what lies in the first windows
\* of a chunk, each by itself and for all.
Way(k) == Reported(k) + IF k.at = "throttled" THEN 0 ELSE Len(k.piece)
Held(row, last) == Sum([p \in 1..last |-> Len(row[p].units)])

OnTheWay == [t \in Tasks |-> OnItsWay(t)]
InTheFile == [m \in marked |-> Delivered(m)]

Counted ==
  /\ OnTheWay \in [Tasks -> Nat] /\ \A t \in Tasks : OnTheWay[t] = Way(task[t])
  /\ IsFiniteSet(marked)
  /\ InTheFile \in [marked -> Nat]
  /\ \A m \in marked : InTheFile[m] = Held(disk[m.chunk], m.parts)

ReportsInv == progress \in Int /\ drifted \in BOOLEAN /\ ProgressAddsUp

===============================================================================
