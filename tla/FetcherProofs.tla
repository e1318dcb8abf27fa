----------------------------- MODULE FetcherProofs -----------------------------
(***************************************************************************)
(* Proofs about Fetcher: what lies in the file, for any number of tasks    *)
(* and mirrors, any size of the file, its chunks, windows and pieces, and  *)
(* any faults, bans and limits.                                            *)
(***************************************************************************)
EXTENDS FetcherInvariant, SequenceTheorems, FiniteSetTheorems, TLAPS

-------------------------------------------------------------------------------
\* Arithmetic of chunks and windows.

LEMMA LeastFacts ==
  ASSUME NEW a \in Int, NEW b \in Int
  PROVE  Least(a, b) \in Int /\ Least(a, b) <= a /\ Least(a, b) <= b
BY DEF Least

\* What the assumption says of one setting.
LEMMA SettingFacts ==
  ASSUME NEW s \in Settings
  PROVE  /\ s.size \in Nat \ {0} /\ s.chunk \in Nat \ {0} /\ s.window \in 1..s.chunk
         /\ s.told \in {0, s.size} /\ s.ranges \in BOOLEAN /\ s.lingers \in BOOLEAN
         /\ s.size <= MaxChunks * s.chunk /\ s.chunk <= Most(s) /\ Most(s) \in Nat
         /\ ~s.ranges /\ s.told > 0 => s.size <= s.chunk
         /\ s.told = 0 => ~s.ranges /\ s.chunk % s.window = 0 /\ s.size <= Most(s)
         /\ s.source \in [Tasks -> Sources] /\ s.faults \in Nat /\ s.minimum \in Nat
         /\ s.rate \in Nat /\ s.rates \subseteq Nat
<1>1. s \in Setting BY FetcherAssumption
<1>2. /\ s.size \in Nat /\ s.chunk \in Nat /\ s.window \in Nat /\ s.told \in Nat
      /\ s.ranges \in BOOLEAN /\ s.lingers \in BOOLEAN
      /\ s.source \in [Tasks -> Sources] /\ s.faults \in Nat /\ s.minimum \in Nat
      /\ s.rate \in Nat /\ s.rates \subseteq Nat
  BY <1>1 DEF Setting
<1>3. /\ s.size > 0 /\ 0 < s.window /\ s.window <= s.chunk /\ s.told \in {0, s.size}
      /\ s.size <= MaxChunks * s.chunk /\ s.chunk <= Most(s)
      /\ ~s.ranges /\ s.told > 0 => s.size <= s.chunk
      /\ s.told = 0 => ~s.ranges /\ s.chunk % s.window = 0 /\ s.size <= Most(s)
  BY FetcherAssumption DEF Most
<1>4. Most(s) \in Nat BY <1>2, FetcherAssumption DEF Most
<1> QED BY <1>2, <1>3, <1>4

LEMMA WindowFacts ==
  ASSUME NEW s \in Settings, NEW p \in Nat, NEW q \in Nat, p < q
  PROVE  Before(s, p) \in Int /\ Before(s, q) \in Int
         /\ Before(s, p) + s.window <= Before(s, q)
<1> DEFINE w == s.window
<1>1. w \in Nat /\ w > 0 BY SettingFacts
<1>2. (q - 1) - (p - 1) >= 1 OBVIOUS
<1>3. (p - 1) * w + w = p * w /\ (q - 1) * w = p * w + (q - p - 1) * w
  BY <1>1
<1>4. (q - p - 1) * w >= 0 BY <1>1
<1> HIDE DEF w
<1>5. (p - 1) * w \in Int /\ (q - 1) * w \in Int BY <1>1
<1>6. (p - 1) * w + w <= (q - 1) * w BY <1>1, <1>3, <1>4, <1>5
<1> QED BY <1>5, <1>6 DEF Before, w

\* A multiple of the window is the beginning of a window.
LEMMA WindowAt ==
  ASSUME NEW s \in Settings, NEW n \in Nat, n % s.window = 0, n < Most(s)
  PROVE  LET p == (n \div s.window) + 1
         IN  p \in Parts /\ Before(s, p) = n
<1> DEFINE w == s.window
           q == n \div w
<1>1. w \in Nat /\ w > 0 /\ NumParts \in Nat /\ Most(s) = NumParts * w
  BY SettingFacts, FetcherAssumption DEF Most
<1>2. q \in Nat /\ q * w = n BY <1>1
<1>3. q * w < NumParts * w BY <1>1, <1>2
<1>4. q < NumParts BY <1>1, <1>2, <1>3
<1>5. (q + 1) - 1 = q BY <1>2
<1> QED BY <1>1, <1>2, <1>4, <1>5 DEF Before, Parts

LEMMA NextWindow ==
  ASSUME NEW s \in Settings, NEW n \in Nat, n % s.window = 0
  PROVE  (n + s.window) % s.window = 0
<1> DEFINE w == s.window
           q == n \div w
<1>1. w \in Nat /\ w > 0 BY SettingFacts
<1>2. q \in Nat /\ n = q * w BY <1>1
<1>3. n + w = (q + 1) * w BY <1>1, <1>2
<1> HIDE DEF q
<1>4. ((q + 1) * w) % w = 0
  <2> DEFINE r == q + 1
  <2>1. r \in Nat BY <1>2
  <2> HIDE DEF r
  <2>2. (r * w) % w = 0 BY <2>1, <1>1
  <2> QED BY <2>2 DEF r
<1> QED BY <1>3, <1>4

\* The last window that n units reach into.
LEMMA LastWindow ==
  ASSUME NEW s \in Settings, NEW n \in Nat \ {0}
  PROVE  LET p == (n + s.window - 1) \div s.window
         IN  /\ p \in Nat \ {0}
             /\ Before(s, p) < n /\ n <= Before(s, p) + s.window
             /\ n <= Most(s) => p \in Parts
<1> DEFINE w == s.window
           p == (n + w - 1) \div w
<1>1. w \in Nat /\ w > 0 /\ NumParts \in Nat /\ Most(s) = NumParts * w
  BY SettingFacts, FetcherAssumption DEF Most
<1>2. p \in Nat /\ p * w <= n + w - 1 /\ n + w - 1 < p * w + w BY <1>1
<1>3. p # 0 BY <1>1, <1>2
<1>4. (p - 1) * w = p * w - w BY <1>1, <1>2
<1>5. (p - 1) * w < n /\ n <= (p - 1) * w + w BY <1>1, <1>2, <1>4
<1>6. ASSUME n <= Most(s) PROVE p <= NumParts
  <2>1. (p - 1) * w < NumParts * w BY <1>1, <1>2, <1>5, <1>6
  <2>2. p - 1 < NumParts BY <2>1, <1>1, <1>2, <1>3
  <2> QED BY <2>2, <1>1, <1>2
<1> QED BY <1>2, <1>3, <1>5, <1>6 DEF Before, Parts

\* The chunks the pool hands out begin within the file.
LEMMA ChunkInFile ==
  ASSUME setting \in Settings, NEW c \in 0..(TotalChunks - 1)
  PROVE  InFile(setting, c) /\ c \in Chunks
<1> DEFINE s == setting
           n == s.chunk
           m == s.size
<1>1. n \in Nat /\ n > 0 /\ m \in Nat /\ m > 0 /\ m <= MaxChunks * n /\ MaxChunks \in Nat
      /\ s.told \in {0, m}
  BY SettingFacts, FetcherAssumption
<1>2. c \in Nat /\ c * n < m /\ (s.told = 0 => c = 0)
  <2>1. CASE s.told = 0
    <3>1. c = 0 BY <2>1 DEF TotalChunks
    <3> QED BY <3>1, <1>1
  <2>2. CASE s.told = m
    <3> DEFINE d == (m + n - 1) \div n
    <3>1. TotalChunks = d BY <1>1, <2>2 DEF TotalChunks
    <3>2. d \in Nat /\ d * n <= m + n - 1 BY <1>1
    <3>3. c \in Nat /\ c <= d - 1 BY <3>1, <3>2
    <3> HIDE DEF d
    <3>4. c * n <= (d - 1) * n BY <3>2, <3>3, <1>1
    <3>5. (d - 1) * n = d * n - n BY <3>2, <1>1
    <3> QED BY <3>2, <3>3, <3>4, <3>5, <2>2, <1>1
  <2> QED BY <2>1, <2>2, <1>1
<1>3. c * n < MaxChunks * n BY <1>1, <1>2
<1>4. c < MaxChunks BY <1>1, <1>2, <1>3
<1> QED BY <1>1, <1>2, <1>4 DEF InFile, Base, Chunks

\* A chunk in the file has some room; without ranges it is the first and only one.
LEMMA RoomFacts ==
  ASSUME NEW s \in Settings, NEW c \in Nat, InFile(s, c)
  PROVE  /\ Base(s, c) \in Nat /\ Room(s, c) \in 1..Most(s) /\ Most(s) \in Nat
         /\ Base(s, c) + Room(s, c) <= s.size
         /\ s.told = 0 => c = 0 /\ Room(s, c) = s.size
         /\ ~s.ranges => Base(s, c) = 0
<1>1. /\ s.size \in Nat /\ s.chunk \in Nat /\ s.chunk > 0 /\ s.ranges \in BOOLEAN
      /\ s.told \in {0, s.size} /\ s.size > 0
      /\ ~s.ranges /\ s.told > 0 => s.size <= s.chunk
      /\ s.told = 0 => ~s.ranges /\ s.size <= Most(s)
      /\ s.chunk <= Most(s) /\ Most(s) \in Nat
  BY SettingFacts
<1>2. Base(s, c) \in Nat /\ Base(s, c) < s.size /\ (s.told = 0 => c = 0)
  BY <1>1 DEF Base, InFile
<1>3. ASSUME ~s.ranges PROVE c = 0
  <2>1. CASE s.told = 0 BY <2>1, <1>2
  <2>2. CASE s.told # 0
    <3>1. s.size <= s.chunk BY <2>2, <1>1, <1>3
    <3>2. c * s.chunk < 1 * s.chunk BY <3>1, <1>1, <1>2 DEF Base
    <3> QED BY <3>2, <1>1
  <2> QED BY <2>1, <2>2
<1>4. c = 0 => Base(s, c) = 0 BY <1>1 DEF Base
<1>5. CASE s.told = 0
  <2>1. Room(s, c) = s.size /\ Base(s, c) = 0 /\ c = 0 BY <1>2, <1>4, <1>5 DEF Room
  <2> QED BY <2>1, <1>1, <1>2, <1>5
<1>6. CASE s.told # 0
  <2> DEFINE b == Base(s, c)
  <2>1. Room(s, c) = Least(s.chunk, s.size - b) /\ b \in Nat /\ b < s.size
    BY <1>2, <1>6 DEF Room
  <2> HIDE DEF b
  <2>2. Room(s, c) \in 1..Most(s) /\ b + Room(s, c) <= s.size BY <2>1, <1>1 DEF Least
  <2> QED BY <2>1, <2>2, <1>1, <1>3, <1>4, <1>6 DEF b
<1> QED BY <1>5, <1>6

\* The units a fetch receives are units of the file.
LEMMA OriginFacts ==
  ASSUME NEW s \in Settings, NEW t \in Tasks, NEW c \in Nat, InFile(s, c)
  PROVE  /\ Origin(s, t, c) \in Nat /\ Origin(s, t, c) + Room(s, c) <= s.size
         /\ s.told = 0 => Origin(s, t, c) = 0
<1>1. /\ Base(s, c) \in Nat /\ Room(s, c) \in Nat /\ Base(s, c) + Room(s, c) <= s.size
      /\ s.told = 0 => ~s.ranges
      /\ s.size \in Nat
  BY RoomFacts, SettingFacts
<1>2. Origin(s, t, c) = Base(s, c) \/ Origin(s, t, c) = 0 BY DEF Origin
<1>3. ~s.ranges => Origin(s, t, c) = 0 BY DEF Origin
<1> QED BY <1>1, <1>2, <1>3

LEMMA BeforeType ==
  ASSUME NEW s \in Settings, NEW p \in Nat
  PROVE  Before(s, p) \in Int
BY SettingFacts DEF Before

LEMMA PartFacts ==
  ASSUME NEW s \in Settings, NEW n \in Int, NEW p \in Nat
  PROVE  Before(s, p) \in Int /\ Part(s, n, p) \in 0..s.window
<1>1. s.window \in Nat /\ s.window > 0 BY SettingFacts
<1>2. Before(s, p) \in Int BY <1>1 DEF Before
<1> QED BY <1>1, <1>2 DEF Part, Least

LEMMA PartValue ==
  ASSUME NEW s \in Settings, NEW n \in Int, NEW p \in Nat
  PROVE  /\ n <= Before(s, p) => Part(s, n, p) = 0
         /\ Before(s, p) < n /\ n <= Before(s, p) + s.window => Part(s, n, p) = n - Before(s, p)
         /\ Before(s, p) + s.window <= n => Part(s, n, p) = s.window
<1>1. s.window \in Nat /\ s.window > 0 BY SettingFacts
<1>2. Before(s, p) \in Int BY PartFacts
<1> QED BY <1>1, <1>2 DEF Part, Least

-------------------------------------------------------------------------------
\* Units in a row.

LEMMA HoldsPrefix ==
  ASSUME NEW q \in Seq(Nat), NEW i \in Nat, Holds(q, i), NEW n \in Nat, n <= Len(q)
  PROVE  /\ SubSeq(q, 1, n) \in Seq(Nat) /\ Len(SubSeq(q, 1, n)) = n
         /\ Holds(SubSeq(q, 1, n), i)
BY SubSeqProperties DEF Holds

LEMMA HoldsRest ==
  ASSUME NEW q \in Seq(Nat), NEW i \in Nat, Holds(q, i), NEW n \in Nat
  PROVE  /\ SubSeq(q, n + 1, Len(q)) \in Seq(Nat)
         /\ Len(SubSeq(q, n + 1, Len(q))) = IF n <= Len(q) THEN Len(q) - n ELSE 0
         /\ Holds(SubSeq(q, n + 1, Len(q)), i + n)
<1>1. Len(q) \in Nat /\ \A j \in 1..Len(q) : q[j] \in Nat BY ElementOfSeq
<1>2. CASE n <= Len(q)
  <2> DEFINE r == SubSeq(q, n + 1, Len(q))
  <2>1. r \in Seq(Nat) /\ Len(r) = Len(q) - n BY <1>1, <1>2, SubSeqProperties
  <2>2. \A j \in 1..Len(r) : r[j] = q[n + 1 + j - 1]
    BY <1>1, <1>2, <2>1, SubSeqProperties
  <2> HIDE DEF r
  <2>3. Holds(r, i + n)
    <3> SUFFICES ASSUME NEW j \in 1..Len(r) PROVE r[j] = i + n + j - 1 BY DEF Holds
    <3>1. n + j \in 1..Len(q) /\ n + 1 + j - 1 = n + j BY <1>1, <2>1
    <3> QED BY <2>2, <3>1 DEF Holds
  <2> QED BY <1>2, <2>1, <2>3 DEF r
<1>3. CASE n > Len(q)
  <2>1. SubSeq(q, n + 1, Len(q)) = <<>> BY <1>1, <1>3, SubSeqProperties
  <2> QED BY <2>1, <1>1, <1>3 DEF Holds
<1> QED BY <1>1, <1>2, <1>3

LEMMA RestFacts ==
  ASSUME NEW q \in Seq(Nat), NEW n \in Nat
  PROVE  /\ SubSeq(q, n + 1, Len(q)) \in Seq(Nat)
         /\ Len(SubSeq(q, n + 1, Len(q))) = IF n <= Len(q) THEN Len(q) - n ELSE 0
<1>1. Len(q) \in Nat /\ \A j \in 1..Len(q) : q[j] \in Nat BY ElementOfSeq
<1>2. CASE n <= Len(q) BY <1>1, <1>2, SubSeqProperties
<1>3. CASE n > Len(q)
  <2>1. SubSeq(q, n + 1, Len(q)) = <<>> BY <1>1, <1>3, SubSeqProperties
  <2> QED BY <2>1, <1>1, <1>3
<1> QED BY <1>1, <1>2, <1>3

LEMMA HoldsConcat ==
  ASSUME NEW q \in Seq(Nat), NEW r \in Seq(Nat), NEW i \in Nat,
         Holds(q, i), Holds(r, i + Len(q))
  PROVE  /\ q \o r \in Seq(Nat) /\ Len(q \o r) = Len(q) + Len(r)
         /\ Holds(q \o r, i)
<1>1. /\ q \o r \in Seq(Nat) /\ Len(q \o r) = Len(q) + Len(r)
      /\ \A j \in 1..(Len(q) + Len(r)) :
           (q \o r)[j] = IF j <= Len(q) THEN q[j] ELSE r[j - Len(q)]
  BY ConcatProperties
<1>2. Len(q) \in Nat /\ Len(r) \in Nat OBVIOUS
<1> DEFINE x == q \o r
<1> HIDE DEF x
<1>3. ASSUME NEW j \in 1..Len(x) PROVE x[j] = i + j - 1
  <2>1. CASE j <= Len(q) BY <1>1, <1>2, <2>1 DEF Holds, x
  <2>2. CASE j > Len(q)
    <3>1. j - Len(q) \in 1..Len(r) BY <1>1, <1>2, <2>2 DEF x
    <3>2. r[j - Len(q)] = i + Len(q) + (j - Len(q)) - 1 BY <3>1 DEF Holds
    <3> QED BY <1>1, <1>2, <2>2, <3>1, <3>2 DEF x
  <2> QED BY <1>1, <1>2, <2>1, <2>2 DEF x
<1> QED BY <1>1, <1>3 DEF Holds, x

\* The beginning of a sequence.
LEMMA BeginsPrefix ==
  ASSUME NEW q \in Seq(Nat), NEW i \in Int, NEW n \in Nat, Begins(q, i, n)
  PROVE  /\ SubSeq(q, 1, n) \in Seq(Nat) /\ Len(SubSeq(q, 1, n)) = n
         /\ Holds(SubSeq(q, 1, n), i) /\ Begins(SubSeq(q, 1, n), i, n)
BY SubSeqProperties DEF Holds, Begins

LEMMA BeginsConcat ==
  ASSUME NEW q \in Seq(Nat), NEW r \in Seq(Nat), NEW i \in Int, Holds(q, i),
         NEW n \in Nat, n <= Len(q)
  PROVE  /\ q \o r \in Seq(Nat) /\ Len(q \o r) = Len(q) + Len(r)
         /\ Begins(q \o r, i, n)
         /\ Len(q) > 0 => q \o r # <<>> /\ (q \o r)[1] = i
<1>1. /\ q \o r \in Seq(Nat) /\ Len(q \o r) = Len(q) + Len(r)
      /\ \A j \in 1..(Len(q) + Len(r)) :
           (q \o r)[j] = IF j <= Len(q) THEN q[j] ELSE r[j - Len(q)]
  BY ConcatProperties
<1>2. Len(q) \in Nat /\ Len(r) \in Nat OBVIOUS
<1> DEFINE x == q \o r
<1> HIDE DEF x
<1>3. ASSUME NEW j \in 1..n PROVE x[j] = i + j - 1
  <2>1. j \in 1..Len(q) /\ j \in 1..(Len(q) + Len(r)) BY <1>2
  <2> QED BY <2>1, <1>1, <1>2 DEF Holds, x
<1>4. Begins(x, i, n) BY <1>1, <1>2, <1>3 DEF Begins, x
<1>5. ASSUME Len(q) > 0 PROVE x # <<>> /\ x[1] = i
  <2>1. Len(<<>>) = 0 OBVIOUS
  <2>2. Len(x) > 0 BY <1>1, <1>2, <1>5 DEF x
  <2>3. 1 \in 1..Len(q) /\ 1 \in 1..(Len(q) + Len(r)) BY <1>2, <1>5
  <2>4. x[1] = q[1] BY <2>3, <1>1, <1>2 DEF x
  <2>5. q[1] = i + 1 - 1 BY <2>3 DEF Holds
  <2> QED BY <2>1, <2>2, <2>4, <2>5
<1> QED BY <1>1, <1>4, <1>5 DEF x

LEMMA HoldsNothing == ASSUME NEW i \in Nat PROVE <<>> \in Seq(Nat) /\ Holds(<<>>, i)
BY DEF Holds

-------------------------------------------------------------------------------
\* How one step of one task changes the invariant.

LEMMA IdleFacts == Idle \in Fetch /\ Idle.at = "idle" /\ Idle.net = 0
<1>1. 0 \in Chunks BY FetcherAssumption DEF Chunks
<1>2. <<>> \in Seq(Nat) OBVIOUS
<1> QED BY <1>1, <1>2 DEF Idle, Fetch, Places

\* A fetch that fails leaves the file and the other fetches as they are.
LEMMA GoesIdle ==
  ASSUME FileInv, NEW t \in Tasks,
         task' = [task EXCEPT ![t] = Idle], UNCHANGED <<setting, size, disk, marked, cropped>>,
         ban' \in [Sources -> Nat], failures' \in 0..setting.faults
  PROVE  FileInv'
<1>1. Idle \in Fetch /\ Idle.at = "idle" /\ Idle.net = 0 BY IdleFacts
<1>2. /\ task \in [Tasks -> Fetch] /\ task' \in [Tasks -> Fetch] /\ task'[t] = Idle
      /\ \A u \in Tasks \ {t} : task'[u] = task[u]
  BY <1>1 DEF FileInv, Typed
<1>3. Typed' BY <1>2 DEF FileInv, Typed
<1>4. Exclusive' BY <1>1, <1>2 DEF FileInv, Exclusive, Active
<1>5. RowsRight' /\ SizesRight' /\ MarksRight'
  BY DEF FileInv, RowsRight, SizesRight, MarksRight
<1>6. FetchesRight'
  <2> SUFFICES ASSUME NEW u \in Tasks
               PROVE  IF task'[u].at # "idle"
                      THEN FetchRight(setting, u, task'[u], size[u], disk[task'[u].chunk])
                      ELSE task'[u] = Idle
    BY DEF FetchesRight, Active
  <2>1. CASE u = t BY <1>1, <1>2, <2>1
  <2>2. CASE u # t BY <1>2, <2>2 DEF FileInv, FetchesRight, Active
  <2> QED BY <2>1, <2>2
<1>7. Slow'
  <2>1. setting.size \in Nat /\ Grace \in Nat
    BY SettingFacts, FetcherAssumption DEF FileInv, Typed
  <2> QED BY <1>1, <1>2, <2>1 DEF FileInv, Slow, LongEnough
<1> QED BY <1>3, <1>4, <1>5, <1>6, <1>7 DEF FileInv

\* A fetch that goes on changes its own chunk of the file only.
LEMMA GoesOn ==
  ASSUME FileInv, NEW t \in Tasks, Active(t),
         NEW k \in Fetch, k.at # "idle", k.chunk = task[t].chunk, k.net <= LongEnough,
         NEW total \in {0, setting.size}, size[t] = 0 \/ total = size[t],
         NEW row \in [Parts -> Cell], Row(setting, k.chunk, row),
         FetchRight(setting, t, k, total, row),
         task' = [task EXCEPT ![t] = k], size' = [size EXCEPT ![t] = total],
         disk' = [disk EXCEPT ![k.chunk] = row],
         UNCHANGED <<setting, marked, ban, cropped>>, failures' \in 0..setting.faults
  PROVE  FileInv'
<1> DEFINE c == k.chunk
<1>1. /\ task \in [Tasks -> Fetch] /\ task' \in [Tasks -> Fetch] /\ task'[t] = k
      /\ \A u \in Tasks \ {t} : task'[u] = task[u]
  BY DEF FileInv, Typed
<1>2. /\ size' \in [Tasks -> {0, setting.size}] /\ size'[t] = total
      /\ \A u \in Tasks \ {t} : size'[u] = size[u]
  BY DEF FileInv, Typed
<1>3. c \in Chunks BY DEF Fetch
<1>4. /\ disk' \in [Chunks -> [Parts -> Cell]] /\ disk'[c] = row
      /\ \A d \in Chunks \ {c} : disk'[d] = disk[d]
  BY <1>3 DEF FileInv, Typed
<1>5. Typed' BY <1>1, <1>2, <1>4 DEF FileInv, Typed
<1>6. Exclusive' BY <1>1 DEF FileInv, Exclusive, Active
<1>7. RowsRight' BY <1>3, <1>4 DEF FileInv, RowsRight
<1>8. ASSUME NEW u \in Tasks PROVE size[u] = 0 => setting.told = 0
  BY DEF FileInv, SizesRight
<1>9. SizesRight' BY <1>2, <1>8, SettingFacts DEF SizesRight, FileInv, Typed
<1>10. ASSUME NEW u \in Tasks
       PROVE  IF task'[u].at # "idle"
              THEN FetchRight(setting, u, task'[u], size'[u], disk'[task'[u].chunk])
              ELSE task'[u] = Idle
  <2>1. CASE u = t BY <1>1, <1>2, <1>4, <2>1
  <2>2. CASE u # t
    <3>1. task'[u] = task[u] /\ size'[u] = size[u] BY <1>1, <1>2, <2>2
    <3>2. CASE Active(u)
      <4>1. task[u].chunk # c BY <2>2, <3>2 DEF FileInv, Exclusive
      <4>2. task[u].chunk \in Chunks BY <1>1 DEF Fetch
      <4>3. disk'[task[u].chunk] = disk[task[u].chunk] BY <1>4, <4>1, <4>2
      <4> QED BY <3>1, <3>2, <4>3 DEF FileInv, FetchesRight, Active
    <3>3. CASE ~Active(u) BY <3>1, <3>3 DEF FileInv, FetchesRight, Active
    <3> QED BY <3>2, <3>3
  <2> QED BY <2>1, <2>2
<1>11. FetchesRight' BY <1>10 DEF FetchesRight, Active
<1>12. ASSUME NEW m \in marked
       PROVE  MarkRight(setting, m, size'[m.by], cropped', disk'[m.chunk])
  <2>1. /\ m.chunk \in Chunks /\ m.by \in Tasks /\ m.chunk # c
        /\ MarkRight(setting, m, size[m.by], cropped, disk[m.chunk])
    BY DEF FileInv, Typed, Exclusive, MarksRight
  <2>2. disk'[m.chunk] = disk[m.chunk] BY <1>4, <2>1
  <2>3. size'[m.by] = size[m.by]
    <3>1. CASE m.by = t /\ size[t] = 0
      <4>1. setting.told = 0 BY <1>8, <3>1
      <4>2. m.chunk = 0 /\ c = 0 BY <2>1, <4>1 DEF MarkRight, FetchRight, InFile
      <4> QED BY <2>1, <4>2
    <3> QED BY <1>2, <2>1, <3>1
  <2> QED BY <2>1, <2>2, <2>3
<1>13. MarksRight' BY <1>12 DEF MarksRight
<1>14. Slow' BY <1>1 DEF FileInv, Slow, LongEnough
<1> QED BY <1>5, <1>6, <1>7, <1>9, <1>11, <1>13, <1>14 DEF FileInv

\* A step that moves on in the response, leaves the file alone and adds nothing to what is
\* written.
LEMMA MovesOn ==
  ASSUME FileInv, NEW t \in Tasks, Active(t),
         NEW k \in Fetch, k.at # "idle", k.chunk = task[t].chunk, k.net <= LongEnough,
         k.written = task[t].written,
         NEW total \in {0, setting.size}, size[t] = 0 \/ total = size[t],
         Collected(setting, t, k, total), Aligned(setting, k),
         k.at = "mark" => /\ Snug(setting, k.written, disk[k.chunk])
                          /\ Short(setting, k) \/ Sealed(setting, k.written, disk[k.chunk]),
         task' = [task EXCEPT ![t] = k], size' = [size EXCEPT ![t] = total],
         UNCHANGED <<setting, disk, marked, ban, cropped>>, failures' \in 0..setting.faults
  PROVE  FileInv'
<1>1. k.chunk \in Chunks BY DEF Fetch
<1>2. disk[k.chunk] \in [Parts -> Cell] /\ disk' = [disk EXCEPT ![k.chunk] = disk[k.chunk]]
  BY <1>1 DEF FileInv, Typed
<1>3. Row(setting, k.chunk, disk[k.chunk]) BY <1>1 DEF FileInv, RowsRight
<1>4. FetchRight(setting, t, task[t], size[t], disk[task[t].chunk])
  BY DEF FileInv, FetchesRight
<1>5. FetchRight(setting, t, k, total, disk[k.chunk]) BY <1>4 DEF FetchRight
<1> QED BY <1>2, <1>3, <1>5, GoesOn

-------------------------------------------------------------------------------
\* The steps of a fetch.

\* What the invariant says of an active task, with names for the places of its chunk.
LEMMA FetchFacts ==
  ASSUME FileInv, NEW t \in Tasks, Active(t)
  PROVE  LET k == task[t]
             c == k.chunk
         IN  /\ setting \in Settings
             /\ k \in Fetch /\ k.net <= LongEnough /\ c \in Chunks /\ c \in Nat
             /\ k.buffer \in Seq(Nat) /\ k.piece \in Seq(Nat) /\ k.written \in Nat
             /\ k.from \in Nat /\ k.upto \in Nat /\ k.expected \in Nat
             /\ Reported(k) = k.written + Len(k.buffer) /\ Reported(k) \in Nat
             /\ size[t] \in {0, setting.size} /\ (size[t] = 0 => setting.told = 0)
             /\ failures \in 0..setting.faults
             /\ FetchRight(setting, t, k, size[t], disk[c])
             /\ Base(setting, c) \in Nat /\ Base(setting, c) + Room(setting, c) <= setting.size
             /\ Room(setting, c) \in 1..Most(setting) /\ Most(setting) \in Nat
             /\ Origin(setting, t, c) \in Nat
             /\ Origin(setting, t, c) + Room(setting, c) <= setting.size
             /\ setting.told = 0 =>
                  c = 0 /\ Origin(setting, t, c) = 0 /\ Room(setting, c) = setting.size
<1>1. /\ setting \in Settings /\ task[t] \in Fetch /\ task[t].chunk \in Chunks
      /\ size[t] \in {0, setting.size} /\ failures \in 0..setting.faults
  BY DEF FileInv, Typed, Fetch
<1>2. task[t].chunk \in Nat BY <1>1, FetcherAssumption DEF Chunks
<1>3. task[t].net <= LongEnough BY DEF FileInv, Slow
<1>4. size[t] = 0 => setting.told = 0 BY DEF FileInv, SizesRight
<1>5. FetchRight(setting, t, task[t], size[t], disk[task[t].chunk])
  BY DEF FileInv, FetchesRight
<1>6. InFile(setting, task[t].chunk) BY <1>5 DEF FetchRight
<1>7. /\ task[t].buffer \in Seq(Nat) /\ task[t].piece \in Seq(Nat) /\ task[t].written \in Nat
      /\ task[t].from \in Nat /\ task[t].upto \in Nat /\ task[t].expected \in Nat
  BY <1>1 DEF Fetch
<1>8. Reported(task[t]) = task[t].written + Len(task[t].buffer) /\ Reported(task[t]) \in Nat
  BY <1>7 DEF Reported
<1> DEFINE s == setting
           c == task[t].chunk
<1>9. /\ Base(s, c) \in Nat /\ Base(s, c) + Room(s, c) <= s.size
      /\ Room(s, c) \in 1..Most(s) /\ Most(s) \in Nat
      /\ s.told = 0 => c = 0 /\ Room(s, c) = s.size
  BY <1>1, <1>2, <1>6, RoomFacts
<1>10. /\ Origin(s, t, c) \in Nat /\ Origin(s, t, c) + Room(s, c) <= s.size
       /\ s.told = 0 => Origin(s, t, c) = 0
  BY <1>1, <1>2, <1>6, OriginFacts
<1> QED BY <1>1, <1>2, <1>3, <1>4, <1>5, <1>7, <1>8, <1>9, <1>10

\* What a fetch may collect.
LEMMA AimFacts ==
  ASSUME NEW s \in Settings, NEW t \in Tasks, NEW k \in Fetch, InFile(s, k.chunk),
         NEW total \in {0, s.size}, total = 0 => s.told = 0, Collected(s, t, k, total)
  PROVE  /\ Aim(s, k, total) \in Nat \ {0} /\ Aim(s, k, total) <= Room(s, k.chunk)
         /\ Aim(s, k, total) <= Most(s)
         /\ Origin(s, t, k.chunk) \in Nat
         /\ Origin(s, t, k.chunk) + Aim(s, k, total) <= s.size
         /\ total = 0 => Aim(s, k, total) = s.size /\ Origin(s, t, k.chunk) = 0
         /\ k.expected = IF total = 0 THEN 0 ELSE Aim(s, k, total)
<1> DEFINE room == Room(s, k.chunk)
           o == Origin(s, t, k.chunk)
           aim == Aim(s, k, total)
<1>1. k.chunk \in Nat /\ k.expected \in Nat BY FetcherAssumption DEF Fetch, Chunks
<1>2. /\ room \in 1..Most(s) /\ Most(s) \in Nat /\ (s.told = 0 => room = s.size)
      /\ o \in Nat /\ o + room <= s.size /\ (s.told = 0 => o = 0)
  BY <1>1, RoomFacts, OriginFacts
<1>3. s.size \in Nat /\ s.size > 0 /\ s.chunk \in Nat /\ s.chunk > 0 BY SettingFacts
<1>4. /\ IF total = 0 THEN k.expected = 0
         ELSE k.expected = room \/ (s.told = 0 /\ s.chunk < s.size /\ k.expected = s.chunk)
      /\ aim = IF total = 0 THEN room ELSE k.expected
  BY DEF Collected, Short, Aim
<1> HIDE DEF room, o, aim
<1>5. aim \in Nat /\ aim > 0 /\ aim <= room BY <1>1, <1>2, <1>3, <1>4
<1>6. aim <= Most(s) /\ o + aim <= s.size BY <1>2, <1>3, <1>5
<1>7. total = 0 => aim = s.size /\ o = 0 BY <1>2, <1>4
<1>8. k.expected = IF total = 0 THEN 0 ELSE aim BY <1>4
<1> QED BY <1>2, <1>5, <1>6, <1>7, <1>8 DEF room, o, aim

LEMMA RespondKeeps == ASSUME FileInv, NEW t \in Tasks, Respond(t) PROVE FileInv'
<1> DEFINE k == task[t]
           c == k.chunk
           s == setting
           begin == First(t, c)
           end   == IF SendsRange(t) /\ s.kind[Source(t)] = "exact"
                    THEN begin + k.expected - 1 ELSE s.size - 1
<1>1. Active(t) /\ k.at = "open" BY DEF Respond, Active
<1>2. PICK length \in {0, s.size} :
        IF size[t] = 0 /\ length > 0
        THEN /\ size' = [size EXCEPT ![t] = length]
             /\ task' = [task EXCEPT ![t].at = "body", ![t].from = begin, ![t].upto = end,
                                     ![t].expected = length - Start(c)]
        ELSE /\ task' = [task EXCEPT ![t].at = "body", ![t].from = begin, ![t].upto = end]
             /\ UNCHANGED size
  BY DEF Respond
<1>3. UNCHANGED <<setting, disk, marked, ban, cropped, failures>> BY DEF Respond, history, bounds
<1> DEFINE room == Room(s, c)
           o == Origin(s, t, c)
<1>4. /\ s \in Settings /\ k \in Fetch /\ k.net <= LongEnough
      /\ Collected(s, t, k, size[t]) /\ Aligned(s, k) /\ InFile(s, c)
      /\ size[t] \in {0, s.size} /\ (size[t] = 0 => s.told = 0)
      /\ failures \in 0..s.faults
      /\ k.buffer \in Seq(Nat) /\ k.written \in Nat
  BY <1>1, FetchFacts DEF FetchRight
<1>5. /\ o \in Nat /\ room \in Nat /\ room > 0 /\ o + room <= s.size
      /\ s.told = 0 => c = 0 /\ o = 0 /\ room = s.size
  BY <1>1, FetchFacts
<1>6. /\ s.size \in Nat /\ s.size > 0 /\ s.chunk \in Nat /\ s.ranges \in BOOLEAN
      /\ s.told = 0 => ~s.ranges
  BY <1>4, SettingFacts
<1>7. begin = o BY DEF First, SendsRange, Source, Origin, Start, Base
<1>8. k.expected = (IF size[t] = 0 THEN 0 ELSE k.expected) /\ Reported(k) = 0 /\ k.piece = <<>>
      /\ (size[t] # 0 => k.expected = room \/ Short(s, k))
  BY <1>1, <1>4 DEF Collected
<1>9. k.expected \in Nat BY <1>4 DEF Fetch
<1>10. end \in Nat /\ end < s.size /\ (size[t] = 0 => end = s.size - 1)
  <2>1. CASE end = s.size - 1 BY <2>1, <1>6
  <2>2. CASE end # s.size - 1
    <3>1. SendsRange(t) /\ end = begin + k.expected - 1 BY <2>2
    <3>2. s.ranges BY <3>1 DEF SendsRange
    <3>3. s.told # 0 /\ size[t] # 0 BY <3>2, <1>4, <1>6
    <3>4. k.expected = room BY <3>3, <1>8 DEF Short
    <3> HIDE DEF end, begin, room, o
    <3> QED BY <3>1, <3>3, <3>4, <1>5, <1>6, <1>7
  <2> QED BY <2>1, <2>2
<1>11. /\ Holds(k.buffer, o + k.written) /\ Holds(k.piece, o + Reported(k))
       /\ Len(k.buffer) <= s.window /\ Len(k.piece) <= MaxPiece
  BY <1>4 DEF Collected
<1>12. task[t] \in Fetch /\ task \in [Tasks -> Fetch] /\ size \in [Tasks -> {0, s.size}]
  BY DEF FileInv, Typed
<1> HIDE DEF begin, end, room, o
<1>13. CASE size[t] = 0 /\ length > 0
  <2> DEFINE r == [k EXCEPT !.at = "body", !.from = begin, !.upto = end, !.expected = room]
  <2>1. length = s.size /\ length - Start(c) = room
    <3>1. length = s.size /\ c = 0 /\ room = s.size BY <1>4, <1>5, <1>13
    <3>2. Start(c) = 0 BY <3>1, <1>6 DEF Start
    <3> QED BY <3>1, <3>2, <1>6
  <2>2. task' = [task EXCEPT ![t] = r] /\ size' = [size EXCEPT ![t] = s.size]
    <3> DEFINE e == length - Start(c)
    <3>1. /\ size' = [size EXCEPT ![t] = length]
          /\ task' = [task EXCEPT ![t].at = "body", ![t].from = begin, ![t].upto = end,
                                  ![t].expected = e]
      BY <1>2, <1>13
    <3>2. e = room BY <2>1
    <3> HIDE DEF e
    <3> QED BY <3>1, <3>2, <2>1, <1>12
  <2>3. r \in Fetch
    <3>1. room \in Nat /\ begin \in Nat /\ end \in Nat BY <1>5, <1>7, <1>10
    <3> QED BY <3>1, <1>12 DEF Fetch, Places
  <2>4. /\ r.at = "body" /\ r.chunk = c /\ r.net = k.net /\ r.written = k.written
        /\ r.buffer = k.buffer /\ r.piece = k.piece /\ r.from = begin /\ r.upto = end
        /\ r.expected = room
    BY <1>12 DEF Fetch
  <2> HIDE DEF r
  <2>5. Reported(r) = 0 BY <2>4, <1>8 DEF Reported
  <2>6. Aim(s, r, s.size) = room BY <2>4, <1>6 DEF Aim
  <2>7. begin = o + 0 /\ begin <= s.size BY <1>5, <1>6, <1>7
  <2>8. Collected(s, t, r, s.size)
    BY <2>4, <2>5, <2>6, <2>7, <1>5, <1>6, <1>8, <1>10, <1>11 DEF Collected, room, o
  <2>9. Aligned(s, r) BY <2>4, <1>1, <1>4 DEF Aligned
  <2> QED BY <1>1, <1>3, <1>4, <1>13, <2>2, <2>3, <2>4, <2>8, <2>9, MovesOn
<1>14. CASE ~(size[t] = 0 /\ length > 0)
  <2> DEFINE r == [k EXCEPT !.at = "body", !.from = begin, !.upto = end]
  <2>2. task' = [task EXCEPT ![t] = r] /\ size' = [size EXCEPT ![t] = size[t]]
    BY <1>2, <1>14, <1>12
  <2>3. r \in Fetch BY <1>12, <1>5, <1>7, <1>10 DEF Fetch, Places
  <2>4. /\ r.at = "body" /\ r.chunk = c /\ r.net = k.net /\ r.written = k.written
        /\ r.buffer = k.buffer /\ r.piece = k.piece /\ r.from = begin /\ r.upto = end
        /\ r.expected = k.expected
    BY <1>12 DEF Fetch
  <2> HIDE DEF r
  <2>5. Reported(r) = 0 /\ Reported(k) = 0 BY <2>4, <1>8 DEF Reported
  <2>6. Aim(s, r, size[t]) = Aim(s, k, size[t]) /\ (Short(s, r) <=> Short(s, k))
    BY <2>4 DEF Aim, Short
  <2>7. begin = o + 0 /\ begin <= s.size BY <1>5, <1>6, <1>7
  <2>8. Collected(s, t, r, size[t])
    BY <2>4, <2>5, <2>6, <2>7, <1>4, <1>8, <1>10, <1>11 DEF Collected, o
  <2>9. Aligned(s, r) BY <2>4, <1>1, <1>4 DEF Aligned
  <2> QED BY <1>1, <1>3, <1>4, <1>14, <2>2, <2>3, <2>4, <2>8, <2>9, MovesOn
<1> QED BY <1>13, <1>14

\* The clamp leaves what fits the chunk.
LEMMA ClampKeeps ==
  ASSUME NEW s \in Settings, NEW t \in Tasks, NEW k \in Fetch, NEW total \in {0, s.size},
         total = 0 => s.told = 0, InFile(s, k.chunk),
         k.at = "throttled", Collected(s, t, k, total), Aligned(s, k),
         NEW r, r = [k EXCEPT !.at = "copy", !.piece = Clamped(k)]
  PROVE  r \in Fetch /\ Collected(s, t, r, total) /\ Aligned(s, r)
<1> DEFINE got == Reported(k)
           begin == Origin(s, t, k.chunk)
           aim == Aim(s, k, total)
           len == Len(k.piece)
<1>1. /\ k.chunk \in Nat /\ k.piece \in Seq(Nat) /\ k.buffer \in Seq(Nat) /\ k.written \in Nat
      /\ k.expected \in Nat /\ k.from \in Nat /\ k.upto \in Nat /\ k.net \in Nat
      /\ k.chunk \in Chunks
  BY FetcherAssumption DEF Fetch, Chunks
<1>2. /\ aim \in Nat /\ aim > 0 /\ begin \in Nat /\ begin + aim <= s.size
      /\ total = 0 => aim = s.size /\ begin = 0
      /\ k.expected = IF total = 0 THEN 0 ELSE aim
  BY AimFacts
<1>3. s.size \in Nat /\ s.size > 0 BY SettingFacts
<1>4. got \in Nat /\ len \in Nat BY <1>1 DEF Reported
<1>5. /\ Holds(k.piece, begin + got) /\ Holds(k.buffer, begin + k.written)
      /\ Len(k.buffer) <= s.window /\ len <= MaxPiece
      /\ got <= aim
      /\ IF total = 0 THEN k.expected = 0 ELSE k.expected = Room(s, k.chunk) \/ Short(s, k)
      /\ k.from = begin + got + len
      /\ k.from <= s.size /\ k.upto < s.size /\ (total = 0 => k.upto = s.size - 1)
  BY DEF Collected
<1> HIDE DEF got, begin, aim, len
<1>6. \/ Clamped(k) = k.piece /\ (total = 0 \/ got + len <= aim)
      \/ total > 0 /\ aim - got < len /\ Clamped(k) = SubSeq(k.piece, 1, aim - got)
  <2>1. /\ k.expected = IF total = 0 THEN 0 ELSE aim
        /\ aim \in Nat /\ got \in Nat /\ len \in Nat /\ (total > 0 => aim > 0)
        /\ total \in Nat
    BY <1>2, <1>3, <1>4
  <2>2. Clamped(k) = IF k.expected > 0 /\ len > k.expected - got
                     THEN SubSeq(k.piece, 1, k.expected - got) ELSE k.piece
    BY DEF Clamped, got, len
  <2>3. CASE total = 0 BY <2>1, <2>2, <2>3
  <2>4. CASE total > 0
    <3>1. k.expected = aim /\ aim > 0 BY <2>1, <2>4
    <3>2. Clamped(k) = IF len > aim - got THEN SubSeq(k.piece, 1, aim - got) ELSE k.piece
      BY <2>2, <3>1
    <3>3. CASE len > aim - got BY <2>1, <2>4, <3>2, <3>3
    <3>4. CASE ~(len > aim - got) BY <2>1, <2>4, <3>2, <3>4
    <3> QED BY <3>3, <3>4
  <2> QED BY <2>1, <2>3, <2>4
<1>7. CASE Clamped(k) = k.piece /\ (total = 0 \/ got + len <= aim)
  <2>1. got + len <= aim BY <1>2, <1>3, <1>4, <1>5, <1>7
  <2>2. r \in Fetch BY <1>1, <1>7 DEF Fetch, Places
  <2>3. /\ r.at = "copy" /\ r.chunk = k.chunk /\ r.written = k.written /\ r.buffer = k.buffer
        /\ r.piece = k.piece /\ r.from = k.from /\ r.upto = k.upto /\ r.expected = k.expected
    BY <1>7 DEF Fetch
  <2>4. Reported(r) = got BY <2>3 DEF Reported, got
  <2>5. Aim(s, r, total) = aim /\ (Short(s, r) <=> Short(s, k)) BY <2>3 DEF Aim, Short, aim
  <2>6. Collected(s, t, r, total)
    BY <2>1, <2>3, <2>4, <2>5, <1>5 DEF Collected, got, begin, len
  <2>7. Aligned(s, r) BY <2>3 DEF Aligned
  <2> QED BY <2>2, <2>6, <2>7
<1>8. CASE total > 0 /\ aim - got < len /\ Clamped(k) = SubSeq(k.piece, 1, aim - got)
  <2> DEFINE q == SubSeq(k.piece, 1, aim - got)
  <2>1. q \in Seq(Nat) /\ Len(q) = aim - got /\ Holds(q, begin + got)
    <3>1. aim - got \in Nat /\ aim - got <= len BY <1>2, <1>3, <1>4, <1>5, <1>8
    <3>2. begin + got \in Nat BY <1>2, <1>4
    <3> HIDE DEF q
    <3> QED BY <3>1, <3>2, <1>1, <1>5, HoldsPrefix DEF len, q
  <2> HIDE DEF q
  <2>2. r = [k EXCEPT !.at = "copy", !.piece = q] BY <1>8 DEF q
  <2>3. r \in Fetch BY <2>1, <2>2 DEF Fetch, Places
  <2>4. /\ r.at = "copy" /\ r.chunk = k.chunk /\ r.written = k.written /\ r.buffer = k.buffer
        /\ r.piece = q /\ r.from = k.from /\ r.upto = k.upto /\ r.expected = k.expected
    BY <2>2 DEF Fetch
  <2>5. Reported(r) = got BY <2>4 DEF Reported, got
  <2>6. Len(q) <= MaxPiece /\ got + Len(q) = aim
    BY <2>1, <1>2, <1>3, <1>4, <1>5, <1>8, FetcherAssumption, SMTT(20)
  <2>7. got + Len(q) <= aim BY <2>6, <1>2, <1>3
  <2>8. Aim(s, r, total) = aim /\ (Short(s, r) <=> Short(s, k)) BY <2>4 DEF Aim, Short, aim
  <2>9. Collected(s, t, r, total)
    BY <2>1, <2>4, <2>5, <2>6, <2>7, <2>8, <1>5, <1>8 DEF Collected, begin
  <2>10. Aligned(s, r) BY <2>4 DEF Aligned
  <2> QED BY <2>3, <2>9, <2>10
<1> QED BY <1>6, <1>7, <1>8

LEMMA PassesKeeps == ASSUME FileInv, NEW t \in Tasks, Passes(t) PROVE FileInv'
<1> DEFINE k == task[t]
           r == [k EXCEPT !.at = "copy", !.piece = Clamped(k)]
<1>1. Active(t) /\ k.at = "throttled" BY DEF Passes, Active
<1>2. /\ setting \in Settings /\ k \in Fetch /\ k.net <= LongEnough
      /\ InFile(setting, k.chunk)
      /\ Collected(setting, t, k, size[t]) /\ Aligned(setting, k)
      /\ size[t] \in {0, setting.size} /\ (size[t] = 0 => setting.told = 0)
      /\ failures \in 0..setting.faults
  BY <1>1, FetchFacts DEF FetchRight
<1>3. task' = [task EXCEPT ![t] = r] BY <1>1 DEF Passes, FileInv, Typed
<1>4. UNCHANGED <<setting, size, disk, marked, ban, cropped, failures>> BY DEF Passes, history, bounds
<1>5. size' = [size EXCEPT ![t] = size[t]] BY <1>4 DEF FileInv, Typed
<1>6. r.at = "copy" /\ r.chunk = k.chunk /\ r.net = k.net /\ r.written = k.written
  BY <1>2 DEF Fetch
<1>7. r = r OBVIOUS
<1> HIDE DEF r
<1>8. r \in Fetch /\ Collected(setting, t, r, size[t]) /\ Aligned(setting, r)
  BY <1>1, <1>2, ClampKeeps DEF r
<1> QED BY <1>1, <1>2, <1>3, <1>4, <1>5, <1>6, <1>8, MovesOn

LEMMA ArrivesKeeps == ASSUME FileInv, NEW t \in Tasks, Arrives(t) PROVE FileInv'
<1> DEFINE k == task[t]
           begin == Origin(setting, t, k.chunk)
           got == Reported(k)
<1>1. Active(t) /\ k.at = "body" BY DEF Arrives, Active
<1>2. /\ setting \in Settings /\ k \in Fetch /\ k.net <= LongEnough
      /\ InFile(setting, k.chunk)
      /\ Collected(setting, t, k, size[t]) /\ Aligned(setting, k)
      /\ size[t] \in {0, setting.size} /\ (size[t] = 0 => setting.told = 0)
      /\ failures \in 0..setting.faults
      /\ k.from \in Nat /\ k.upto \in Nat /\ begin \in Nat /\ got \in Nat
  BY <1>1, FetchFacts DEF FetchRight
<1>3. PICK n \in 1..Least(MaxPiece, k.upto - k.from + 1) :
        LET x == [k EXCEPT !.from = @ + n, !.piece = [i \in 1..n |-> k.from + i - 1]]
        IN  \/ task' = [task EXCEPT ![t] = [x EXCEPT !.at = "throttled"]]
            \/ task' = [task EXCEPT ![t] = [x EXCEPT !.at = "copy", !.piece = Clamped(x)]]
  BY DEF Arrives
<1>4. UNCHANGED <<setting, size, disk, marked, ban, cropped, failures>> BY DEF Arrives, history, bounds
<1>5. size' = [size EXCEPT ![t] = size[t]] BY <1>4 DEF FileInv, Typed
<1> DEFINE q == [i \in 1..n |-> k.from + i - 1]
           x == [k EXCEPT !.from = @ + n, !.piece = q]
           y == [x EXCEPT !.at = "throttled"]
           r == [y EXCEPT !.at = "copy", !.piece = Clamped(y)]
<1>6. n \in Nat /\ n >= 1 /\ n <= MaxPiece /\ k.from + n <= k.upto + 1
  BY <1>2, <1>3, FetcherAssumption DEF Least
<1>7. /\ Holds(k.buffer, begin + k.written)
      /\ Len(k.buffer) <= setting.window
      /\ got <= Aim(setting, k, size[t])
      /\ IF size[t] = 0 THEN k.expected = 0
         ELSE k.expected = Room(setting, k.chunk) \/ Short(setting, k)
      /\ k.from = begin + got
      /\ k.upto < setting.size /\ (size[t] = 0 => k.upto = setting.size - 1)
  BY <1>1, <1>2 DEF Collected
<1>8. q \in Seq(Nat) /\ Len(q) = n /\ Holds(q, begin + got)
  <2>1. \A i \in 1..n : k.from + i - 1 \in Nat BY <1>2, <1>6
  <2>2. q \in Seq(Nat) /\ Len(q) = n BY <2>1, <1>6
  <2>3. \A i \in 1..n : q[i] = k.from + i - 1 OBVIOUS
  <2> HIDE DEF q
  <2> QED BY <2>2, <2>3, <1>7 DEF Holds
<1> HIDE DEF q
<1>9. y \in Fetch
  <2>1. k.from + n \in Nat BY <1>2, <1>6
  <2> QED BY <2>1, <1>2, <1>8 DEF Fetch, Places
<1>10. /\ y.at = "throttled" /\ y.chunk = k.chunk /\ y.written = k.written
       /\ y.buffer = k.buffer /\ y.piece = q /\ y.from = k.from + n /\ y.upto = k.upto
       /\ y.expected = k.expected /\ y.net = k.net
  BY <1>2 DEF Fetch
<1>11. Clamped(x) = Clamped(y)
  <2>1. x.written = k.written /\ x.buffer = k.buffer /\ x.piece = q /\ x.expected = k.expected
    BY <1>2 DEF Fetch
  <2> HIDE DEF x, y
  <2> QED BY <2>1, <1>10 DEF Clamped, Reported
<1>12. [x EXCEPT !.at = "copy", !.piece = Clamped(x)] = r BY <1>2, <1>11 DEF Fetch
<1>13. r.at = "copy" /\ r.chunk = k.chunk /\ r.written = k.written /\ r.net = k.net
  BY <1>9, <1>10 DEF Fetch
<1>14. task' = [task EXCEPT ![t] = y] \/ task' = [task EXCEPT ![t] = r]
  <2> HIDE DEF y, r
  <2> QED BY <1>3, <1>12 DEF y, q
<1> HIDE DEF x, y
<1>15. Reported(y) = got BY <1>10 DEF Reported
<1>16. Collected(setting, t, y, size[t]) /\ Aligned(setting, y)
  <2>1. setting.size \in Nat /\ k.from + n <= setting.size
    BY <1>2, <1>6, <1>7, SettingFacts, SMTT(20)
  <2>2. k.from + n = begin + got + Len(q) BY <1>7, <1>8
  <2>3. /\ Aim(setting, y, size[t]) = Aim(setting, k, size[t])
        /\ Short(setting, y) <=> Short(setting, k)
    BY <1>10 DEF Aim, Short
  <2>4. Collected(setting, t, y, size[t])
    BY <2>1, <2>2, <2>3, <1>6, <1>7, <1>8, <1>10, <1>15 DEF Collected
  <2>5. Aligned(setting, y) BY <1>1, <1>2, <1>10 DEF Aligned
  <2> QED BY <2>4, <2>5
<1> HIDE DEF r
<1>17. r \in Fetch /\ Collected(setting, t, r, size[t]) /\ Aligned(setting, r)
  BY <1>2, <1>9, <1>10, <1>16, ClampKeeps DEF r
<1>18. CASE task' = [task EXCEPT ![t] = y]
  BY <1>1, <1>2, <1>4, <1>5, <1>9, <1>10, <1>16, <1>18, MovesOn
<1>19. CASE task' = [task EXCEPT ![t] = r]
  BY <1>1, <1>2, <1>4, <1>5, <1>13, <1>17, <1>19, MovesOn
<1> QED BY <1>14, <1>18, <1>19

LEMMA CopiesKeeps == ASSUME FileInv, NEW t \in Tasks, Copies(t) PROVE FileInv'
<1> DEFINE k == task[t]
           s == setting
           n == Least(Len(k.piece), s.window - Len(k.buffer))
           a == SubSeq(k.piece, 1, n)
           b == SubSeq(k.piece, n + 1, Len(k.piece))
           q == k.buffer \o a
           r == [k EXCEPT !.buffer = q, !.piece = b]
           begin == Origin(s, t, k.chunk)
           aim == Aim(s, k, size[t])
           got == Reported(k)
           len == Len(k.piece)
<1>1. Active(t) /\ k.at = "copy" /\ n > 0 BY DEF Copies, Active
<1>2. /\ s \in Settings /\ k \in Fetch /\ k.net <= LongEnough
      /\ Collected(s, t, k, size[t]) /\ Aligned(s, k)
      /\ size[t] \in {0, s.size}
      /\ failures \in 0..s.faults
      /\ k.buffer \in Seq(Nat) /\ k.piece \in Seq(Nat) /\ k.written \in Nat
      /\ k.from \in Nat /\ k.upto \in Nat /\ begin \in Nat /\ got \in Nat
      /\ got = k.written + Len(k.buffer)
      /\ InFile(s, k.chunk) /\ (size[t] = 0 => s.told = 0)
  BY <1>1, FetchFacts DEF FetchRight
<1>3. task' = [task EXCEPT ![t] = r] BY <1>2 DEF Copies, FileInv, Typed
<1>4. UNCHANGED <<setting, size, disk, marked, ban, cropped, failures>> BY DEF Copies, history, bounds
<1>5. size' = [size EXCEPT ![t] = size[t]] BY <1>4 DEF FileInv, Typed
<1>6. n \in Nat /\ n <= len /\ Len(k.buffer) + n <= s.window /\ len \in Nat
  <2>1. s.window \in Nat BY <1>2, SettingFacts
  <2>2. Len(k.buffer) \in Nat /\ len \in Nat BY <1>2
  <2>3. s.window - Len(k.buffer) \in Int BY <2>1, <2>2
  <2>4. n \in Int /\ n <= len /\ n <= s.window - Len(k.buffer)
    <3>1. len \in Int BY <2>2
    <3> QED BY <3>1, <2>3, LeastFacts, Zenon
  <2> HIDE DEF n, len
  <2> QED BY <2>1, <2>2, <2>4, <1>1
<1>7. /\ Holds(k.buffer, begin + k.written) /\ Holds(k.piece, begin + got)
      /\ len <= MaxPiece
      /\ IF size[t] = 0 THEN k.expected = 0 ELSE k.expected = Room(s, k.chunk) \/ Short(s, k)
      /\ got + len <= aim
      /\ k.from = begin + got + len \/ (size[t] > 0 /\ got + len = aim)
      /\ k.from <= s.size /\ k.upto < s.size /\ (size[t] = 0 => k.upto = s.size - 1)
  BY <1>1, <1>2 DEF Collected
<1> HIDE DEF n
<1>19. begin + got \in Nat /\ Len(k.buffer) \in Nat BY <1>2
<1>8. a \in Seq(Nat) /\ Len(a) = n /\ Holds(a, begin + got)
  <2> HIDE DEF got, begin
  <2> QED BY <1>2, <1>6, <1>7, <1>19, HoldsPrefix
<1>9. b \in Seq(Nat) /\ Len(b) = len - n /\ Holds(b, begin + got + n)
  <2> HIDE DEF got, begin
  <2>1. k.piece \in Seq(Nat) /\ begin + got \in Nat /\ n \in Nat /\ Holds(k.piece, begin + got)
    BY <1>2, <1>6, <1>7, <1>19
  <2> HIDE DEF k
  <2>2. /\ b \in Seq(Nat) /\ Len(b) = (IF n <= Len(k.piece) THEN Len(k.piece) - n ELSE 0)
        /\ Holds(b, begin + got + n)
    BY <2>1, HoldsRest
  <2> QED BY <2>2, <1>6
<1> HIDE DEF a, b
<1>10. q \in Seq(Nat) /\ Len(q) = Len(k.buffer) + n /\ Holds(q, begin + k.written)
  <2>1. begin + k.written \in Nat /\ begin + k.written + Len(k.buffer) = begin + got
    <3> HIDE DEF k, begin, got
    <3> QED BY <1>2, <1>19
  <2>2. /\ k.buffer \in Seq(Nat) /\ Holds(k.buffer, begin + k.written)
        /\ a \in Seq(Nat) /\ Len(a) = n /\ Holds(a, begin + k.written + Len(k.buffer))
    BY <2>1, <1>2, <1>7, <1>8
  <2> HIDE DEF k, begin, got
  <2> QED BY <2>1, <2>2, HoldsConcat
<1> HIDE DEF q
<1>11. r \in Fetch BY <1>2, <1>9, <1>10 DEF Fetch
<1>12. /\ r.at = "copy" /\ r.chunk = k.chunk /\ r.net = k.net /\ r.written = k.written
       /\ r.buffer = q /\ r.piece = b /\ r.from = k.from /\ r.upto = k.upto
       /\ r.expected = k.expected
  BY <1>1, <1>2 DEF Fetch
<1> HIDE DEF r
<1>13. Reported(r) = got + n
  <2>1. Reported(r) = k.written + Len(q) BY <1>12 DEF Reported
  <2>2. got = k.written + Len(k.buffer) /\ k.written \in Nat BY <1>2
  <2>3. Len(q) = Len(k.buffer) + n /\ n \in Nat BY <1>6, <1>10
  <2> HIDE DEF got, k
  <2> QED BY <2>1, <2>2, <2>3, <1>19
<1>14. /\ Len(q) <= s.window /\ Len(b) <= MaxPiece
       /\ got + n + Len(b) = got + len
       /\ begin + (got + n) = begin + got + n
  <2>1. MaxPiece \in Nat BY FetcherAssumption
  <2>2. Len(q) <= s.window BY <1>6, <1>10
  <2>3. Len(b) <= MaxPiece /\ got + n + Len(b) = got + len /\ begin + (got + n) = begin + got + n
    <3>1. got \in Nat /\ begin \in Nat /\ len <= MaxPiece /\ len \in Nat BY <1>2, <1>6, <1>7
    <3>2. n \in Nat /\ n <= len /\ Len(b) = len - n BY <1>6, <1>9
    <3> HIDE DEF got, begin, len, k
    <3> QED BY <3>1, <3>2, <2>1
  <2> QED BY <2>2, <2>3
<1>15. got + n <= aim
  <2>1. aim \in Nat BY <1>2, AimFacts
  <2> HIDE DEF aim, got, len, k, s
  <2> QED BY <2>1, <1>2, <1>6, <1>7
<1>16. begin + (got + n) + Len(b) = begin + got + len BY <1>2, <1>6, <1>9
<1>20. Aim(s, r, size[t]) = aim /\ (Short(s, r) <=> Short(s, k)) BY <1>12 DEF Aim, Short
<1>17. Collected(s, t, r, size[t])
  BY <1>20, <1>7, <1>9, <1>10, <1>12, <1>13, <1>14, <1>15, <1>16 DEF Collected
<1>18. Aligned(s, r) BY <1>1, <1>2, <1>12 DEF Aligned
<1> QED BY <1>1, <1>2, <1>3, <1>4, <1>5, <1>11, <1>12, <1>17, <1>18, MovesOn

\* The steps that only change the place.
LEMMA TurnsKeep ==
  ASSUME FileInv, NEW t \in Tasks, Active(t), NEW place \in Places \ {"idle"},
         LET k == task[t]
             r == [k EXCEPT !.at = place]
         IN  /\ Collected(setting, t, r, size[t]) /\ Aligned(setting, r)
             /\ place = "mark" => /\ Snug(setting, k.written, disk[k.chunk])
                                  /\ Short(setting, k) \/ Sealed(setting, k.written, disk[k.chunk]),
         task' = [task EXCEPT ![t].at = place],
         UNCHANGED <<setting, size, disk, marked, ban, cropped>>, failures' \in 0..setting.faults
  PROVE  FileInv'
<1> DEFINE k == task[t]
           r == [k EXCEPT !.at = place]
<1>1. k \in Fetch /\ k.net <= LongEnough /\ size[t] \in {0, setting.size} BY FetchFacts
<1>2. task' = [task EXCEPT ![t] = r] BY DEF FileInv, Typed
<1>3. size' = [size EXCEPT ![t] = size[t]] BY DEF FileInv, Typed
<1>4. /\ r \in Fetch /\ r.at = place /\ r.chunk = k.chunk /\ r.net = k.net
      /\ r.written = k.written /\ r.expected = k.expected
  BY <1>1 DEF Fetch
<1>5. /\ Collected(setting, t, r, size[t]) /\ Aligned(setting, r)
      /\ r.at = "mark" => /\ Snug(setting, r.written, disk[r.chunk])
                          /\ Short(setting, r) \/ Sealed(setting, r.written, disk[r.chunk])
  BY <1>4 DEF Short
<1> HIDE DEF r
<1> QED BY <1>1, <1>2, <1>3, <1>4, <1>5, MovesOn

LEMMA KeepsUpKeeps ==
  ASSUME FileInv, NEW t \in Tasks, KeepsUp(t) \/ IsTooSlow(t)
  PROVE  FileInv'
<1> DEFINE k == task[t]
           place == IF KeepsUp(t) THEN "copy" ELSE "slow"
           r == [k EXCEPT !.at = place]
<1>1. Active(t) /\ k.at = "check" BY DEF KeepsUp, IsTooSlow, Active
<1>2. k \in Fetch /\ Collected(setting, t, k, size[t]) /\ Aligned(setting, k)
      /\ failures \in 0..setting.faults
  BY <1>1, FetchFacts DEF FetchRight
<1>5. UNCHANGED <<setting, size, disk, marked, ban, cropped, failures>>
      /\ task' = [task EXCEPT ![t].at = place]
  BY DEF KeepsUp, IsTooSlow, history, bounds
<1>6. place \in Places \ {"idle"} /\ place # "mark" /\ place \in {"copy", "slow"} BY DEF Places
<1> HIDE DEF place
<1>3. /\ r.at = place /\ r.chunk = k.chunk /\ r.written = k.written /\ r.buffer = k.buffer
      /\ r.piece = k.piece /\ r.from = k.from /\ r.upto = k.upto /\ r.expected = k.expected
  BY <1>2 DEF Fetch
<1>4. Collected(setting, t, r, size[t]) /\ Aligned(setting, r)
  <2> HIDE DEF r
  <2>1. Reported(r) = Reported(k) BY <1>3 DEF Reported
  <2>2. /\ Aim(setting, r, size[t]) = Aim(setting, k, size[t])
        /\ Short(setting, r) <=> Short(setting, k)
    BY <1>3 DEF Aim, Short
  <2> QED BY <2>1, <2>2, <1>1, <1>2, <1>3, <1>6 DEF Collected, Aligned
<1> QED BY <1>1, <1>2, <1>4, <1>5, <1>6, TurnsKeep

LEMMA EndsPieceKeeps == ASSUME FileInv, NEW t \in Tasks, EndsPiece(t) PROVE FileInv'
<1> DEFINE k == task[t]
           done == k.expected > 0 /\ Reported(k) >= k.expected
           place == IF done THEN "finish" ELSE "body"
           r == [k EXCEPT !.at = place]
           aim == Aim(setting, k, size[t])
           begin == Origin(setting, t, k.chunk)
<1>1. Active(t) /\ k.at = "copy" /\ k.piece = <<>> BY DEF EndsPiece, Active
<1>2. /\ k \in Fetch /\ Collected(setting, t, k, size[t]) /\ Aligned(setting, k)
      /\ failures \in 0..setting.faults /\ size[t] \in {0, setting.size}
      /\ setting.size \in Nat
      /\ Reported(k) \in Nat /\ setting \in Settings /\ InFile(setting, k.chunk)
      /\ size[t] = 0 => setting.told = 0
  BY <1>1, FetchFacts, SettingFacts DEF FetchRight
<1>3. /\ r.at = place /\ r.chunk = k.chunk /\ r.written = k.written /\ r.buffer = k.buffer
      /\ r.piece = k.piece /\ r.from = k.from /\ r.upto = k.upto /\ r.expected = k.expected
  BY <1>2 DEF Fetch
<1>4. Len(k.piece) = 0 BY <1>1
<1>5. /\ done => size[t] > 0
      /\ ~done => k.from = begin + Reported(k)
  <2>1. /\ k.expected = (IF size[t] = 0 THEN 0 ELSE aim) /\ aim \in Nat /\ aim > 0
        /\ begin \in Nat
    BY <1>2, AimFacts
  <2>2. \/ k.from = begin + Reported(k) + Len(k.piece)
        \/ size[t] > 0 /\ Reported(k) + Len(k.piece) = aim
    BY <1>1, <1>2 DEF Collected
  <2> HIDE DEF aim, begin
  <2> QED BY <2>1, <2>2, <1>2, <1>4
<1>6. Collected(setting, t, r, size[t]) /\ Aligned(setting, r)
  <2> HIDE DEF r, done
  <2>1. Reported(r) = Reported(k) BY <1>3 DEF Reported
  <2>2. Aim(setting, r, size[t]) = aim /\ (Short(setting, r) <=> Short(setting, k))
    BY <1>3 DEF Aim, Short
  <2>3. CASE done
    <3>1. r.at = "finish" /\ size[t] # 0 BY <2>3, <1>3, <1>5
    <3> QED BY <3>1, <2>1, <2>2, <1>1, <1>2, <1>3 DEF Collected, Aligned
  <2>4. CASE ~done
    <3>1. r.at = "body" BY <2>4, <1>3
    <3> QED BY <3>1, <2>1, <2>2, <2>4, <1>1, <1>2, <1>3, <1>5 DEF Collected, Aligned
  <2> QED BY <2>3, <2>4
<1>7. UNCHANGED <<setting, size, disk, marked, ban, cropped, failures>>
      /\ task' = [task EXCEPT ![t].at = place]
  BY DEF EndsPiece, history, bounds
<1>8. place \in Places \ {"idle"} /\ place # "mark" BY DEF Places
<1> HIDE DEF place, done
<1> QED BY <1>1, <1>2, <1>6, <1>7, <1>8, TurnsKeep

LEMMA BodyEndsKeeps == ASSUME FileInv, NEW t \in Tasks, BodyEnds(t) PROVE FileInv'
<1> DEFINE k == task[t]
           r == [k EXCEPT !.at = "finish"]
<1>1. Active(t) /\ k.at = "body" BY DEF BodyEnds, Active
<1>2. /\ setting \in Settings /\ k \in Fetch
      /\ Collected(setting, t, k, size[t]) /\ Aligned(setting, k)
      /\ failures \in 0..setting.faults /\ size[t] \in {0, setting.size}
      /\ setting.size \in Nat /\ setting.size > 0 /\ setting.faults \in Nat
      /\ Reported(k) \in Nat /\ k.from \in Nat /\ k.upto \in Nat
      /\ setting.told = 0 => Origin(setting, t, k.chunk) = 0
      /\ size[t] = 0 => setting.told = 0
  BY <1>1, FetchFacts, SettingFacts DEF FetchRight
<1>3. /\ r.at = "finish" /\ r.chunk = k.chunk /\ r.written = k.written /\ r.buffer = k.buffer
      /\ r.piece = k.piece /\ r.from = k.from /\ r.upto = k.upto /\ r.expected = k.expected
  BY <1>2 DEF Fetch
<1>4. size[t] = 0 => Reported(k) > 0
  <2> SUFFICES ASSUME size[t] = 0 PROVE Reported(k) > 0 OBVIOUS
  <2>1. /\ k.from = Origin(setting, t, k.chunk) + Reported(k) /\ Origin(setting, t, k.chunk) = 0
        /\ k.upto = setting.size - 1 /\ k.expected = 0
    BY <1>1, <1>2 DEF Collected
  <2>2. k.from > k.upto \/ Reported(k) > 0 BY <2>1 DEF BodyEnds
  <2> QED BY <2>1, <2>2, <1>2
<1>5. Collected(setting, t, r, size[t]) /\ Aligned(setting, r)
  <2> HIDE DEF r
  <2>1. Reported(r) = Reported(k) BY <1>3 DEF Reported
  <2>2. /\ Aim(setting, r, size[t]) = Aim(setting, k, size[t])
        /\ Short(setting, r) <=> Short(setting, k)
    BY <1>3 DEF Aim, Short
  <2> QED BY <2>1, <2>2, <1>1, <1>2, <1>3, <1>4 DEF Collected, Aligned
<1>6. UNCHANGED <<setting, size, disk, marked, ban, cropped>>
      /\ task' = [task EXCEPT ![t].at = "finish"]
  BY DEF BodyEnds, history
<1>7. failures' \in 0..setting.faults
  <2>1. failures' = failures \/ (failures < setting.faults /\ failures' = failures + 1)
    BY DEF BodyEnds
  <2> QED BY <2>1, <1>2
<1>8. "finish" \in Places \ {"idle"} /\ "finish" # "mark" BY DEF Places
<1> QED BY <1>1, <1>5, <1>6, <1>7, <1>8, TurnsKeep

\* A chunk that has been written to its end has nothing behind it.
LEMMA FullIsSealed ==
  ASSUME NEW s \in Settings, NEW t, NEW c \in Nat, InFile(s, c), NEW row \in [Parts -> Cell],
         Row(s, c, row), Stored(s, t, c, Room(s, c), row)
  PROVE  Sealed(s, Room(s, c), row)
<1> SUFFICES ASSUME NEW p \in Parts
             PROVE  Len(row[p].units) = Part(s, Room(s, c), p)
  BY DEF Sealed
<1> DEFINE n == Part(s, Room(s, c), p)
           len == Len(row[p].units)
<1>1. p \in Nat BY FetcherAssumption DEF Parts
<1>2. len \in Nat
  <2>1. row[p] \in Cell OBVIOUS
  <2>2. row[p].units \in Seq(Nat) BY <2>1 DEF Cell
  <2> QED BY <2>2
<1>3. Room(s, c) \in Nat BY RoomFacts, SettingFacts
<1>4. Before(s, p) \in Int /\ n \in Nat BY <1>1, <1>3, PartFacts, SettingFacts
<1>5. len <= n BY DEF Row
<1>6. CASE Before(s, p) < Room(s, c)
  <2>1. n <= len BY <1>6 DEF Stored, Begins
  <2> QED BY <2>1, <1>2, <1>4, <1>5
<1>7. CASE ~(Before(s, p) < Room(s, c))
  <2>1. n = 0 BY <1>3, <1>4, <1>7 DEF Part
  <2> QED BY <2>1, <1>2, <1>5
<1> QED BY <1>6, <1>7

\* Nor has one that a retry has cropped, in the windows it has written: they are full.
LEMMA ShortIsSnug ==
  ASSUME NEW s \in Settings, NEW t, NEW c \in Nat, InFile(s, c), NEW row \in [Parts -> Cell],
         Row(s, c, row), NEW n \in Nat, n % s.window = 0, Stored(s, t, c, n, row)
  PROVE  Snug(s, n, row)
<1> SUFFICES ASSUME NEW p \in Parts, Before(s, p) < n
             PROVE  Len(row[p].units) = Part(s, n, p)
  BY DEF Snug
<1> DEFINE w == s.window
           q == n \div w
           len == Len(row[p].units)
<1>1. p \in Nat BY FetcherAssumption DEF Parts
<1>2. w \in Nat /\ w > 0 BY SettingFacts
<1>3. q \in Nat /\ n = q * w BY <1>2
<1>4. Before(s, p) + w <= n
  <2>1. (p - 1) * w < q * w BY <1>3 DEF Before
  <2> HIDE DEF q, w
  <2>2. p - 1 < q BY <2>1, <1>1, <1>2, <1>3
  <2>3. p <= q BY <2>2, <1>1, <1>3
  <2>4. p * w <= q * w BY <2>3, <1>1, <1>2, <1>3
  <2>5. (p - 1) * w + w = p * w BY <1>1, <1>2
  <2> QED BY <2>4, <2>5, <1>3 DEF Before, w
<1>5. Part(s, n, p) = w BY <1>1, <1>4, PartValue
<1>6. len \in Nat
  <2>1. row[p] \in Cell OBVIOUS
  <2>2. row[p].units \in Seq(Nat) BY <2>1 DEF Cell
  <2> QED BY <2>2
<1>7. w <= len BY <1>5 DEF Stored, Begins
<1>8. len <= Part(s, Room(s, c), p) /\ Part(s, Room(s, c), p) \in 0..w
  <2>1. Room(s, c) \in Int BY RoomFacts
  <2>2. Part(s, Room(s, c), p) \in 0..w BY <2>1, <1>1, PartFacts
  <2> QED BY <2>2 DEF Row
<1> QED BY <1>2, <1>5, <1>6, <1>7, <1>8

LEMMA IsCompleteKeeps == ASSUME FileInv, NEW t \in Tasks, IsComplete(t) PROVE FileInv'
<1> DEFINE k == task[t]
           c == k.chunk
           s == setting
           place == IF size[t] = 0 THEN "cut" ELSE "mark"
           r == [k EXCEPT !.at = place]
           aim == Aim(s, k, size[t])
<1>1. Active(t) /\ k.at = "finish" /\ k.buffer = <<>> /\ LengthIsRight(k)
  BY DEF IsComplete, Active
<1>2. /\ s \in Settings /\ k \in Fetch /\ c \in Nat /\ c \in Chunks
      /\ Collected(s, t, k, size[t]) /\ Aligned(s, k)
      /\ InFile(s, c) /\ Stored(s, t, c, k.written, disk[c])
      /\ failures \in 0..s.faults /\ size[t] \in {0, s.size}
      /\ size[t] = 0 => s.told = 0
      /\ s.size \in Nat /\ s.chunk \in Nat
      /\ k.written \in Nat /\ Reported(k) = k.written + Len(k.buffer)
  BY <1>1, FetchFacts, SettingFacts DEF FetchRight
<1>3. /\ r.at = place /\ r.chunk = c /\ r.written = k.written /\ r.buffer = k.buffer
      /\ r.piece = k.piece /\ r.from = k.from /\ r.upto = k.upto /\ r.expected = k.expected
  BY <1>2 DEF Fetch
<1>4. k.written > 0 /\ (size[t] > 0 => k.written = aim)
  <2>1. Reported(k) = k.written
    <3>1. Len(k.buffer) = 0 BY <1>1
    <3> QED BY <3>1, <1>2
  <2>2. /\ k.expected = (IF size[t] = 0 THEN 0 ELSE aim) /\ aim \in Nat /\ aim > 0
    BY <1>2, AimFacts
  <2>3. size[t] = 0 => Reported(k) > 0 BY <1>1, <1>2 DEF Collected
  <2> HIDE DEF aim
  <2> QED BY <2>1, <2>2, <2>3, <1>1, <1>2 DEF LengthIsRight
<1>5. Collected(s, t, r, size[t]) /\ Aligned(s, r)
  <2> HIDE DEF r
  <2>1. Reported(r) = Reported(k) BY <1>3 DEF Reported
  <2>2. Aim(s, r, size[t]) = aim /\ (Short(s, r) <=> Short(s, k)) BY <1>3 DEF Aim, Short
  <2>3. place \in {"cut", "mark"} OBVIOUS
  <2> HIDE DEF place
  <2> QED BY <2>1, <2>2, <2>3, <1>1, <1>2, <1>3, <1>4 DEF Collected, Aligned
<1>6. place = "mark" => /\ Snug(s, k.written, disk[c])
                        /\ Short(s, k) \/ Sealed(s, k.written, disk[c])
  <2> SUFFICES ASSUME place = "mark"
               PROVE  /\ Snug(s, k.written, disk[c])
                      /\ Short(s, k) \/ Sealed(s, k.written, disk[c])
    OBVIOUS
  <2>1. size[t] > 0 BY <1>2
  <2>2. k.written = k.expected BY <2>1, <1>4 DEF Aim
  <2>3. disk[c] \in [Parts -> Cell] /\ Row(s, c, disk[c])
    BY <1>2 DEF FileInv, Typed, RowsRight
  <2>4. k.expected = Room(s, c) \/ Short(s, k) BY <2>1, <1>2 DEF Collected
  <2>5. CASE k.expected = Room(s, c)
    <3>1. Sealed(s, k.written, disk[c]) BY <2>2, <2>3, <2>5, <1>2, FullIsSealed
    <3> QED BY <3>1 DEF Sealed, Snug
  <2>6. CASE Short(s, k)
    <3>1. k.written % s.window = 0 BY <2>2, <2>6, <1>2, SettingFacts DEF Short
    <3>2. Snug(s, k.written, disk[c]) BY <3>1, <2>3, <1>2, ShortIsSnug
    <3> QED BY <3>2, <2>6
  <2> QED BY <2>4, <2>5, <2>6
<1>7. UNCHANGED <<setting, size, disk, marked, ban, cropped, failures>>
      /\ task' = [task EXCEPT ![t].at = place]
  BY DEF IsComplete, history, bounds
<1>8. place \in Places \ {"idle"} BY DEF Places
<1> HIDE DEF place
<1> QED BY <1>1, <1>2, <1>5, <1>6, <1>7, <1>8, TurnsKeep

\* The steps that end a fetch without a report.
LEMMA FailureKeeps ==
  ASSUME FileInv, NEW t \in Tasks,
         Breaks(t) \/ Stops(t) \/ LeavesSlow(t) \/ IsIncomplete(t)
  PROVE  FileInv'
<1>1. task' = [task EXCEPT ![t] = Idle] /\ UNCHANGED <<setting, size, disk, marked, cropped>>
  BY DEF Breaks, Stops, LeavesSlow, IsIncomplete, GivesUp, history
<1>2. setting \in Settings /\ ban \in [Sources -> Nat] /\ failures \in 0..setting.faults
  BY DEF FileInv, Typed
<1>3. ASSUME NEW why, GivesUp(t, why) PROVE ban' \in [Sources -> Nat]
  <2>1. PICK d \in Health!Bans(why) : ban' = [ban EXCEPT ![Source(t)] = d]
    BY <1>3 DEF GivesUp, Health!RecordFailure
  <2>2. d \in Nat BY <2>1, FetcherAssumption DEF Health!Bans
  <2> QED BY <2>1, <2>2, <1>2
<1>4. ban' \in [Sources -> Nat]
  BY <1>2, <1>3 DEF Breaks, Stops, LeavesSlow, IsIncomplete
<1>5. failures' \in 0..setting.faults
  <2>1. setting.faults \in Nat BY <1>2, SettingFacts
  <2>2. failures' = failures \/ (failures < setting.faults /\ failures' = failures + 1)
    BY DEF Breaks, Stops, LeavesSlow, IsIncomplete, bounds
  <2> QED BY <2>1, <2>2, <1>2
<1> QED BY <1>1, <1>4, <1>5, GoesIdle

LEMMA BeginKeeps == ASSUME FileInv, NEW t \in Tasks, Begin(t) PROVE FileInv'
<1> DEFINE s == setting
<1>1. /\ s \in Settings /\ task \in [Tasks -> Fetch] /\ size \in [Tasks -> {0, s.size}]
      /\ disk \in [Chunks -> [Parts -> Cell]] /\ ~Active(t)
  BY DEF FileInv, Typed, Begin, Active
<1>2. PICK c \in Pending :
        task' = [task EXCEPT ![t] =
                   [Idle EXCEPT !.at = "open", !.chunk = c,
                      !.expected = IF size[t] > 0 THEN Expected(c, size[t]) ELSE 0]]
  BY DEF Begin
<1> DEFINE wanted == IF size[t] > 0 THEN Expected(c, size[t]) ELSE 0
           k == [Idle EXCEPT !.at = "open", !.chunk = c, !.expected = wanted]
<1>3. c \in 0..(TotalChunks - 1) /\ (\A m \in marked : m.chunk # c)
      /\ \A u \in Tasks : Active(u) => task[u].chunk # c
  BY DEF Pending, Active
<1>4. UNCHANGED <<setting, size, disk, marked, ban, cropped, failures>> BY DEF Begin, history, bounds
<1>5. InFile(s, c) /\ c \in Chunks /\ c \in Nat
  BY <1>1, <1>3, ChunkInFile, FetcherAssumption DEF Chunks
<1>6. /\ Room(s, c) \in Nat \ {0} /\ Origin(s, t, c) \in Nat
      /\ s.size \in Nat /\ s.size > 0 /\ s.chunk \in Nat /\ s.window \in Nat
      /\ s.told = 0 => c = 0 /\ Room(s, c) = s.size
  BY <1>1, <1>5, RoomFacts, OriginFacts, SettingFacts
<1>7. /\ wanted \in Nat
      /\ IF size[t] = 0 THEN wanted = 0
         ELSE \/ wanted = Room(s, c)
              \/ s.told = 0 /\ s.chunk < s.size /\ wanted = s.chunk
  <2>1. size[t] = 0 \/ size[t] = s.size BY <1>1
  <2>2. CASE size[t] = 0 BY <2>2
  <2>3. CASE size[t] = s.size
    <3>1. wanted = Least(s.chunk, s.size - Start(c)) /\ size[t] # 0
      BY <2>3, <1>6 DEF Expected
    <3>2. CASE s.told = 0
      <4>1. Start(c) = 0 BY <3>2, <1>6 DEF Start
      <4>2. wanted = Least(s.chunk, s.size) BY <3>1, <4>1, <1>6
      <4> HIDE DEF wanted
      <4> QED BY <3>1, <3>2, <4>2, <1>6 DEF Least
    <3>3. CASE s.told # 0
      <4>1. wanted = Room(s, c) BY <3>1, <3>3 DEF Room, Start, Base
      <4> QED BY <3>1, <4>1, <1>6
    <3> QED BY <3>2, <3>3
  <2> QED BY <2>1, <2>2, <2>3
<1> HIDE DEF wanted
<1>8. /\ k.at = "open" /\ k.chunk = c /\ k.expected = wanted /\ k.piece = <<>>
      /\ k.buffer = <<>> /\ k.written = 0 /\ k.net = 0
  BY DEF Idle
<1>9. k \in Fetch BY <1>5, <1>7, IdleFacts DEF Fetch, Places
<1>10. task' = [task EXCEPT ![t] = k] BY <1>2 DEF wanted
<1> HIDE DEF k
<1>11. FetchRight(s, t, k, size[t], disk[c])
  <2>1. Len(<<>>) = 0 /\ 0 % s.window = 0 BY <1>1, SettingFacts
  <2>2. Reported(k) = 0 BY <1>8, <2>1 DEF Reported
  <2>3. Holds(<<>>, Origin(s, t, c) + 0) BY DEF Holds
  <2>4. MaxPiece \in Nat BY FetcherAssumption
  <2>9. 0 <= Aim(s, k, size[t])
    <3>1. Aim(s, k, size[t]) = Room(s, c) \/ Aim(s, k, size[t]) = wanted BY <1>8 DEF Aim
    <3> QED BY <3>1, <1>6, <1>7
  <2>10. IF size[t] = 0 THEN k.expected = 0 ELSE k.expected = Room(s, c) \/ Short(s, k)
    BY <1>7, <1>8 DEF Short
  <2>5. Collected(s, t, k, size[t])
    BY <2>1, <2>2, <2>3, <2>4, <2>9, <2>10, <1>6, <1>8 DEF Collected
  <2>6. Aligned(s, k) BY <2>1, <1>8 DEF Aligned
  <2>7. ASSUME NEW p \in Parts PROVE ~(Before(s, p) < 0)
    <3>1. p \in Nat /\ p >= 1 BY FetcherAssumption DEF Parts
    <3>2. (p - 1) * s.window >= 0 BY <3>1, <1>6
    <3>3. (p - 1) * s.window \in Int BY <3>1, <1>6
    <3> QED BY <3>2, <3>3 DEF Before
  <2>8. Stored(s, t, c, k.written, disk[c]) BY <2>7, <1>8 DEF Stored
  <2> QED BY <2>5, <2>6, <2>8, <1>5, <1>8 DEF FetchRight
<1>12. /\ task' \in [Tasks -> Fetch] /\ task'[t] = k
       /\ \A u \in Tasks \ {t} : task'[u] = task[u]
  BY <1>1, <1>9, <1>10
<1>13. Typed' BY <1>4, <1>12 DEF FileInv, Typed
<1>14. Exclusive' BY <1>3, <1>4, <1>8, <1>12 DEF FileInv, Exclusive, Active
<1>15. RowsRight' /\ SizesRight' /\ MarksRight'
  BY <1>4 DEF FileInv, RowsRight, SizesRight, MarksRight
<1>16. FetchesRight'
  <2> SUFFICES ASSUME NEW u \in Tasks
               PROVE  IF task'[u].at # "idle"
                      THEN FetchRight(setting, u, task'[u], size[u], disk[task'[u].chunk])
                      ELSE task'[u] = Idle
    BY <1>4 DEF FetchesRight, Active
  <2>1. CASE u = t BY <1>8, <1>11, <1>12, <2>1
  <2>2. CASE u # t BY <1>12, <2>2 DEF FileInv, FetchesRight, Active
  <2> QED BY <2>1, <2>2
<1>17. Slow'
  <2>1. Grace \in Nat BY FetcherAssumption
  <2> QED BY <2>1, <1>4, <1>6, <1>8, <1>12 DEF FileInv, Slow, LongEnough
<1> QED BY <1>13, <1>14, <1>15, <1>16, <1>17 DEF FileInv

-------------------------------------------------------------------------------
\* The steps that change the file.

\* A window that is written after the ones before it.
LEMMA WindowWritten ==
  ASSUME NEW s \in Settings, NEW t \in Tasks, NEW c \in Nat, InFile(s, c),
         NEW row \in [Parts -> Cell], Row(s, c, row),
         NEW n \in Nat, Stored(s, t, c, n, row), n % s.window = 0,
         NEW q \in Seq(Nat), Len(q) > 0, Len(q) <= s.window, n + Len(q) <= Room(s, c),
         Holds(q, Origin(s, t, c) + n),
         NEW p, p = (n \div s.window) + 1,
         NEW new,
         new = [row EXCEPT ![p] =
                  [by |-> t, units |-> q \o SubSeq(row[p].units, Len(q) + 1, Len(row[p].units))]]
  PROVE  new \in [Parts -> Cell] /\ Row(s, c, new) /\ Stored(s, t, c, n + Len(q), new)
<1> DEFINE w == s.window
           begin == Origin(s, t, c)
           room == Room(s, c)
           old == row[p].units
           rest == SubSeq(old, Len(q) + 1, Len(old))
           all == q \o rest
           len == Len(q)
<1>1. w \in Nat /\ w > 0 BY SettingFacts
<1>2. begin \in Nat /\ room \in Nat /\ room <= Most(s) /\ Most(s) \in Nat
  BY RoomFacts, OriginFacts, <1>1
<1>3. len \in Nat /\ len > 0 OBVIOUS
<1>4. p \in Parts /\ Before(s, p) = n
  <2>1. n < Most(s)
    <3> HIDE DEF room, len
    <3>1. n + len <= room BY DEF room, len
    <3> QED BY <3>1, <1>2, <1>3
  <2> QED BY <2>1, WindowAt
<1>5. p \in Nat BY <1>4, FetcherAssumption DEF Parts
<1>6. old \in Seq(Nat) /\ Len(old) \in Nat
  <2>1. row[p] \in Cell BY <1>4
  <2>2. old \in Seq(Nat) BY <2>1 DEF Cell
  <2> QED BY <2>2
<1>7. Len(old) <= Part(s, room, p) BY <1>4 DEF Row
<1>8. begin + n \in Int BY <1>2
<1>9. rest \in Seq(Nat) /\ Len(rest) = (IF len <= Len(old) THEN Len(old) - len ELSE 0)
  <2> HIDE DEF old, begin, len
  <2> QED BY <1>3, <1>6, RestFacts DEF len
<1> HIDE DEF rest
<1>10. /\ all \in Seq(Nat) /\ Len(all) = len + Len(rest) /\ all # <<>>
       /\ all[1] = begin + n
       /\ \A i \in Nat : i <= len => Begins(all, begin + n, i)
  <2>1. Holds(q, begin + n) OBVIOUS
  <2> HIDE DEF begin, len
  <2>2. /\ all \in Seq(Nat) /\ Len(all) = Len(q) + Len(rest)
        /\ Len(q) > 0 => all # <<>> /\ all[1] = begin + n
    <3>1. 0 \in Nat /\ 0 <= Len(q) OBVIOUS
    <3> QED BY <3>1, <2>1, <1>8, <1>9, BeginsConcat
  <2>3. ASSUME NEW i \in Nat, i <= Len(q) PROVE Begins(all, begin + n, i)
    BY <2>1, <2>3, <1>8, <1>9, BeginsConcat
  <2> QED BY <2>2, <2>3, <1>3 DEF len
<1> HIDE DEF all
<1>11. /\ new \in [Parts -> Cell] /\ new[p] = [by |-> t, units |-> all]
       /\ \A r \in Parts \ {p} : new[r] = row[r]
  <2>1. new = [row EXCEPT ![p] = [by |-> t, units |-> all]] BY DEF all, rest
  <2>2. [by |-> t, units |-> all] \in Cell BY <1>10 DEF Cell
  <2> HIDE DEF old
  <2>3. new[p] = [by |-> t, units |-> all] BY <2>1, <1>4
  <2>4. \A r \in Parts \ {p} : new[r] = row[r] BY <2>1, <1>4
  <2>5. new \in [Parts -> Cell] BY <2>1, <2>2, <1>4
  <2> QED BY <2>3, <2>4, <2>5
<1>w. new[p].by = t /\ new[p].units = all
  <2> DEFINE cell == [by |-> t, units |-> all]
  <2>1. cell.by = t /\ cell.units = all OBVIOUS
  <2>2. new[p] = cell BY <1>11
  <2> HIDE DEF cell
  <2> QED BY <2>1, <2>2
<1>12. Part(s, room, p) = Least(w, room - n) BY <1>2, <1>3, <1>4 DEF Part
<1>13. Len(all) <= Part(s, room, p)
  <2>1. len <= Part(s, room, p) /\ Part(s, room, p) \in Int
    <3> HIDE DEF room, len
    <3>1. len <= w /\ len <= room - n BY <1>1, <1>2, <1>3 DEF room, len
    <3> QED BY <3>1, <1>1, <1>2, <1>3, <1>12, SMTT(20) DEF Least
  <2>2. Len(all) = len \/ Len(all) = Len(old)
    <3> HIDE DEF old, len
    <3> QED BY <1>3, <1>6, <1>9, <1>10
  <2> QED BY <2>1, <2>2, <1>7
<1>14. Row(s, c, new)
  <2> SUFFICES ASSUME NEW r \in Parts
               PROVE  /\ Len(new[r].units) <= Part(s, Room(s, c), r)
                      /\ new[r].units # <<>> =>
                           new[r].units[1] = Origin(s, new[r].by, c) + Before(s, r)
    BY DEF Row
  <2>1. CASE r = p BY <2>1, <1>4, <1>10, <1>w, <1>13
  <2>2. CASE r # p BY <2>2, <1>11 DEF Row
  <2> QED BY <2>1, <2>2
<1>15. Stored(s, t, c, n + len, new)
  <2> SUFFICES ASSUME NEW r \in Parts, Before(s, r) < n + len
               PROVE  /\ new[r].by = t
                      /\ Begins(new[r].units, Origin(s, t, c) + Before(s, r), Part(s, n + len, r))
    BY DEF Stored
  <2>1. r \in Nat BY FetcherAssumption DEF Parts
  <2>2. CASE r = p
    <3>1. Part(s, n + len, p) = Least(w, n + len - n) BY <1>3, <1>4 DEF Part
    <3>2. Part(s, n + len, p) <= len BY <3>1, <1>1, <1>3 DEF Least
    <3>4. Part(s, n + len, p) \in Nat
      <4>1. Part(s, n + len, p) \in 0..w BY <2>1, <2>2, <1>1, <1>3, PartFacts
      <4> QED BY <4>1, <1>1
    <3> HIDE DEF len
    <3>5. Begins(all, begin + n, Part(s, n + len, p)) BY <3>2, <3>4, <1>10
    <3> QED BY <3>5, <1>4, <1>w, <2>2
  <2>3. CASE r < p
    <3>1. Before(s, r) \in Int /\ Before(s, r) + w <= n BY <2>1, <2>3, <1>4, <1>5, WindowFacts
    <3>2. new[r] = row[r]
      <4>1. r # p BY <2>1, <2>3, <1>5
      <4> QED BY <4>1, <1>11
    <3>3. Before(s, r) < n BY <3>1, <1>1
    <3>4. row[r].by = t /\ Begins(row[r].units, begin + Before(s, r), Part(s, n, r))
      BY <3>3 DEF Stored
    <3>5. Part(s, n, r) = w BY <3>1, <2>1, PartValue
    <3>6. Part(s, n + len, r) = w
      <4>1. n + len \in Int /\ Before(s, r) + w <= n + len BY <3>1, <1>1, <1>3
      <4> HIDE DEF len
      <4> QED BY <4>1, <2>1, PartValue
    <3> QED BY <3>2, <3>4, <3>5, <3>6
  <2>4. CASE r > p
    <3>1. Before(s, r) \in Int /\ n + w <= Before(s, r) BY <2>1, <2>4, <1>4, <1>5, WindowFacts
    <3> QED BY <3>1, <1>1, <1>3
  <2> QED BY <2>1, <2>2, <2>3, <2>4, <1>5
<1> QED BY <1>11, <1>14, <1>15

LEMMA WritesKeeps ==
  ASSUME FileInv, NEW t \in Tasks, Flushes(t) \/ FlushesRest(t)
  PROVE  FileInv'
<1> DEFINE k == task[t]
           s == setting
           c == k.chunk
           p == (k.written \div s.window) + 1
           len == Len(k.buffer)
           row == disk[c]
           old == row[p].units
           new == [row EXCEPT ![p] =
                     [by |-> t, units |-> k.buffer \o SubSeq(old, len + 1, Len(old))]]
           next == IF k.at = "copy" THEN "check" ELSE "finish"
           sum == k.written + len
           r == [k EXCEPT !.at = next, !.buffer = <<>>, !.written = sum]
<1>1. /\ Active(t) /\ k.at \in {"copy", "finish"} /\ Writes(t, next)
      /\ k.at = "copy" => len = s.window
      /\ k.at = "finish" => k.buffer # <<>>
  BY DEF Flushes, FlushesRest, Active
<1>2. /\ s \in Settings /\ k \in Fetch /\ c \in Nat /\ c \in Chunks /\ k.net <= LongEnough
      /\ Collected(s, t, k, size[t]) /\ Aligned(s, k) /\ InFile(s, c)
      /\ Stored(s, t, c, k.written, row)
      /\ failures \in 0..s.faults /\ size[t] \in {0, s.size}
      /\ k.written \in Nat /\ k.buffer \in Seq(Nat) /\ k.piece \in Seq(Nat)
      /\ Reported(k) = k.written + len
      /\ (size[t] = 0 => s.told = 0)
      /\ Room(s, c) \in Nat /\ Origin(s, t, c) \in Nat
      /\ s.window \in Nat /\ s.window > 0
  BY <1>1, FetchFacts, SettingFacts, SMTT(20) DEF FetchRight
<1>3. row \in [Parts -> Cell] /\ Row(s, c, row) /\ disk \in [Chunks -> [Parts -> Cell]]
      /\ task \in [Tasks -> Fetch] /\ size \in [Tasks -> {0, s.size}]
  BY <1>2 DEF FileInv, Typed, RowsRight
<1>4. len \in Nat /\ len > 0
  <2>1. len \in Nat BY <1>2
  <2>2. k.buffer # <<>> => len # 0 BY <1>2, EmptySeq
  <2> QED BY <2>1, <2>2, <1>1, <1>2
<1>5. k.written % s.window = 0 BY <1>1, <1>2, <1>4 DEF Aligned
<1>6. len <= s.window /\ k.written + len <= Room(s, c) /\ Holds(k.buffer, Origin(s, t, c) + k.written)
  <2> DEFINE aim == Aim(s, k, size[t])
  <2>1. aim \in Nat /\ aim <= Room(s, c) BY <1>2, AimFacts
  <2>2. /\ Len(k.buffer) <= s.window /\ Holds(k.buffer, Origin(s, t, c) + k.written)
        /\ Reported(k) <= aim
    BY <1>2 DEF Collected
  <2>3. len \in Nat /\ Reported(k) = k.written + len BY <1>2
  <2> HIDE DEF aim, c, s
  <2> QED BY <2>1, <2>2, <2>3, <1>2
<1>7. /\ new \in [Parts -> Cell] /\ Row(s, c, new)
      /\ Stored(s, t, c, sum, new)
  <2> HIDE DEF row, c, k, s, p, new, len
  <2>1. new = [row EXCEPT ![p] =
          [by |-> t, units |-> k.buffer \o SubSeq(row[p].units, Len(k.buffer) + 1,
                                                  Len(row[p].units))]]
    BY DEF new, len
  <2>2. p = (k.written \div s.window) + 1 BY DEF p
  <2>3. Len(k.buffer) > 0 /\ Len(k.buffer) <= s.window /\ k.written + Len(k.buffer) <= Room(s, c)
    BY <1>4, <1>6 DEF len
  <2>4. Stored(s, t, c, k.written + Len(k.buffer), new) /\ new \in [Parts -> Cell] /\ Row(s, c, new)
    BY <2>1, <2>2, <2>3, <1>2, <1>3, <1>5, <1>6, WindowWritten, ZenonT(30)
  <2> QED BY <2>4 DEF len
<1>8. /\ disk' = [disk EXCEPT ![c] = new]
      /\ task' = [task EXCEPT ![t] = r]
      /\ UNCHANGED <<setting, size, marked, ban, cropped, failures>>
  <2>1. disk' = [disk EXCEPT ![c][p] =
                   [by |-> t, units |-> k.buffer \o SubSeq(old, len + 1, Len(old))]]
        /\ task' = [task EXCEPT ![t].at = next, ![t].buffer = <<>>, ![t].written = @ + len]
        /\ UNCHANGED <<setting, size, marked, ban, cropped, failures>>
    BY <1>1 DEF Writes, history, bounds
  <2> QED BY <2>1, <1>2, <1>3
<1>9. size' = [size EXCEPT ![t] = size[t]] BY <1>3, <1>8
<1>10. sum \in Nat BY <1>2, <1>4, SMTT(20)
<1>11. next \in {"check", "finish"} /\ (next = "check" <=> k.at = "copy") BY <1>1
<1> HIDE DEF new, next, sum
<1>12. r \in Fetch
  <2>1. <<>> \in Seq(Nat) OBVIOUS
  <2> QED BY <2>1, <1>2, <1>10, <1>11 DEF Fetch, Places
<1>13. /\ r.at = next /\ r.chunk = c /\ r.net = k.net /\ r.written = sum
       /\ r.buffer = <<>> /\ r.piece = k.piece /\ r.from = k.from /\ r.upto = k.upto
       /\ r.expected = k.expected
  BY <1>2 DEF Fetch
<1> HIDE DEF r
<1>14. Len(<<>>) = 0 OBVIOUS
<1>15. Reported(r) = Reported(k)
  <2>1. Reported(r) = sum + 0 BY <1>13, <1>14 DEF Reported
  <2> QED BY <2>1, <1>2, <1>10 DEF sum
<1>19. Aim(s, r, size[t]) = Aim(s, k, size[t]) /\ (Short(s, r) <=> Short(s, k))
  BY <1>13 DEF Aim, Short
<1>16. Collected(s, t, r, size[t])
  <2>1. Holds(r.buffer, Origin(s, t, c) + sum) BY <1>13, <1>14 DEF Holds
  <2>2. CASE next = "check"
    <3>1. k.at = "copy" /\ r.at = "check" BY <2>2, <1>11, <1>13
    <3> QED BY <3>1, <2>1, <1>2, <1>13, <1>14, <1>15, <1>19 DEF Collected
  <2>3. CASE next = "finish"
    <3>1. k.at = "finish" /\ r.at = "finish" BY <2>3, <1>1, <1>11, <1>13
    <3> QED BY <3>1, <2>1, <1>2, <1>13, <1>14, <1>15, <1>19 DEF Collected
  <2> QED BY <2>2, <2>3, <1>11
<1>17. Aligned(s, r)
  <2>1. CASE k.at = "copy"
    <3>1. sum % s.window = 0 BY <2>1, <1>1, <1>2, <1>5, NextWindow DEF sum
    <3> QED BY <3>1, <1>13 DEF Aligned
  <2>2. CASE k.at = "finish" BY <2>2, <1>1, <1>11, <1>13 DEF Aligned
  <2> QED BY <2>1, <2>2, <1>1
<1>18. FetchRight(s, t, r, size[t], new)
  BY <1>2, <1>7, <1>11, <1>13, <1>16, <1>17 DEF FetchRight
<1> QED
  BY <1>1, <1>2, <1>7, <1>8, <1>9, <1>11, <1>12, <1>13, <1>18, GoesOn

\* A chunk that is cut behind its n units.
CutRow(s, n, row) ==
  LET last == (n + s.window - 1) \div s.window
  IN  [p \in Parts |->
         IF p > last THEN Empty
         ELSE IF p < last THEN row[p]
         ELSE [row[p] EXCEPT !.units = SubSeq(@, 1, n - (last - 1) * s.window)]]

LEMMA ChunkCut ==
  ASSUME NEW s \in Settings, NEW t \in Tasks, NEW c \in Nat, InFile(s, c),
         NEW row \in [Parts -> Cell], Row(s, c, row),
         NEW n \in Nat \ {0}, n <= Room(s, c), Stored(s, t, c, n, row),
         NEW new, new = CutRow(s, n, row)
  PROVE  new \in [Parts -> Cell] /\ Row(s, c, new) /\ Stored(s, t, c, n, new) /\ Sealed(s, n, new)
<1> DEFINE w == s.window
           last == (n + w - 1) \div w
           begin == Origin(s, t, c)
           room == Room(s, c)
           rest == n - Before(s, last)
<1>1. w \in Nat /\ w > 0 BY SettingFacts
<1>2. begin \in Nat /\ room \in Nat /\ room <= Most(s) /\ Most(s) \in Nat
  BY RoomFacts, OriginFacts, <1>1
<1>3. /\ last \in Nat /\ Before(s, last) < n /\ n <= Before(s, last) + w
      /\ last \in Parts /\ Before(s, last) \in Int
  <2>1. /\ last \in Nat /\ Before(s, last) < n /\ n <= Before(s, last) + w
        /\ n <= Most(s) => last \in Parts
    BY LastWindow
  <2>2. n <= Most(s) BY <1>1, <1>2
  <2>3. Before(s, last) \in Int
    <3> HIDE DEF last
    <3> QED BY <2>1, PartFacts
  <2> QED BY <2>1, <2>2, <2>3
<1>4. rest \in Nat /\ rest > 0 /\ rest <= w
  <2> DEFINE b == Before(s, last)
  <2>1. b \in Int /\ b < n /\ n <= b + w BY <1>3
  <2> HIDE DEF b
  <2> QED BY <2>1, <1>1 DEF b
<1>10. ASSUME NEW p \in Parts
       PROVE  new[p] = IF p > last THEN Empty
                       ELSE IF p < last THEN row[p]
                       ELSE [row[p] EXCEPT !.units = SubSeq(@, 1, n - (last - 1) * w)]
  BY DEF CutRow
<1> HIDE DEF last
<1>5. ASSUME NEW p \in Parts
      PROVE  /\ new[p] \in Cell
             /\ Len(new[p].units) <= Part(s, room, p)
             /\ new[p].units # <<>> =>
                  new[p].units[1] = Origin(s, new[p].by, c) + Before(s, p)
             /\ Len(new[p].units) = Part(s, n, p)
             /\ Before(s, p) < n =>
                  new[p].by = t /\ Begins(new[p].units, begin + Before(s, p), Part(s, n, p))
  <2>1. p \in Nat /\ p >= 1 BY FetcherAssumption DEF Parts
  <2>2. row[p] \in Cell /\ row[p].units \in Seq(Nat)
    <3>1. row[p] \in Cell OBVIOUS
    <3> QED BY <3>1 DEF Cell
  <2>3. /\ Before(s, p) \in Int /\ Part(s, room, p) \in 0..w /\ Part(s, n, p) \in 0..w
    <3>1. room \in Int /\ n \in Int BY <1>2
    <3> HIDE DEF room
    <3> QED BY <3>1, <2>1, PartFacts
  <2>4. /\ Len(row[p].units) <= Part(s, room, p)
        /\ row[p].units # <<>> =>
             row[p].units[1] = Origin(s, row[p].by, c) + Before(s, p)
    BY DEF Row
  <2>5. Before(s, p) < n =>
          row[p].by = t /\ Begins(row[p].units, begin + Before(s, p), Part(s, n, p))
    BY DEF Stored
  <2>6. CASE p > last
    <3>1. new[p] = Empty BY <2>6, <1>10
    <3>2. Before(s, last) + w <= Before(s, p) BY <2>1, <2>6, <1>3, WindowFacts
    <3>3. n <= Before(s, p) BY <3>2, <1>1, <1>3, <2>3
    <3>4. Part(s, n, p) = 0 BY <3>3 DEF Part
    <3>5. Empty \in Cell /\ Empty.units = <<>> /\ Len(<<>>) = 0 BY DEF Empty, Cell
    <3>7. ~(Before(s, p) < n) BY <3>3, <2>3
    <3>8. Len(new[p].units) = 0 /\ 0 <= Part(s, room, p) BY <3>1, <3>5, <2>3, <1>1
    <3> QED BY <3>1, <3>4, <3>5, <3>7, <3>8
  <2>7. CASE p < last
    <3>1. ~(p > last)
      <4>1. last \in Nat BY <1>3
      <4> HIDE DEF rest
      <4> QED BY <4>1, <2>1, <2>7
    <3>2. new[p] = row[p] BY <2>7, <3>1, <1>10
    <3>3. Before(s, p) + w <= Before(s, last) BY <2>1, <2>7, <1>3, WindowFacts
    <3>4. Before(s, p) < n /\ Before(s, p) + w <= n BY <3>3, <1>1, <1>3, <2>3
    <3>5. Part(s, n, p) = w BY <3>4, <2>1, PartValue
    <3>6. Len(row[p].units) \in Nat BY <2>2
    <3>8. Part(s, n, p) <= Len(row[p].units) BY <3>4, <2>5 DEF Begins
    <3>7. Len(row[p].units) = Part(s, n, p) BY <3>5, <3>6, <3>8, <2>3, <2>4, <1>1
    <3> QED BY <3>2, <3>4, <3>7, <2>2, <2>4, <2>5
  <2>8. CASE p = last
    <3> DEFINE q == SubSeq(row[p].units, 1, rest)
    <3>1. ~(p > last) /\ ~(p < last)
      <4>1. last \in Nat BY <1>3
      <4> HIDE DEF rest
      <4> QED BY <4>1, <2>1, <2>8
    <3>2. rest = n - (last - 1) * w BY DEF Before
    <3>3. new[p] = [row[p] EXCEPT !.units = q]
      <4> HIDE DEF rest
      <4> QED BY <3>1, <3>2, <1>10
    <3>4. Before(s, p) < n BY <2>8, <1>3
    <3>5. Part(s, n, p) = rest BY <3>4, <2>1, <2>8, <1>3, PartValue
    <3>6. Begins(row[p].units, begin + Before(s, p), rest) /\ row[p].by = t
      BY <3>4, <3>5, <2>5
    <3>7. begin + Before(s, p) \in Int BY <1>2, <2>3
    <3>8. q \in Seq(Nat) /\ Len(q) = rest /\ Begins(q, begin + Before(s, p), rest)
      <4> HIDE DEF rest, begin
      <4> QED BY <3>6, <3>7, <2>2, <1>4, BeginsPrefix
    <3> HIDE DEF q
    <3>9. new[p] \in Cell /\ new[p].units = q /\ new[p].by = t
      BY <3>3, <3>6, <3>8, <2>2 DEF Cell
    <3>10. rest <= Part(s, room, p)
      <4>1. Before(s, p) < room BY <3>4, <2>3, <1>2
      <4>2. Part(s, room, p) = Least(w, room - Before(s, p)) BY <4>1, <1>2, <2>3 DEF Part
      <4>3. rest <= room - Before(s, p) BY <2>8, <1>2, <2>3
      <4> HIDE DEF rest, room
      <4> QED BY <4>2, <4>3, <1>1, <1>2, <1>4, <2>3 DEF Least
    <3>11. q[1] = begin + Before(s, p)
      <4> HIDE DEF rest, begin
      <4>1. 1 \in 1..rest BY <1>4
      <4>2. q[1] = begin + Before(s, p) + 1 - 1 BY <4>1, <3>8 DEF Begins
      <4> QED BY <4>2, <3>7
    <3> HIDE DEF rest
    <3> QED BY <3>4, <3>5, <3>8, <3>9, <3>10, <3>11
  <2>9. p > last \/ p < last \/ p = last
    <3>1. last \in Nat BY <1>3
    <3> HIDE DEF rest
    <3> QED BY <3>1, <2>1
  <2> QED BY <2>6, <2>7, <2>8, <2>9
<1>6. new \in [Parts -> Cell]
  <2>1. \A p \in Parts : new[p] \in Cell BY <1>5
  <2>2. new = [p \in Parts |-> new[p]] BY DEF CutRow
  <2> QED BY <2>1, <2>2
<1>7. Row(s, c, new) BY <1>5 DEF Row
<1>8. Sealed(s, n, new) BY <1>5 DEF Sealed
<1>9. Stored(s, t, c, n, new) BY <1>5 DEF Stored
<1> QED BY <1>6, <1>7, <1>8, <1>9

LEMMA TruncatesKeeps == ASSUME FileInv, NEW t \in Tasks, Truncates(t) PROVE FileInv'
<1> DEFINE k == task[t]
           s == setting
           c == k.chunk
           n == k.written
           row == disk[c]
           new == CutRow(s, n, row)
           r == [k EXCEPT !.at = "mark"]
<1>1. Active(t) /\ k.at = "cut" BY DEF Truncates, Active
<1>2. /\ s \in Settings /\ k \in Fetch /\ c \in Nat /\ c \in Chunks /\ k.net <= LongEnough
      /\ Collected(s, t, k, size[t]) /\ Aligned(s, k) /\ InFile(s, c)
      /\ Stored(s, t, c, n, row)
      /\ failures \in 0..s.faults /\ size[t] \in {0, s.size}
      /\ (size[t] = 0 => s.told = 0)
      /\ n \in Nat /\ Reported(k) = n + Len(k.buffer)
  BY <1>1, FetchFacts DEF FetchRight
<1>3. row \in [Parts -> Cell] /\ Row(s, c, row) /\ disk \in [Chunks -> [Parts -> Cell]]
      /\ task \in [Tasks -> Fetch] /\ size \in [Tasks -> {0, s.size}]
  BY <1>2 DEF FileInv, Typed, RowsRight
<1>4. k.buffer = <<>> /\ n > 0 /\ n <= Room(s, c)
  <2> DEFINE aim == Aim(s, k, size[t])
  <2>1. k.buffer = <<>> /\ n > 0 /\ Reported(k) <= aim BY <1>1, <1>2 DEF Collected
  <2>2. Len(k.buffer) = 0 BY <2>1
  <2>3. aim \in Nat /\ aim <= Room(s, c) /\ Room(s, c) \in Nat
    BY <1>1, <1>2, AimFacts, FetchFacts
  <2> HIDE DEF aim, c, s
  <2> QED BY <2>1, <2>2, <2>3, <1>2
<1>5. /\ new \in [Parts -> Cell] /\ Row(s, c, new)
      /\ Stored(s, t, c, n, new) /\ Sealed(s, n, new)
  <2>1. n \in Nat \ {0} BY <1>2, <1>4
  <2> HIDE DEF row, c, k, s, n
  <2> QED BY <2>1, <1>2, <1>3, <1>4, ChunkCut
<1>6. /\ disk' = [disk EXCEPT ![c] = new]
      /\ task' = [task EXCEPT ![t] = r]
      /\ UNCHANGED <<setting, size, marked, ban, cropped, failures>>
  <2>1. disk' = [disk EXCEPT ![c] = new]
    <3> DEFINE rest == n - (Windows(n) - 1) * s.window
               cut == [p \in Parts |->
                         IF p > Windows(n) THEN Empty
                         ELSE IF p < Windows(n) THEN disk[c][p]
                         ELSE [disk[c][p] EXCEPT !.units = SubSeq(@, 1, rest)]]
    <3>1. disk' = [disk EXCEPT ![c] = cut] BY DEF Truncates
    <3>2. cut = new BY DEF Windows, CutRow
    <3> QED BY <3>1, <3>2
  <2>2. /\ task' = [task EXCEPT ![t].at = "mark"]
        /\ UNCHANGED <<setting, size, marked, ban, cropped, failures>>
    BY DEF Truncates, history, bounds
  <2> QED BY <2>1, <2>2, <1>2, <1>3
<1>7. size' = [size EXCEPT ![t] = size[t]] BY <1>3, <1>6
<1> HIDE DEF new
<1>8. r \in Fetch BY <1>2 DEF Fetch, Places
<1>9. /\ r.at = "mark" /\ r.chunk = c /\ r.net = k.net /\ r.written = n
      /\ r.buffer = k.buffer /\ r.piece = k.piece /\ r.from = k.from /\ r.upto = k.upto
      /\ r.expected = k.expected
  BY <1>2 DEF Fetch
<1> HIDE DEF r
<1>10. Collected(s, t, r, size[t]) /\ Aligned(s, r)
  <2>1. Reported(r) = Reported(k) BY <1>9 DEF Reported
  <2>2. Aim(s, r, size[t]) = Aim(s, k, size[t]) /\ (Short(s, r) <=> Short(s, k))
    BY <1>9 DEF Aim, Short
  <2> QED BY <2>1, <2>2, <1>1, <1>2, <1>4, <1>9 DEF Collected, Aligned
<1>11. FetchRight(s, t, r, size[t], new)
  BY <1>2, <1>5, <1>9, <1>10 DEF FetchRight, Sealed, Snug
<1>12. r.at # "idle" BY <1>9
<1> QED BY <1>1, <1>2, <1>5, <1>6, <1>7, <1>8, <1>9, <1>11, <1>12, GoesOn

\* A mark says what the fetch has left in the file.
LEMMA MarkIsRight ==
  ASSUME FileInv, NEW t \in Tasks, Active(t), task[t].at = "mark",
         NEW m, m = [chunk |-> task[t].chunk, parts |-> Windows(task[t].written), by |-> t]
  PROVE  /\ m \in [chunk : Chunks, parts : Parts, by : Tasks]
         /\ MarkRight(setting, m, size[t], Crops(task[t]), disk[m.chunk])
         /\ Crops(task[t]) => setting.told = 0
<1> DEFINE k == task[t]
           s == setting
           c == k.chunk
           n == k.written
           row == disk[c]
           last == Windows(n)
           aim == Aim(s, k, size[t])
<1>1. /\ s \in Settings /\ c \in Nat /\ c \in Chunks /\ k \in Fetch
      /\ Collected(s, t, k, size[t]) /\ InFile(s, c)
      /\ Stored(s, t, c, n, row) /\ Snug(s, n, row) /\ (Short(s, k) \/ Sealed(s, n, row))
      /\ n \in Nat
      /\ size[t] \in {0, s.size} /\ (size[t] = 0 => s.told = 0)
      /\ Room(s, c) \in 1..Most(s) /\ Most(s) \in Nat /\ s.window \in Nat
  BY FetchFacts, SettingFacts DEF FetchRight
<1>2. /\ n > 0 /\ (size[t] > 0 => n = aim)
      /\ size[t] # 0 => k.expected = Room(s, c) \/ Short(s, k)
      /\ k.written + Len(k.buffer) <= aim /\ k.buffer = <<>>
  BY <1>1 DEF Collected, Reported
<1>3. aim \in Nat /\ aim <= Room(s, c) /\ k.expected = (IF size[t] = 0 THEN 0 ELSE aim)
  BY <1>1, AimFacts
<1>4. n \in 1..Room(s, c) /\ n \in Nat \ {0} /\ n <= Most(s)
  <2>1. n <= aim
    <3>1. Len(k.buffer) = 0 BY <1>2
    <3> HIDE DEF aim
    <3> QED BY <3>1, <1>1, <1>2
  <2> HIDE DEF aim, n
  <2> QED BY <2>1, <1>1, <1>2, <1>3
<1>5. last = (n + s.window - 1) \div s.window BY DEF Windows
<1>6. last \in Parts BY <1>1, <1>4, <1>5, LastWindow
<1>7. m.chunk = c /\ m.parts = last /\ m.by = t OBVIOUS
<1>8. Crops(k) <=> Short(s, k) BY DEF Crops, Short
<1>9. m \in [chunk : Chunks, parts : Parts, by : Tasks] BY <1>1, <1>6
<1>10. ~Crops(k) => Sealed(s, n, row) /\ (size[t] > 0 => n = Room(s, c))
  <2> SUFFICES ASSUME ~Crops(k) PROVE Sealed(s, n, row) /\ (size[t] > 0 => n = Room(s, c))
    OBVIOUS
  <2>1. ~Short(s, k) BY <1>8
  <2>2. ASSUME size[t] > 0 PROVE n = Room(s, c)
    <3>1. size[t] # 0 BY <2>2, <1>1
    <3> HIDE DEF aim
    <3> QED BY <3>1, <2>1, <2>2, <1>2, <1>3
  <2> QED BY <2>1, <2>2, <1>1
<1> HIDE DEF row, last, aim
<1>11. MarkRight(s, m, size[t], Crops(k), disk[m.chunk])
  <2>1. /\ m.parts = (n + s.window - 1) \div s.window
        /\ ~Crops(k) => Sealed(s, n, disk[m.chunk]) /\ (size[t] > 0 => n = Room(s, m.chunk))
        /\ Stored(s, m.by, m.chunk, n, disk[m.chunk]) /\ Snug(s, n, disk[m.chunk])
    BY <1>1, <1>5, <1>7, <1>10 DEF row
  <2>2. InFile(s, m.chunk) /\ n \in 1..Room(s, m.chunk) BY <1>1, <1>4, <1>7
  <2> HIDE DEF n, s, k
  <2> QED BY <2>1, <2>2 DEF MarkRight
<1>12. Crops(k) => s.told = 0 BY DEF Crops
<1> QED BY <1>9, <1>11, <1>12

LEMMA MarksKeeps == ASSUME FileInv, NEW t \in Tasks, Marks(t) PROVE FileInv'
<1> DEFINE c == task[t].chunk
           crops == Crops(task[t])
<1>1. Active(t) /\ task[t].at = "mark" BY DEF Marks, Active
<1>2. PICK m : m = [chunk |-> c, parts |-> Windows(task[t].written), by |-> t] OBVIOUS
<1>3. /\ marked' = marked \cup {m} /\ task' = [task EXCEPT ![t] = Idle]
      /\ cropped' = (cropped \/ crops)
      /\ UNCHANGED <<setting, size, disk, ban, failures>>
  BY <1>2 DEF Marks, bounds
<1>4. /\ m \in [chunk : Chunks, parts : Parts, by : Tasks] /\ m.chunk = c /\ m.by = t
      /\ MarkRight(setting, m, size[m.by], crops, disk[m.chunk])
      /\ crops => setting.told = 0
  BY <1>1, <1>2, MarkIsRight
<1> HIDE DEF crops
<1>5. Idle \in Fetch /\ Idle.at = "idle" /\ Idle.net = 0 BY IdleFacts
<1>6. /\ task \in [Tasks -> Fetch] /\ task' \in [Tasks -> Fetch] /\ task'[t] = Idle
      /\ \A u \in Tasks \ {t} : task'[u] = task[u]
  BY <1>3, <1>5 DEF FileInv, Typed
<1>7. Typed'
  <2>1. cropped \in BOOLEAN /\ (cropped => setting.told = 0) BY DEF FileInv, Typed
  <2>2. cropped' \in BOOLEAN /\ (cropped' => setting.told = 0)
    <3>1. cropped' => cropped \/ crops BY <1>3
    <3>2. cropped' \in BOOLEAN BY <1>3
    <3> QED BY <3>1, <3>2, <2>1, <1>4
  <2> QED BY <2>2, <1>3, <1>4, <1>6 DEF FileInv, Typed
<1>8. Exclusive'
  <2>1. \A u \in Tasks \ {t} : Active(u) => task[u].chunk # c
    BY <1>1 DEF FileInv, Exclusive
  <2> QED BY <2>1, <1>3, <1>4, <1>5, <1>6 DEF FileInv, Exclusive, Active
<1>9. RowsRight' /\ SizesRight' BY <1>3 DEF FileInv, RowsRight, SizesRight
<1>10. MarksRight'
  <2> SUFFICES ASSUME NEW d \in marked \cup {m}
               PROVE  MarkRight(setting, d, size[d.by], cropped', disk[d.chunk])
    BY <1>3 DEF MarksRight
  <2>1. ~cropped' => ~cropped /\ ~crops BY <1>3
  <2>2. CASE d = m BY <2>1, <2>2, <1>4 DEF MarkRight
  <2>3. CASE d \in marked
    <3>1. MarkRight(setting, d, size[d.by], cropped, disk[d.chunk])
      BY <2>3 DEF FileInv, MarksRight
    <3> QED BY <3>1, <2>1 DEF MarkRight
  <2> QED BY <2>2, <2>3
<1>11. FetchesRight'
  <2> SUFFICES ASSUME NEW u \in Tasks
               PROVE  IF task'[u].at # "idle"
                      THEN FetchRight(setting, u, task'[u], size[u], disk[task'[u].chunk])
                      ELSE task'[u] = Idle
    BY <1>3 DEF FetchesRight, Active
  <2>1. CASE u = t BY <1>5, <1>6, <2>1
  <2>2. CASE u # t BY <1>6, <2>2 DEF FileInv, FetchesRight, Active
  <2> QED BY <2>1, <2>2
<1>12. Slow'
  <2>1. setting.size \in Nat /\ Grace \in Nat
    BY SettingFacts, FetcherAssumption DEF FileInv, Typed
  <2> QED BY <2>1, <1>3, <1>5, <1>6 DEF FileInv, Slow, LongEnough
<1> QED BY <1>7, <1>8, <1>9, <1>10, <1>11, <1>12 DEF FileInv

-------------------------------------------------------------------------------
\* Time, the user, and nothing.

\* The time a fetch has taken says nothing about its units.
LEMMA NetDoesNotMatter ==
  ASSUME NEW s, NEW t, NEW k \in Fetch, NEW n \in Nat, NEW total, NEW row,
         FetchRight(s, t, k, total, row),
         NEW r, r = [k EXCEPT !.net = n]
  PROVE  FetchRight(s, t, r, total, row)
<1>1. /\ r.at = k.at /\ r.chunk = k.chunk /\ r.written = k.written
      /\ r.buffer = k.buffer /\ r.piece = k.piece /\ r.from = k.from /\ r.upto = k.upto
      /\ r.expected = k.expected
  BY DEF Fetch
<1>2. Reported(r) = Reported(k) BY <1>1 DEF Reported
<1>3. Aim(s, r, total) = Aim(s, k, total) /\ (Short(s, r) <=> Short(s, k))
  BY <1>1 DEF Aim, Short
<1>4. Collected(s, t, r, total) BY <1>1, <1>2, <1>3 DEF FetchRight, Collected
<1>5. Aligned(s, r) BY <1>1 DEF FetchRight, Aligned
<1> QED BY <1>1, <1>3, <1>4, <1>5 DEF FetchRight

LEMMA TickKeeps == ASSUME FileInv, Tick PROVE FileInv'
<1>1. setting \in Settings /\ task \in [Tasks -> Fetch] /\ ban \in [Sources -> Nat]
  BY DEF FileInv, Typed
<1>2. UNCHANGED <<setting, size, disk, marked, cropped, failures>> BY DEF Tick, history, bounds
<1>3. ban' \in [Sources -> Nat]
  <2>1. ban' = [s \in Sources |-> IF ban[s] > 0 THEN ban[s] - 1 ELSE 0]
    BY DEF Tick, Health!TickHealth
  <2>2. \A s \in Sources : (IF ban[s] > 0 THEN ban[s] - 1 ELSE 0) \in Nat BY <1>1
  <2> QED BY <2>1, <2>2
<1>4. setting.size \in Nat /\ Grace \in Nat BY <1>1, SettingFacts, FetcherAssumption
<1>5. ASSUME NEW u \in Tasks
      PROVE  /\ task'[u] \in Fetch /\ task'[u].net <= LongEnough
             /\ task'[u].at = task[u].at /\ task'[u].chunk = task[u].chunk
             /\ task[u].at = "idle" => task'[u] = task[u]
             /\ \E n \in Nat : task'[u] = [task[u] EXCEPT !.net = n]
  <2>1. task[u] \in Fetch /\ task[u].net \in Nat /\ task[u].net <= LongEnough
    BY <1>1 DEF Fetch, FileInv, Slow
  <2>2. task'[u] = IF setting.minimum > 0 /\ Counts(task[u]) /\ task[u].net < LongEnough
                   THEN [task[u] EXCEPT !.net = @ + 1] ELSE task[u]
    BY DEF Tick
  <2>3. CASE task'[u] = task[u]
    <3>1. task[u] = [task[u] EXCEPT !.net = task[u].net] BY <2>1 DEF Fetch
    <3> QED BY <3>1, <2>1, <2>3
  <2>4. CASE task'[u] # task[u]
    <3>1. task'[u] = [task[u] EXCEPT !.net = task[u].net + 1] /\ task[u].net < LongEnough
          /\ Counts(task[u])
      BY <2>2, <2>4
    <3>2. task[u].net + 1 \in Nat /\ task[u].net + 1 <= LongEnough
      BY <3>1, <2>1, <1>4 DEF LongEnough
    <3>3. task[u].at # "idle" BY <3>1 DEF Counts
    <3>4. task'[u] \in Fetch /\ task'[u].net = task[u].net + 1 /\ task'[u].at = task[u].at
          /\ task'[u].chunk = task[u].chunk
      BY <3>1, <3>2, <2>1 DEF Fetch
    <3> QED BY <3>1, <3>2, <3>3, <3>4
  <2> QED BY <2>3, <2>4
<1>6. task' \in [Tasks -> Fetch]
  <2>1. task' = [u \in Tasks |-> task'[u]] BY DEF Tick
  <2> QED BY <2>1, <1>5
<1>7. Typed' BY <1>2, <1>3, <1>6 DEF FileInv, Typed
<1>8. Exclusive' BY <1>2, <1>5 DEF FileInv, Exclusive, Active
<1>9. RowsRight' /\ SizesRight' /\ MarksRight'
  BY <1>2 DEF FileInv, RowsRight, SizesRight, MarksRight
<1>10. FetchesRight'
  <2> SUFFICES ASSUME NEW u \in Tasks
               PROVE  IF task'[u].at # "idle"
                      THEN FetchRight(setting, u, task'[u], size[u], disk[task'[u].chunk])
                      ELSE task'[u] = Idle
    BY <1>2 DEF FetchesRight, Active
  <2>1. task'[u].at = task[u].at /\ task'[u].chunk = task[u].chunk
        /\ (task[u].at = "idle" => task'[u] = task[u])
    BY <1>5
  <2>2. CASE task[u].at = "idle" BY <2>1, <2>2 DEF FileInv, FetchesRight, Active
  <2>3. CASE task[u].at # "idle"
    <3>1. FetchRight(setting, u, task[u], size[u], disk[task[u].chunk])
      BY <2>3 DEF FileInv, FetchesRight, Active
    <3>2. PICK n \in Nat : task'[u] = [task[u] EXCEPT !.net = n] BY <1>5
    <3>3. task[u] \in Fetch BY <1>1
    <3>4. FetchRight(setting, u, task'[u], size[u], disk[task[u].chunk])
      BY <3>1, <3>2, <3>3, NetDoesNotMatter
    <3> QED BY <3>4, <2>1, <2>3
  <2> QED BY <2>2, <2>3
<1>11. Slow' BY <1>2, <1>5 DEF Slow, LongEnough
<1> QED BY <1>7, <1>8, <1>9, <1>10, <1>11 DEF FileInv

LEMMA RestKeeps ==
  ASSUME FileInv, UNCHANGED <<setting, task, size, disk, marked, ban, cropped, failures>>
  PROVE  FileInv'
BY DEF FileInv, Typed, Exclusive, RowsRight, SizesRight, FetchesRight, MarksRight, Slow,
       Active, LongEnough

\* The invariant holds at first and every step keeps it.
LEMMA FileInit == Init => FileInv
<1> SUFFICES ASSUME Init PROVE FileInv OBVIOUS
<1>1. /\ setting \in Settings /\ task = [t \in Tasks |-> Idle]
      /\ size = [t \in Tasks |-> setting.told]
      /\ disk = [c \in Chunks |-> [p \in Parts |-> Empty]]
      /\ marked = {} /\ cropped = FALSE /\ ban = [s \in Sources |-> 0] /\ failures = 0
  BY DEF Init, Health!InitHealth
<1>2. /\ setting.told \in {0, setting.size} /\ setting.faults \in Nat
      /\ setting.size \in Nat /\ Grace \in Nat
  BY <1>1, SettingFacts, FetcherAssumption
<1>3. Empty \in Cell /\ Empty.units = <<>> BY DEF Empty, Cell
<1>9. cropped \in BOOLEAN /\ (cropped => setting.told = 0) BY <1>1
<1>4. Typed BY <1>1, <1>2, <1>3, <1>9, IdleFacts DEF Typed
<1>5. ASSUME NEW c \in Chunks PROVE Row(setting, c, disk[c])
  <2> SUFFICES ASSUME NEW p \in Parts
               PROVE  /\ Len(disk[c][p].units) <= Part(setting, Room(setting, c), p)
                      /\ disk[c][p].units = <<>>
    BY DEF Row
  <2>1. disk[c][p].units = <<>> /\ Len(<<>>) = 0 BY <1>1, <1>3
  <2>3. Room(setting, c) \in Int
    <3>1. c \in Int /\ setting.size \in Int /\ setting.chunk \in Int
      BY <1>1, SettingFacts, FetcherAssumption DEF Chunks
    <3>2. Base(setting, c) \in Int BY <3>1 DEF Base
    <3> QED BY <3>1, <3>2 DEF Room, Least
  <2>4. p \in Nat BY FetcherAssumption DEF Parts
  <2>5. Part(setting, Room(setting, c), p) \in 0..setting.window
    BY <1>1, <2>3, <2>4, PartFacts
  <2>6. setting.window \in Nat BY <1>1, SettingFacts
  <2> QED BY <2>1, <2>5, <2>6
<1>6. RowsRight BY <1>5 DEF RowsRight
<1>7. Exclusive /\ MarksRight /\ SizesRight /\ FetchesRight
  BY <1>1, IdleFacts DEF Exclusive, MarksRight, SizesRight, FetchesRight, Active
<1>8. Slow BY <1>1, <1>2, IdleFacts DEF Slow, LongEnough
<1> QED BY <1>4, <1>6, <1>7, <1>8 DEF FileInv

LEMMA FileStep == FileInv /\ [Next]_vars => FileInv'
<1> SUFFICES ASSUME FileInv, [Next]_vars PROVE FileInv' OBVIOUS
<1>1. ASSUME NEW t \in Tasks, TaskStep(t) PROVE FileInv'
  <2>1. CASE Begin(t) BY <2>1, BeginKeeps
  <2>2. CASE Respond(t) BY <2>2, RespondKeeps
  <2>3. CASE Breaks(t) \/ Stops(t) \/ LeavesSlow(t) \/ IsIncomplete(t) BY <2>3, FailureKeeps
  <2>4. CASE Arrives(t) BY <2>4, ArrivesKeeps
  <2>5. CASE Passes(t) BY <2>5, PassesKeeps
  <2>6. CASE Copies(t) BY <2>6, CopiesKeeps
  <2>7. CASE Flushes(t) \/ FlushesRest(t) BY <2>7, WritesKeeps
  <2>8. CASE KeepsUp(t) \/ IsTooSlow(t) BY <2>8, KeepsUpKeeps
  <2>9. CASE EndsPiece(t) BY <2>9, EndsPieceKeeps
  <2>10. CASE BodyEnds(t) BY <2>10, BodyEndsKeeps
  <2>11. CASE IsComplete(t) BY <2>11, IsCompleteKeeps
  <2>12. CASE Truncates(t) BY <2>12, TruncatesKeeps
  <2>13. CASE Marks(t) BY <2>13, MarksKeeps
  <2> QED
    BY <1>1, <2>1, <2>2, <2>3, <2>4, <2>5, <2>6, <2>7, <2>8, <2>9, <2>10, <2>11, <2>12, <2>13
    DEF TaskStep
<1>2. CASE Tick BY <1>2, TickKeeps
<1>3. CASE SetStop \/ (\E r \in setting.rates : SetSpeedLimit(r)) \/ Finished \/ UNCHANGED vars
  <2>1. UNCHANGED <<setting, task, size, disk, marked, ban, cropped, failures>>
    BY <1>3 DEF SetStop, SetSpeedLimit, Finished, vars, history, bounds
  <2> QED BY <2>1, RestKeeps
<1> QED BY <1>1, <1>2, <1>3 DEF Next

LEMMA FileIsRight == Spec => []FileInv
BY FileInit, FileStep, PTL DEF Spec

-------------------------------------------------------------------------------
\* What lies in the file.

LEMMA HoldsSame ==
  ASSUME NEW q \in Seq(Nat), NEW r \in Seq(Nat), NEW i, Holds(q, i), Holds(r, i),
         Len(q) = Len(r)
  PROVE  q = r
BY SeqEqual DEF Holds

\* A window is what it should hold, and so is its beginning.
LEMMA WindowIs ==
  ASSUME setting \in Settings, NEW c \in Chunks, InFile(setting, c), NEW p \in Parts,
         Before(setting, p) < Room(setting, c),
         NEW q \in Seq(Nat), Holds(q, Base(setting, c) + Before(setting, p)),
         Len(q) <= Part(setting, Room(setting, c), p)
  PROVE  /\ q = SubSeq(Window(c, p), 1, Len(q))
         /\ Len(q) = Part(setting, Room(setting, c), p) => q = Window(c, p)
<1> DEFINE s == setting
           base == Base(s, c)
           room == Room(s, c)
           before == Before(s, p)
           first == base + before
           len == Part(s, room, p)
           w == [i \in 1..len |-> first + i - 1]
<1>1. /\ s.size \in Nat /\ s.chunk \in Nat /\ s.window \in Nat /\ s.window > 0
      /\ c \in Nat /\ p \in Nat /\ p > 0
  BY SettingFacts, FetcherAssumption DEF Chunks, Parts
<1>2. /\ base \in Nat /\ room \in Nat /\ room > 0 /\ before \in Int /\ len \in Nat
  BY <1>1, RoomFacts, PartFacts
<1>3. before \in Nat
  <2>1. p - 1 \in Nat BY <1>1
  <2>2. \A x, y \in Nat : x * y \in Nat OBVIOUS
  <2>3. (p - 1) * s.window \in Nat BY <1>1, <2>1, <2>2
  <2> QED BY <2>3 DEF Before
<1>4. len = Least(s.window, room - before) BY <1>2 DEF Part
<1>6. Start(c) = base /\ (p - 1) * s.window = before /\ Units(c) = room
  BY DEF Start, Base, Before, Units, Room
<1>8. Window(c, p) = [i \in 1..(Least(s.window, room - before)) |-> first + i - 1]
  BY <1>6 DEF Window
<1>10. Window(c, p) = w
  <2> HIDE DEF len
  <2> QED BY <1>4, <1>8
<1> HIDE DEF base, room, before, len, s
<1>11. w \in Seq(Nat) /\ Len(w) = len
  <2>1. \A i \in 1..len : first + i - 1 \in Nat BY <1>2, <1>3
  <2> QED BY <2>1, <1>2
<1>12. Holds(w, first) BY <1>11 DEF Holds
<1> HIDE DEF w
<1>13. Holds(q, first) /\ Len(q) <= len /\ first \in Nat /\ Len(q) \in Nat
  BY <1>2, <1>3 DEF base, before, len, room, s
<1>14. q = SubSeq(w, 1, Len(q))
  <2>1. /\ SubSeq(w, 1, Len(q)) \in Seq(Nat) /\ Len(SubSeq(w, 1, Len(q))) = Len(q)
        /\ Holds(SubSeq(w, 1, Len(q)), first)
    BY <1>11, <1>12, <1>13, HoldsPrefix
  <2> QED BY <2>1, <1>13, HoldsSame
<1>15. Len(q) = len => q = w BY <1>11, <1>12, <1>13, HoldsSame
<1> QED BY <1>10, <1>14, <1>15 DEF len, room, s

\* The windows of n units: those before the last are full, those after it empty.
LEMMA PartsOf ==
  ASSUME NEW s \in Settings, NEW n \in Nat \ {0}, NEW room \in Nat, n <= room, NEW p \in Parts,
         NEW last, last = (n + s.window - 1) \div s.window
  PROVE  /\ p > last => Part(s, n, p) = 0
         /\ p < last => Before(s, p) < room /\ Part(s, n, p) = Part(s, room, p)
         /\ p = last => /\ Before(s, p) < room /\ Part(s, n, p) > 0
                        /\ Part(s, n, p) <= Part(s, room, p)
<1> DEFINE w == s.window
           b == Before(s, p)
           e == Before(s, last)
<1>1. w \in Nat /\ w > 0 /\ p \in Nat BY SettingFacts, FetcherAssumption DEF Parts
<1>2. last \in Nat /\ e < n /\ n <= e + w BY LastWindow
<1>3. b \in Int /\ e \in Int BY <1>1, <1>2, BeforeType
<1>4. /\ Part(s, n, p) = IF n <= b THEN 0 ELSE Least(w, n - b)
      /\ Part(s, room, p) = IF room <= b THEN 0 ELSE Least(w, room - b)
  BY DEF Part
<1>5. p > last => e + w <= b BY <1>1, <1>2, WindowFacts
<1>6. p < last => b + w <= e BY <1>1, <1>2, WindowFacts
<1>7. p = last => b = e OBVIOUS
<1> HIDE DEF w, b, e
<1> QED BY <1>1, <1>2, <1>3, <1>4, <1>5, <1>6, <1>7 DEF Least, w, b, e

LEMMA PutInPlace == FileInv => BytesInPlace
<1> SUFFICES ASSUME FileInv, NEW m \in marked, First(m.by, m.chunk) = Start(m.chunk), ~cropped,
                    NEW p \in Parts
             PROVE  LET units == disk[m.chunk][p].units
                    IN  IF size[m.by] > 0
                        THEN units = IF p <= m.parts THEN Window(m.chunk, p) ELSE <<>>
                        ELSE /\ p < m.parts => units = Window(m.chunk, p)
                             /\ p = m.parts =>
                                  units # <<>> /\ units = SubSeq(Window(m.chunk, p), 1, Len(units))
                             /\ p > m.parts => units = <<>>
  BY DEF BytesInPlace, InPlace
<1> DEFINE s == setting
           c == m.chunk
           last == m.parts
           units == disk[c][p].units
           room == Room(s, c)
<1>1. /\ s \in Settings /\ c \in Chunks /\ last \in Parts /\ units \in Seq(Nat)
      /\ size[m.by] \in {0, s.size}
  BY DEF FileInv, Typed, Cell
<1>2. InFile(s, c) /\ p \in Nat /\ last \in Nat /\ c \in Nat /\ room \in Nat
  <2>1. InFile(s, c) BY DEF FileInv, MarksRight, MarkRight
  <2>2. p \in Nat /\ last \in Nat /\ c \in Nat BY <1>1, FetcherAssumption DEF Parts, Chunks
  <2> QED BY <2>1, <2>2, <1>1, RoomFacts, SettingFacts
<1>3. PICK n \in 1..room :
        /\ last = (n + s.window - 1) \div s.window
        /\ size[m.by] > 0 => n = room
        /\ Stored(s, m.by, c, n, disk[c]) /\ Len(units) = Part(s, n, p)
  BY DEF FileInv, MarksRight, MarkRight, Sealed
<1>12. Len(units) <= Part(s, room, p) BY <1>1 DEF FileInv, RowsRight, Row
<1>5. n \in Nat \ {0} /\ n <= room BY <1>2
<1>6. /\ p > last => Part(s, n, p) = 0
      /\ p < last => Before(s, p) < room /\ Part(s, n, p) = Part(s, room, p)
      /\ p = last => /\ Before(s, p) < room /\ Part(s, n, p) > 0
  BY <1>1, <1>2, <1>3, <1>5, PartsOf
<1>4. p <= last => Holds(units, Base(s, c) + Before(s, p))
  <2> SUFFICES ASSUME p <= last PROVE Holds(units, Base(s, c) + Before(s, p)) OBVIOUS
  <2>1. Before(s, p) < n
    <3>1. Before(s, last) < n /\ Before(s, p) \in Int BY <1>1, <1>2, <1>3, <1>5, LastWindow, BeforeType
    <3>2. CASE p = last BY <3>1, <3>2
    <3>3. CASE p < last
      <4>1. Before(s, last) \in Int /\ Before(s, p) + s.window <= Before(s, last)
        BY <1>1, <1>2, <3>3, WindowFacts
      <4>2. s.window \in Nat BY <1>1, SettingFacts
      <4> HIDE DEF s, last
      <4> QED BY <3>1, <4>1, <4>2, <1>5
    <3> QED BY <3>2, <3>3, <1>2
  <2>2. Origin(s, m.by, c) = Base(s, c) BY DEF First, SendsRange, Source, Start, Origin, Base
  <2>3. Begins(units, Base(s, c) + Before(s, p), Part(s, n, p)) BY <2>1, <2>2, <1>3 DEF Stored
  <2> HIDE DEF units
  <2> QED BY <2>3, <1>3 DEF Begins, Holds
<1>7. p > last => units = <<>>
  <2>1. Len(units) = 0 => units = <<>> BY <1>1, EmptySeq
  <2> QED BY <2>1, <1>3, <1>6
<1>8. p <= last => /\ units = SubSeq(Window(c, p), 1, Len(units))
                   /\ Len(units) = Part(s, room, p) => units = Window(c, p)
  BY <1>1, <1>2, <1>4, <1>6, <1>12, WindowIs, SMTT(20)
<1>9. p = last => units # <<>>
  <2>1. Len(<<>>) = 0 OBVIOUS
  <2>2. Len(units) \in Nat BY <1>1
  <2> QED BY <2>1, <2>2, <1>3, <1>6
<1>10. CASE size[m.by] > 0
  <2>1. p <= last => units = Window(c, p)
    BY <1>3, <1>8, <1>10
  <2>2. p > last \/ p <= last BY <1>2
  <2>3. p > last => ~(p <= last) BY <1>2
  <2> HIDE DEF units, last
  <2>4. units = IF p <= last THEN Window(c, p) ELSE <<>> BY <2>1, <2>2, <1>7
  <2> QED BY <2>4, <1>10 DEF units, last
<1>11. CASE ~(size[m.by] > 0)
  <2>1. p < last => units = Window(c, p) BY <1>2, <1>3, <1>6, <1>8
  <2>2. p = last => units # <<>> /\ units = SubSeq(Window(c, p), 1, Len(units))
    BY <1>2, <1>8, <1>9
  <2> HIDE DEF units, last
  <2> QED BY <2>1, <2>2, <1>7, <1>11 DEF units, last
<1> QED BY <1>10, <1>11

\* A chunk that is reported complete lies in the file unit for unit, for every cutting of
\* the stream into pieces, every failure and every interleaving (fetch, its writes, its
\* comparison of the lengths and its truncation), provided that its mirror answered with
\* what was asked for, from the first unit on, and no retry cropped a file of unknown size.
THEOREM BytesAreInPlace == Spec => []BytesInPlace
BY FileIsRight, PutInPlace, PTL

-------------------------------------------------------------------------------
\* The minimum speed.

\* A task that takes a step has the loop, or nobody has; and only the check makes it slow.
LEMMA TakesTurn ==
  ASSUME FileInv, NEW t \in Tasks, TaskStep(t)
  PROVE  /\ HoldsLoop(t) \/ Runs(t)
         /\ setting' = setting /\ \A u \in Tasks \ {t} : task'[u] = task[u]
         /\ task'[t].at = "slow" => IsTooSlow(t)
<1>1. task \in [Tasks -> Fetch] /\ task[t] \in Fetch BY DEF FileInv, Typed
<1>2. Idle.at = "idle" BY DEF Idle
<1>3. CASE Breaks(t) \/ Stops(t) \/ LeavesSlow(t) \/ IsIncomplete(t) \/ Marks(t)
  <2>1. task' = [task EXCEPT ![t] = Idle] /\ setting' = setting
    BY <1>3 DEF Breaks, Stops, LeavesSlow, IsIncomplete, Marks, GivesUp
  <2>2. HoldsLoop(t) \/ Runs(t)
    BY <1>3 DEF Breaks, Stops, LeavesSlow, IsIncomplete, Marks, HoldsLoop
  <2> QED BY <2>1, <2>2, <1>1, <1>2
<1>4. CASE Begin(t)
  <2>1. PICK c \in Pending :
          task' = [task EXCEPT ![t] =
                     [Idle EXCEPT !.at = "open", !.chunk = c,
                        !.expected = IF size[t] > 0 THEN Expected(c, size[t]) ELSE 0]]
    BY <1>4 DEF Begin
  <2>2. task'[t].at = "open" /\ \A u \in Tasks \ {t} : task'[u] = task[u]
    BY <2>1, <1>1 DEF Idle
  <2> QED BY <2>2, <1>4 DEF Begin
<1>5. CASE Respond(t)
  <2>1. task'[t].at = "body" /\ \A u \in Tasks \ {t} : task'[u] = task[u]
    BY <1>5, <1>1 DEF Respond, Fetch
  <2> QED BY <2>1, <1>5 DEF Respond
<1>6. CASE Arrives(t)
  <2>1. task'[t].at \in {"throttled", "copy"} /\ \A u \in Tasks \ {t} : task'[u] = task[u]
    BY <1>6, <1>1 DEF Arrives, Fetch
  <2> QED BY <2>1, <1>6 DEF Arrives
<1>7. CASE Passes(t)
  <2>1. task'[t].at = "copy" /\ \A u \in Tasks \ {t} : task'[u] = task[u]
    BY <1>7, <1>1 DEF Passes, Fetch
  <2> QED BY <2>1, <1>7 DEF Passes
<1>8. CASE Copies(t)
  <2>1. task'[t].at = "copy" /\ \A u \in Tasks \ {t} : task'[u] = task[u]
    BY <1>8, <1>1 DEF Copies, Fetch
  <2> QED BY <2>1, <1>8 DEF Copies, HoldsLoop
<1>9. CASE Flushes(t) \/ FlushesRest(t)
  <2>1. task'[t].at \in {"check", "finish"} /\ \A u \in Tasks \ {t} : task'[u] = task[u]
    <3>1. ASSUME NEW next, Writes(t, next)
          PROVE  task'[t].at = next /\ \A u \in Tasks \ {t} : task'[u] = task[u]
      <4>1. task' = [task EXCEPT ![t].at = next, ![t].buffer = <<>>,
                                 ![t].written = @ + Len(task[t].buffer)]
        BY <3>1 DEF Writes
      <4>2. task'[t] = [task[t] EXCEPT !.at = next, !.buffer = <<>>,
                                       !.written = @ + Len(task[t].buffer)]
        BY <4>1, <1>1
      <4> QED BY <4>1, <4>2, <1>1 DEF Fetch
    <3>2. Writes(t, "check") \/ Writes(t, "finish") BY <1>9 DEF Flushes, FlushesRest
    <3> QED BY <3>1, <3>2
  <2> QED BY <2>1, <1>9 DEF Flushes, FlushesRest, Writes, HoldsLoop
<1>10. CASE KeepsUp(t)
  <2>1. task'[t].at = "copy" /\ \A u \in Tasks \ {t} : task'[u] = task[u]
    BY <1>10, <1>1 DEF KeepsUp, Fetch
  <2> QED BY <2>1, <1>10 DEF KeepsUp
<1>11. CASE IsTooSlow(t)
  <2>1. \A u \in Tasks \ {t} : task'[u] = task[u] BY <1>11, <1>1 DEF IsTooSlow
  <2> QED BY <2>1, <1>11 DEF IsTooSlow
<1>12. CASE EndsPiece(t) \/ IsComplete(t)
  <2>1. task'[t].at # "slow" /\ \A u \in Tasks \ {t} : task'[u] = task[u]
    BY <1>12, <1>1 DEF EndsPiece, IsComplete, Fetch
  <2> QED BY <2>1, <1>12 DEF EndsPiece, IsComplete, HoldsLoop
<1>13. CASE BodyEnds(t) \/ Truncates(t)
  <2>1. task'[t].at # "slow" /\ \A u \in Tasks \ {t} : task'[u] = task[u]
    BY <1>13, <1>1 DEF BodyEnds, Truncates, Fetch
  <2> QED BY <2>1, <1>13 DEF BodyEnds, Truncates
<1> QED
  BY <1>3, <1>4, <1>5, <1>6, <1>7, <1>8, <1>9, <1>10, <1>11, <1>12, <1>13 DEF TaskStep

\* One mirror is banned of several that are active.
LEMMA SparesOne ==
  ASSUME FileInv, NEW t \in Tasks, LeavesSlow(t), Health!ActiveCount(Sources) > 1
  PROVE  \E s \in Sources : ban'[s] = 0
<1> DEFINE active == {s \in Sources : ~Health!IsBanned(s)}
           own == Source(t)
<1>1. ban \in [Sources -> Nat] BY DEF FileInv, Typed
<1>2. Cardinality(active) > 1
  <2>1. Health!Cardinality(active) = Cardinality(active) BY DEF Health!Cardinality, Cardinality
  <2> QED BY <2>1 DEF Health!ActiveCount
<1>3. PICK s \in active : s # own
  <2> SUFFICES ASSUME active \subseteq {own} PROVE FALSE OBVIOUS
  <2>1. IsFiniteSet({own}) /\ Cardinality({own}) = 1 BY FS_Singleton
  <2>2. Cardinality(active) <= 1 /\ Cardinality(active) \in Nat
    BY <2>1, FS_Subset, FS_CardinalityType
  <2> QED BY <2>2, <1>2
<1>4. s \in Sources /\ ban[s] = 0 BY <1>1 DEF Health!IsBanned
<1>5. PICK d \in Health!Bans("slow") : ban' = [ban EXCEPT ![own] = d]
  BY DEF LeavesSlow, GivesUp, Health!RecordFailure
<1>6. ban'[s] = ban[s] BY <1>1, <1>3, <1>4, <1>5
<1> QED BY <1>4, <1>6

\* Nobody but the slow task takes a step between its count and its ban.
LEMMA SparedStays ==
  ASSUME FileInv, Spared, [Next]_vars, ~setting.lingers,
         NEW t \in Tasks, task'[t].at = "slow"
  PROVE  /\ Health!ActiveCount(Sources)'  > 1
         /\ \A u \in Tasks \ {t} : ~HoldsLoop(u)'
<1>1. CASE task[t].at = "slow"
  <2>1. HoldsLoop(t) BY <1>1 DEF HoldsLoop
  <2>2. /\ Health!ActiveCount(Sources) > 1
        /\ \A u \in Tasks \ {t} : ~HoldsLoop(u)
    BY <1>1 DEF Spared
  <2>3. ASSUME NEW u \in Tasks, TaskStep(u) PROVE FALSE
    <3>1. HoldsLoop(u) \/ Runs(u) BY <2>3, TakesTurn
    <3>2. u = t BY <3>1, <2>1, <2>2 DEF Runs
    <3>3. IsTooSlow(t) BY <3>2, <2>3, TakesTurn
    <3> QED BY <3>3, <1>1 DEF IsTooSlow
  <2>4. ~Tick BY <2>1 DEF Tick
  <2>5. task' = task /\ ban' = ban /\ setting' = setting
    BY <2>3, <2>4 DEF Next, SetStop, SetSpeedLimit, Finished, vars
  <2> QED BY <2>2, <2>5 DEF HoldsLoop, Health!ActiveCount, Health!IsBanned
<1>2. CASE task[t].at # "slow"
  <2>1. task'[t].at # task[t].at BY <1>2
  <2>2. ~Tick
    <3> SUFFICES ASSUME Tick PROVE FALSE OBVIOUS
    <3>1. task[t] \in Fetch BY DEF FileInv, Typed
    <3>2. task'[t] = task[t] \/ task'[t] = [task[t] EXCEPT !.net = @ + 1] BY DEF Tick
    <3>3. task'[t].at = task[t].at BY <3>1, <3>2 DEF Fetch
    <3> QED BY <3>3, <2>1
  <2>3. PICK u \in Tasks : TaskStep(u)
    BY <2>1, <2>2 DEF Next, SetStop, SetSpeedLimit, Finished, vars
  <2>4. u = t BY <2>1, <2>3, TakesTurn
  <2>5. IsTooSlow(t) BY <2>3, <2>4, TakesTurn
  <2>6. /\ Health!ActiveCount(Sources) > 1 /\ ban' = ban /\ setting' = setting
        /\ \A v \in Tasks \ {t} : ~HoldsLoop(v) /\ task'[v] = task[v]
    BY <2>3, <2>4, <2>5, TakesTurn DEF IsTooSlow, TooSlow, Runs
  <2> QED BY <2>6 DEF HoldsLoop, Health!ActiveCount, Health!IsBanned
<1> QED BY <1>1, <1>2

\* A ban for the speed leaves a mirror; any other is for a failure.
LEMMA BansStep ==
  ASSUME FileInv, BansInv, [Next]_vars
  PROVE  BansInv'
<1>1. setting' = setting /\ ban \in [Sources -> Nat]
  <2>1. ASSUME NEW t \in Tasks, TaskStep(t) PROVE setting' = setting BY <2>1, TakesTurn
  <2>2. ban \in [Sources -> Nat] BY DEF FileInv, Typed
  <2> QED BY <2>1, <2>2 DEF Next, Tick, SetStop, SetSpeedLimit, Finished, vars
<1>2. Spared' BY <1>1, SparedStays DEF BansInv, Spared
<1>3. \/ UNCHANGED <<ban, lastBan>>
      \/ Tick
      \/ lastBan' = "failure"
      \/ lastBan' = "slow" /\ \E t \in Tasks : LeavesSlow(t)
  <2>1. ASSUME NEW t \in Tasks, TaskStep(t)
        PROVE  \/ UNCHANGED <<ban, lastBan>>
               \/ lastBan' = "failure"
               \/ lastBan' = "slow" /\ \E u \in Tasks : LeavesSlow(u)
    <3>1. CASE LeavesSlow(t) BY <3>1 DEF LeavesSlow, GivesUp
    <3>2. CASE Breaks(t) \/ IsIncomplete(t) BY <3>2 DEF Breaks, IsIncomplete, GivesUp
    <3>3. CASE \/ Begin(t) \/ Respond(t) \/ Stops(t) \/ Arrives(t) \/ Passes(t)
      BY <3>3 DEF Begin, Respond, Stops, Arrives, Passes, history
    <3>4. CASE \/ Copies(t) \/ Flushes(t) \/ KeepsUp(t) \/ IsTooSlow(t) \/ EndsPiece(t)
               \/ BodyEnds(t) \/ FlushesRest(t) \/ IsComplete(t) \/ Truncates(t) \/ Marks(t)
      BY <3>4 DEF Copies, Flushes, Writes, KeepsUp, IsTooSlow, EndsPiece, BodyEnds,
                  FlushesRest, IsComplete, Truncates, Marks, history
    <3> QED BY <2>1, <3>1, <3>2, <3>3, <3>4 DEF TaskStep
  <2> QED BY <2>1 DEF Next, SetStop, SetSpeedLimit, Finished, vars, history
<1>4. lastBan' \in {"none", "slow", "failure"} BY <1>3 DEF BansInv, Tick, history
<1>5. SlowKeepsOne'
  <2> SUFFICES ASSUME ~setting.lingers, \A s \in Sources : ban'[s] > 0
               PROVE  lastBan' = "failure"
    BY <1>1 DEF SlowKeepsOne
  <2>1. CASE UNCHANGED <<ban, lastBan>> BY <2>1 DEF BansInv, SlowKeepsOne
  <2>2. CASE Tick
    <3>1. ban' = [s \in Sources |-> IF ban[s] > 0 THEN ban[s] - 1 ELSE 0] /\ lastBan' = lastBan
      BY <2>2 DEF Tick, Health!TickHealth, history
    <3>2. ASSUME NEW s \in Sources PROVE ban[s] > 0
      <4>1. ban'[s] = (IF ban[s] > 0 THEN ban[s] - 1 ELSE 0) /\ ban'[s] > 0 BY <3>1
      <4> QED BY <4>1
    <3> QED BY <3>1, <3>2 DEF BansInv, SlowKeepsOne
  <2>3. ASSUME NEW t \in Tasks, LeavesSlow(t) PROVE FALSE
    <3>1. Health!ActiveCount(Sources) > 1 BY <2>3 DEF BansInv, Spared, LeavesSlow
    <3>2. PICK s \in Sources : ban'[s] = 0 BY <3>1, <2>3, SparesOne
    <3> QED BY <3>2
  <2> QED BY <2>1, <2>2, <2>3, <1>3
<1> QED BY <1>2, <1>4, <1>5 DEF BansInv

LEMMA BansInit == Init => BansInv
<1> SUFFICES ASSUME Init PROVE BansInv OBVIOUS
<1>1. /\ task = [t \in Tasks |-> Idle] /\ lastBan = "none" /\ setting \in Settings
      /\ ban = [s \in Sources |-> 0]
  BY DEF Init, Health!InitHealth
<1>2. Spared BY <1>1, IdleFacts DEF Spared
<1>3. SlowKeepsOne
  <2>1. Sources # {} BY FetcherAssumption
  <2>2. PICK s \in Sources : TRUE BY <2>1
  <2>3. ban[s] = 0 BY <1>1
  <2> QED BY <2>3 DEF SlowKeepsOne
<1> QED BY <1>1, <1>2, <1>3 DEF BansInv

\* The minimum speed never bans the last active mirror, for any number of tasks and mirrors
\* and whatever comes between the count of the active mirrors and the ban
\* (_should_raise_slow_mirror, record_failure), if leaving the response suspends nobody.
THEOREM SlowSparesOne == Spec => []SlowKeepsOne
<1>1. FileInv /\ BansInv /\ [Next]_vars => BansInv' BY BansStep
<1>2. BansInv => SlowKeepsOne BY DEF BansInv
<1> QED BY <1>1, <1>2, BansInit, FileIsRight, PTL DEF Spec

-------------------------------------------------------------------------------
\* Fetcher implements ChunkStore.

\* What a store sees of a window: since it begins with what its writer received, who wrote it.
Owner(cell) == IF cell.units = <<>> THEN Hole ELSE cell.by

OwnersSeen == View = [c \in Chunks |-> [p \in Parts |-> Owner(disk[c][p])]]

LEMMA ViewIs == FileInv => OwnersSeen
<1> SUFFICES ASSUME FileInv, NEW c \in Chunks, NEW p \in Parts
             PROVE  LET w == disk[c][p]
                    IN  Owner(w) = IF w.units = <<>> THEN Hole
                                   ELSE IF w.units[1] = First(w.by, c) + (p - 1) * setting.window
                                        THEN w.by ELSE Earlier
  BY DEF OwnersSeen, View
<1>1. disk[c][p].units # <<>> =>
        disk[c][p].units[1] = Origin(setting, disk[c][p].by, c) + Before(setting, p)
  BY DEF FileInv, RowsRight, Row
<1>2. Origin(setting, disk[c][p].by, c) = First(disk[c][p].by, c)
  BY DEF Origin, First, SendsRange, Source, Base, Start
<1> QED BY <1>1, <1>2 DEF Owner, Before

\* A flush that comes to the file stores its window.
LEMMA WriteStores ==
  ASSUME FileInv, OwnersSeen, OwnersSeen', NEW t \in Tasks, Flushes(t) \/ FlushesRest(t)
  PROVE  Store!Next
<1> DEFINE k == task[t]
           s == setting
           c == k.chunk
           p == (k.written \div s.window) + 1
           old == disk[c][p].units
           all == k.buffer \o SubSeq(old, Len(k.buffer) + 1, Len(old))
<1>1. /\ Active(t) /\ k.at \in {"copy", "finish"}
      /\ k.at = "copy" => Len(k.buffer) = s.window
      /\ k.at = "finish" => k.buffer # <<>>
  BY DEF Flushes, FlushesRest, Active
<1>w. /\ disk' = [disk EXCEPT ![c][p] = [by |-> t, units |-> all]]
      /\ UNCHANGED <<setting, marked, cropped>>
  BY DEF Flushes, FlushesRest, Writes, history
<1>2. /\ s \in Settings /\ k \in Fetch /\ c \in Nat /\ c \in Chunks
      /\ Collected(s, t, k, size[t]) /\ Aligned(s, k) /\ InFile(s, c)
      /\ k.written \in Nat /\ k.buffer \in Seq(Nat)
      /\ Reported(k) = k.written + Len(k.buffer)
      /\ Reported(k) <= Aim(s, k, size[t])
      /\ Aim(s, k, size[t]) \in Nat /\ Aim(s, k, size[t]) <= Most(s) /\ Most(s) \in Nat
      /\ s.window \in Nat /\ s.window > 0
  <2>1. /\ s \in Settings /\ k \in Fetch /\ c \in Nat /\ c \in Chunks
        /\ Collected(s, t, k, size[t]) /\ Aligned(s, k) /\ InFile(s, c)
        /\ k.written \in Nat /\ k.buffer \in Seq(Nat)
        /\ Reported(k) = k.written + Len(k.buffer)
        /\ size[t] \in {0, s.size} /\ (size[t] = 0 => s.told = 0)
        /\ Most(s) \in Nat /\ s.window \in Nat /\ s.window > 0
    BY <1>1, FetchFacts, SettingFacts DEF FetchRight
  <2>2. Aim(s, k, size[t]) \in Nat /\ Aim(s, k, size[t]) <= Most(s)
    BY <2>1, AimFacts
  <2>3. Reported(k) <= Aim(s, k, size[t]) BY <2>1 DEF Collected
  <2> QED BY <2>1, <2>2, <2>3
<1>3. Len(k.buffer) \in Nat /\ Len(k.buffer) > 0
  <2>1. Len(k.buffer) \in Nat BY <1>2
  <2>2. k.buffer # <<>> => Len(k.buffer) # 0 BY <1>2, EmptySeq
  <2> QED BY <2>1, <2>2, <1>1, <1>2
<1>4. k.written % s.window = 0 /\ k.buffer # <<>> BY <1>1, <1>2, <1>3 DEF Aligned
<1>5. p \in Parts
  <2>1. k.written < Most(s)
    <3> DEFINE aim == Aim(s, k, size[t])
               most == Most(s)
    <3>1. /\ k.written + Len(k.buffer) <= aim /\ aim <= most /\ aim \in Nat /\ most \in Nat
          /\ k.written \in Nat /\ Len(k.buffer) \in Nat /\ Len(k.buffer) > 0
      BY <1>2, <1>3
    <3> HIDE DEF aim, most, k
    <3> QED BY <3>1 DEF most
  <2> HIDE DEF k, s
  <2> QED BY <2>1, <1>2, <1>4, WindowAt
<1>6. disk \in [Chunks -> [Parts -> Cell]] /\ old \in Seq(Nat)
  BY <1>2, <1>5 DEF FileInv, Typed, Cell
<1>7. all # <<>>
  <2> DEFINE rest == SubSeq(old, Len(k.buffer) + 1, Len(old))
  <2>2. rest \in Seq(Nat)
    <3> HIDE DEF old, k
    <3> QED BY <1>3, <1>6, RestFacts
  <2> HIDE DEF rest
  <2>3. Len(k.buffer \o rest) = Len(k.buffer) + Len(rest) /\ Len(rest) \in Nat
    BY <2>2, <1>2, ConcatProperties
  <2>4. Len(k.buffer \o rest) # 0 BY <2>3, <1>3
  <2>5. Len(<<>>) = 0 OBVIOUS
  <2>6. k.buffer \o rest # <<>> BY <2>4, <2>5
  <2> QED BY <2>6 DEF rest
<1> HIDE DEF all, p, c
<1>8. View = [d \in Chunks |-> [q \in Parts |-> Owner(disk[d][q])]] BY DEF OwnersSeen
<1>9. View' = [d \in Chunks |-> [q \in Parts |-> Owner(disk'[d][q])]] BY DEF OwnersSeen, Owner
<1>10. Owner([by |-> t, units |-> all]) = t BY <1>7 DEF Owner
<1>11. \A d \in Chunks : \A q \in Parts :
         disk'[d][q] = IF d = c /\ q = p THEN [by |-> t, units |-> all] ELSE disk[d][q]
  BY <1>w, <1>2, <1>5, <1>6
<1>12. View' = [View EXCEPT ![c][p] = t]
  <2>1. View' = [d \in Chunks |-> [q \in Parts |->
                   IF d = c /\ q = p THEN t ELSE Owner(disk[d][q])]]
    BY <1>9, <1>10, <1>11
  <2> HIDE DEF s, k
  <2> QED BY <2>1, <1>2, <1>5, <1>8
<1>13. \A m \in Reports : m.chunk # c BY <1>1 DEF FileInv, Exclusive, c, Reports
<1>15. Reports' = Reports BY <1>w DEF Reports
<1>14. Store!Store(c, p, t)
  BY <1>w, <1>12, <1>13, <1>15 DEF Store!Store, Store!IsOnDisk
<1> QED BY <1>2, <1>5, <1>14 DEF Store!Next, Store!StepOf, Store!Parts, Parts

\* The truncation cuts its chunk.
LEMMA TruncationCuts ==
  ASSUME FileInv, OwnersSeen, OwnersSeen', NEW t \in Tasks, Truncates(t)
  PROVE  Store!Next
<1> DEFINE k == task[t]
           s == setting
           c == k.chunk
           n == k.written
           last == Windows(n)
           rest == n - (last - 1) * s.window
           row == disk[c]
           new(p) == IF p > last THEN Empty
                     ELSE IF p < last THEN row[p]
                     ELSE [row[p] EXCEPT !.units = SubSeq(@, 1, rest)]
<1>1. /\ Active(t) /\ k.at = "cut"
      /\ disk' = [disk EXCEPT ![c] = [p \in Parts |-> new(p)]]
      /\ UNCHANGED <<setting, marked, cropped>>
  BY DEF Truncates, Active, history
<1>2. /\ s \in Settings /\ k \in Fetch /\ c \in Nat /\ c \in Chunks
      /\ Collected(s, t, k, size[t]) /\ InFile(s, c) /\ Stored(s, t, c, n, row)
      /\ n \in Nat /\ Reported(k) = n + Len(k.buffer)
      /\ size[t] \in {0, s.size} /\ (size[t] = 0 => s.told = 0)
      /\ Most(s) \in Nat
      /\ s.window \in Nat /\ s.window > 0
  BY <1>1, FetchFacts, SettingFacts DEF FetchRight
<1>3. k.buffer = <<>> /\ n > 0 /\ n <= Most(s)
  <2> DEFINE aim == Aim(s, k, size[t])
  <2>1. k.buffer = <<>> /\ n > 0 /\ Reported(k) <= aim BY <1>1, <1>2 DEF Collected
  <2>2. Len(k.buffer) = 0 BY <2>1
  <2>3. aim \in Nat /\ aim <= Most(s) BY <1>2, AimFacts
  <2> HIDE DEF aim, c, s
  <2> QED BY <2>1, <2>2, <2>3, <1>2
<1>4. /\ last \in Parts /\ last \in Nat /\ Before(s, last) < n
      /\ n <= Before(s, last) + s.window
  <2>1. last = (n + s.window - 1) \div s.window BY DEF Windows
  <2> HIDE DEF last, n, s
  <2> QED BY <2>1, <1>2, <1>3, LastWindow
<1>5. rest \in Nat /\ rest > 0
  <2>1. rest = n - Before(s, last) BY DEF Before
  <2>2. Before(s, last) \in Int BY <1>2, <1>4, BeforeType
  <2> HIDE DEF rest, n, last, s
  <2> QED BY <2>1, <2>2, <1>2, <1>4
<1>6. disk \in [Chunks -> [Parts -> Cell]] /\ row[last] \in Cell
  BY <1>2, <1>4 DEF FileInv, Typed
<1> DEFINE q == row[last].units
<1>7. q \in Seq(Nat) /\ Len(q) \in Nat /\ rest <= Len(q)
  <2>1. q \in Seq(Nat) BY <1>6 DEF Cell
  <2>2. Part(s, n, last) <= Len(q) BY <1>2, <1>4 DEF Stored, Begins
  <2>3. Part(s, n, last) = n - Before(s, last) BY <1>2, <1>4, PartValue
  <2>4. rest = n - Before(s, last) BY DEF Before
  <2> HIDE DEF q
  <2> QED BY <2>1, <2>2, <2>3, <2>4
<1>8. Owner(new(last)) = Owner(row[last])
  <2>1. new(last) = [row[last] EXCEPT !.units = SubSeq(q, 1, rest)]
    <3>1. ~(last > last) /\ ~(last < last) BY <1>4
    <3> QED BY <3>1
  <2>2. Len(SubSeq(q, 1, rest)) = rest
    <3> HIDE DEF q, rest
    <3> QED BY <1>5, <1>7, SubSeqProperties
  <2>3. Len(<<>>) = 0 OBVIOUS
  <2>4. SubSeq(q, 1, rest) # <<>> /\ q # <<>> BY <2>2, <2>3, <1>5, <1>7
  <2> HIDE DEF rest
  <2>5. /\ [row[last] EXCEPT !.units = SubSeq(q, 1, rest)].by = row[last].by
        /\ [row[last] EXCEPT !.units = SubSeq(q, 1, rest)].units = SubSeq(q, 1, rest)
    BY <1>6 DEF Cell
  <2> HIDE DEF new
  <2> QED BY <2>1, <2>4, <2>5 DEF Owner
<1>9. ASSUME NEW p \in Parts
      PROVE  Owner(new(p)) = IF p > last THEN Hole ELSE Owner(row[p])
  <2>1. p \in Nat BY FetcherAssumption DEF Parts
  <2>2. CASE p > last BY <2>2 DEF Owner, Empty
  <2>3. CASE p = last
    <3>1. ~(p > last) BY <2>3, <1>4
    <3> HIDE DEF new, last
    <3> QED BY <3>1, <2>3, <1>8
  <2>4. CASE p < last
    <3>1. ~(p > last) BY <2>4, <2>1, <1>4
    <3> HIDE DEF last
    <3> QED BY <3>1, <2>4
  <2> QED BY <2>1, <2>2, <2>3, <2>4, <1>4
<1>10. View = [d \in Chunks |-> [p \in Parts |-> Owner(disk[d][p])]] BY DEF OwnersSeen
<1>11. View' = [d \in Chunks |-> [p \in Parts |-> Owner(disk'[d][p])]] BY DEF OwnersSeen, Owner
<1> HIDE DEF new, last, s
<1>12. \A d \in Chunks : disk'[d] = IF d = c THEN [p \in Parts |-> new(p)] ELSE disk[d]
  BY <1>1, <1>2, <1>6
<1>13. \A d \in Chunks : \A p \in Parts :
         Owner(disk'[d][p]) = IF d = c /\ p > last THEN Hole ELSE Owner(disk[d][p])
  <2> SUFFICES ASSUME NEW d \in Chunks, NEW p \in Parts
               PROVE  Owner(disk'[d][p]) = IF d = c /\ p > last THEN Hole ELSE Owner(disk[d][p])
    OBVIOUS
  <2>1. CASE d = c
    <3>1. disk'[d][p] = new(p) BY <1>12, <2>1
    <3> QED BY <3>1, <1>9, <2>1
  <2>2. CASE d # c BY <1>12, <2>2
  <2> QED BY <2>1, <2>2
<1> HIDE DEF c
<1>14. View' = [View EXCEPT ![c] = [p \in Parts |-> IF p > last THEN Hole ELSE View[c][p]]]
  <2>1. View' = [d \in Chunks |-> [p \in Parts |->
                   IF d = c /\ p > last THEN Hole ELSE Owner(disk[d][p])]]
    BY <1>11, <1>13
  <2> QED BY <2>1, <1>2, <1>10
<1>15. \A m \in Reports : m.chunk # c BY <1>1 DEF FileInv, Exclusive, c, Reports
<1>17. Reports' = Reports BY <1>1 DEF Reports
<1>16. Store!Cut(c, last)
  BY <1>1, <1>14, <1>15, <1>17 DEF Store!Cut, Store!IsOnDisk, Store!Parts, Parts
<1> QED BY <1>2, <1>4, <1>16 DEF Store!Next, Store!StepOf, Store!Parts, Parts

\* A report of a cropped file is none.
LEMMA CropsUnseen ==
  ASSUME FileInv, NEW t \in Tasks, Marks(t), cropped'
  PROVE  Reports' = Reports
<1>1. Reports' = {} BY DEF Reports
<1>2. CASE cropped BY <1>1, <1>2 DEF Reports
<1>3. CASE ~cropped
  <2>1. Crops(task[t]) /\ Active(t) BY <1>3 DEF Marks, Active
  <2>2. setting.told = 0 BY <2>1 DEF Crops
  <2>3. task[t].chunk = 0 BY <2>1, <2>2, FetchFacts
  <2>4. ASSUME NEW m \in marked PROVE FALSE
    <3>1. m.chunk # 0 BY <2>1, <2>3 DEF FileInv, Exclusive
    <3>2. m.chunk = 0 BY <2>2 DEF FileInv, MarksRight, MarkRight, InFile
    <3> QED BY <3>1, <3>2
  <2>5. marked = {} BY <2>4
  <2> QED BY <2>5, <1>1 DEF Reports
<1> QED BY <1>2, <1>3

\* Any other is true.
LEMMA MarkReports ==
  ASSUME FileInv, NEW t \in Tasks, Marks(t), ~cropped'
  PROVE  Store!Next
<1> DEFINE c == task[t].chunk
           last == Windows(task[t].written)
           s == setting
           row == disk[c]
<1>1. Active(t) /\ task[t].at = "mark" BY DEF Marks, Active
<1>2. PICK m : m = [chunk |-> c, parts |-> last, by |-> t] OBVIOUS
<1>3. marked' = marked \cup {m} /\ UNCHANGED <<setting, disk>> /\ ~cropped
      /\ ~Crops(task[t])
  BY <1>2 DEF Marks
<1>4. /\ m \in [chunk : Chunks, parts : Parts, by : Tasks]
      /\ m.chunk = c /\ m.parts = last /\ m.by = t
      /\ MarkRight(s, m, size[t], Crops(task[t]), disk[m.chunk])
  BY <1>1, <1>2, MarkIsRight
<1>5. c \in Chunks /\ last \in Parts BY <1>4
<1>6. s \in Settings /\ disk \in [Chunks -> [Parts -> Cell]] BY DEF FileInv, Typed
<1>7. c \in Nat /\ NumParts \in Nat BY <1>5, FetcherAssumption DEF Chunks
<1>8. InFile(s, c) BY <1>4 DEF MarkRight
<1>9. Room(s, c) \in Nat BY <1>6, <1>7, <1>8, RoomFacts, SettingFacts
<1>10. PICK n \in 1..Room(s, c) :
         /\ last = (n + s.window - 1) \div s.window
         /\ Sealed(s, n, row) /\ Stored(s, t, c, n, row)
  BY <1>3, <1>4 DEF MarkRight
<1>11. n \in Nat \ {0} /\ n <= Room(s, c) BY <1>9
<1> HIDE DEF last
<1>12. ASSUME NEW p \in Parts
       PROVE  /\ p <= last => row[p].units # <<>> /\ row[p].by = t
              /\ p > last => row[p].units = <<>>
  <2>1. p \in Nat /\ last \in Nat BY <1>5, FetcherAssumption DEF Parts
  <2>2. row[p].units \in Seq(Nat) /\ Len(row[p].units) = Part(s, n, p)
    BY <1>5, <1>6, <1>10 DEF Cell, Sealed
  <2>3. p > last => Part(s, n, p) = 0 BY <1>6, <1>9, <1>10, <1>11, PartsOf
  <2>4. p <= last => Part(s, n, p) > 0 /\ Before(s, p) < n
    <3>1. s.window \in Nat /\ s.window > 0 BY <1>6, SettingFacts
    <3>2. p = last => Part(s, n, p) > 0 /\ Before(s, p) < n
      BY <1>6, <1>9, <1>10, <1>11, PartsOf, LastWindow
    <3>3. ASSUME p < last PROVE Part(s, n, p) > 0 /\ Before(s, p) < n
      <4>1. Before(s, p) \in Int /\ Before(s, last) \in Int
            /\ Before(s, p) + s.window <= Before(s, last)
        BY <2>1, <3>3, <1>6, WindowFacts
      <4>2. Before(s, last) < n BY <1>6, <1>10, <1>11, LastWindow
      <4>3. Before(s, p) + s.window <= n BY <3>1, <4>1, <4>2
      <4>4. Part(s, n, p) = s.window BY <4>3, <2>1, <1>6, PartValue
      <4> QED BY <4>1, <4>3, <4>4, <3>1
    <3> QED BY <2>1, <3>2, <3>3
  <2>5. Len(<<>>) = 0 OBVIOUS
  <2>6. Len(row[p].units) = 0 => row[p].units = <<>> BY <2>2, EmptySeq
  <2>7. ASSUME p <= last PROVE row[p].units # <<>> /\ row[p].by = t
    <3>1. Len(row[p].units) > 0 BY <2>2, <2>4, <2>7
    <3>2. row[p].by = t BY <2>4, <2>7, <1>10 DEF Stored
    <3> QED BY <3>1, <3>2, <2>5
  <2> QED BY <2>2, <2>3, <2>6, <2>7
<1>13. View = [d \in Chunks |-> [p \in Parts |-> Owner(disk[d][p])]] BY ViewIs DEF OwnersSeen
<1>14. ASSUME NEW p \in Parts
       PROVE  View[c][p] = IF p <= last THEN t ELSE Hole
  <2>1. View[c][p] = Owner(row[p]) BY <1>5, <1>13
  <2>2. p \in Nat /\ p > 0 /\ last \in Nat BY <1>5, FetcherAssumption DEF Parts
  <2>3. CASE p <= last
    <3>2. Owner(row[p]) = t BY <1>12, <2>3 DEF Owner
    <3> QED BY <2>1, <2>3, <3>2
  <2>4. CASE ~(p <= last)
    <3>1. p > last BY <2>2, <2>4
    <3>2. Owner(row[p]) = Hole BY <3>1, <1>12 DEF Owner
    <3> QED BY <2>1, <2>4, <3>2
  <2> QED BY <2>3, <2>4
<1>15. last \in 1..NumParts BY <1>5 DEF Parts
<1>16. \A p \in 1..last : View[c][p] = t
  <2> SUFFICES ASSUME NEW p \in 1..last PROVE View[c][p] = t OBVIOUS
  <2>1. p \in Parts /\ p <= last BY <1>7, <1>15 DEF Parts
  <2> QED BY <2>1, <1>14
<1>17. \A p \in (last + 1)..NumParts : View[c][p] = Hole
  <2> SUFFICES ASSUME NEW p \in (last + 1)..NumParts PROVE View[c][p] = Hole OBVIOUS
  <2>1. p \in Parts /\ ~(p <= last) BY <1>7, <1>15 DEF Parts
  <2> QED BY <2>1, <1>14
<1>18. \A d \in marked : d.chunk # c BY <1>1 DEF FileInv, Exclusive
<1>19. UNCHANGED View /\ Reports = marked /\ Reports' = marked'
  BY <1>3 DEF View, First, SendsRange, Source, Start, Reports
<1>20. Store!Report(c, last, t)
  <2>1. marked' = marked \cup {[chunk |-> c, parts |-> last, by |-> t]} BY <1>2, <1>3 DEF last
  <2> QED BY <2>1, <1>3, <1>16, <1>17, <1>18, <1>19 DEF Store!Report, Store!IsOnDisk
<1> QED BY <1>5, <1>20 DEF Store!Next, Store!StepOf, Store!Parts, Parts

LEMMA StoreInit == Init => Store!Init
<1> SUFFICES ASSUME Init PROVE Store!Init OBVIOUS
<1>1. View = [c \in Chunks |-> [p \in Parts |-> Hole]] BY DEF Init, Empty, View
<1>2. Reports = {} BY DEF Init, Reports
<1>3. (setting.told > 0) \in BOOLEAN OBVIOUS
<1>4. {} \in SUBSET Chunks OBVIOUS
<1>5. \E resumed \in SUBSET Chunks :
        /\ View = [c \in Chunks |-> [p \in Store!Parts |->
                     IF c \in resumed THEN Earlier ELSE Hole]]
        /\ Reports = {[chunk |-> c, parts |-> NumParts, by |-> Earlier] : c \in resumed}
  <2> WITNESS {} \in SUBSET Chunks
  <2> QED BY <1>1, <1>2 DEF Store!Parts, Parts
<1> QED BY <1>3, <1>5 DEF Store!Init

LEMMA StoreStep ==
  FileInv /\ OwnersSeen /\ OwnersSeen' /\ [Next]_vars => [Store!Next]_(Store!vars)
<1> SUFFICES ASSUME FileInv, OwnersSeen, OwnersSeen', [Next]_vars
             PROVE  Store!Next \/ UNCHANGED <<setting, disk, Reports>>
  BY DEF Store!vars, View, First, SendsRange, Source, Start
<1>1. ASSUME NEW t \in Tasks, TaskStep(t)
      PROVE  Store!Next \/ UNCHANGED <<setting, disk, Reports>>
  <2>1. CASE Flushes(t) \/ FlushesRest(t) BY <2>1, WriteStores
  <2>2. CASE Truncates(t) BY <2>2, TruncationCuts
  <2>3. CASE Marks(t)
    <3>1. CASE ~cropped' BY <2>3, <3>1, MarkReports
    <3>2. CASE cropped'
      <4>1. Reports' = Reports BY <2>3, <3>2, CropsUnseen
      <4> QED BY <4>1, <2>3 DEF Marks
    <3> QED BY <3>1, <3>2
  <2>4. CASE \/ Begin(t) \/ Respond(t) \/ Breaks(t) \/ Stops(t)
             \/ LeavesSlow(t) \/ IsIncomplete(t)
    <3>1. UNCHANGED <<setting, disk, marked, cropped>>
      BY <2>4 DEF Begin, Respond, Breaks, Stops, LeavesSlow, IsIncomplete, GivesUp, history
    <3> QED BY <3>1 DEF Reports
  <2>5. CASE \/ Arrives(t) \/ Passes(t) \/ Copies(t) \/ KeepsUp(t) \/ IsTooSlow(t)
             \/ EndsPiece(t) \/ BodyEnds(t) \/ IsComplete(t)
    <3>1. UNCHANGED <<setting, disk, marked, cropped>>
      BY <2>5 DEF Arrives, Passes, Copies, KeepsUp, IsTooSlow, EndsPiece, BodyEnds, IsComplete,
                  history
    <3> QED BY <3>1 DEF Reports
  <2> QED BY <1>1, <2>1, <2>2, <2>3, <2>4, <2>5 DEF TaskStep
<1>2. CASE Tick \/ SetStop \/ (\E r \in setting.rates : SetSpeedLimit(r)) \/ Finished
           \/ UNCHANGED vars
  <2>1. UNCHANGED <<setting, disk, marked, cropped>>
    BY <1>2 DEF Tick, SetStop, SetSpeedLimit, Finished, vars, history
  <2> QED BY <2>1 DEF Reports
<1> QED BY <1>1, <1>2 DEF Next

\* The fetchers keep what the hasher and the progress file rely on: they behave as a
\* ChunkStore, in which a reported chunk is whole and nobody touches it again, except that a
\* file of unknown size that a retry has cropped counts as not reported.
THEOREM FetcherImplementsStore == Spec => StoreSpec
BY StoreInit, StoreStep, FileIsRight, ViewIs, PTL DEF Spec, StoreSpec, Store!Spec

================================================================================
