----------------------------- MODULE ProgressProofs -----------------------------
(***************************************************************************)
(* Proofs about Progress, for any callers, bars and calls.                 *)
(*                                                                         *)
(* Every step changes one thread (the lemmas named ...Moves); what a step  *)
(* does to the locks follows from where its thread was and where it goes.  *)
(***************************************************************************)
EXTENDS Progress, FiniteSetTheorems, TLAPS

Row == ({"message"} \X Callers \X Nat) \cup ({"bar"} \X Bars \X Nat)

Lefts == Seq(Bars)
Lines == Seq(Row)

Thread == [op : Ops \cup {"none"}, bar : Bars \cup {0}, at : Places, left : Lefts,
           lines : Lines, real : Nat]

\* Thread t becomes r, the others stay.
Moves(t, r) ==
  /\ r \in Thread
  /\ thread' \in [Threads -> Thread]
  /\ thread'[t] = r
  /\ \A u \in Threads \ {t} : thread'[u] = thread[u]

TypedBars ==
  /\ bars \in Nat /\ started \subseteq 1..bars
  /\ bytes \in [Bars -> Nat] /\ overlay \in [Bars -> Nat] /\ reported \in [Bars -> Nat]

TypedLocks ==
  /\ display \in Threads \cup {Nobody}
  /\ bar \in [Bars -> Threads \cup {Nobody}]

TypedScreen ==
  /\ closed \in BOOLEAN
  /\ screen \in Seq(Row)
  /\ printed \in 0..Len(screen)

TypedCalls ==
  /\ calls \in [Callers -> Nat]
  /\ \A t \in Callers : calls[t] <= MaxCalls[t]

TypedThreads == thread \in [Threads -> Thread]

\* A thread has the locks its place says, and a bar where it needs one.
Placed(t) ==
  /\ thread[t].at \in {"bar", "body"} => thread[t].bar \in 1..bars
  /\ thread[t].at = "line" => thread[t].left # <<>>
  /\ t = UI => thread[t].op = "none"
  /\ thread[t].op = "add" => thread[t].at = "display"
  /\ thread[t].op # "none" => thread[t].at # "rest"

HasDisplay(t) == thread[t].at \in {"frame", "line"} <=> display = t
HasBars(t) == \A b \in Bars : bar[b] = t <=> HoldsBar(t, b)

AllPlaced == \A t \in Threads : Placed(t)
AllLocked == \A t \in Threads : HasDisplay(t) /\ HasBars(t)

\* Who adds a bar has its number.
Adding == {u \in Callers : thread[u].op = "add"}
Room == bars + Cardinality(Adding) <= MaxBars

Types == TypedBars /\ TypedLocks /\ TypedScreen /\ TypedCalls /\ TypedThreads
Typed == Types /\ AllPlaced /\ AllLocked /\ Room

\* While a line of a bar is rendered its renderer knows what the bar has been told.
Renders(t, b) == thread[t].at = "line" /\ Head(thread[t].left) = b

Kept ==
  \A b \in Bars :
    /\ \A t \in Threads : Renders(t, b) => thread[t].real = reported[b]
    /\ (\A t \in Threads : ~Renders(t, b)) => bytes[b] = reported[b]

-------------------------------------------------------------------------------
\* Counting.
LEMMA RoomBounds ==
  ASSUME bars \in Nat, Room
  PROVE  IsFiniteSet(Adding) /\ Cardinality(Adding) \in Nat /\ bars \in 0..MaxBars
<1>1. IsFiniteSet(Adding) BY FS_Subset, ProgressAssumption DEF ProgressAssumption, Adding
<1>2. Cardinality(Adding) \in Nat BY <1>1, FS_CardinalityType
<1> QED BY <1>1, <1>2, ProgressAssumption DEF ProgressAssumption, Room

LEMMA BarsInside ==
  ASSUME Types, AllPlaced, bars \in 0..MaxBars, NEW t \in Threads
  PROVE  /\ thread[t].at \in {"bar", "body"} => thread[t].bar \in Bars
         /\ thread[t].left # <<>> => Head(thread[t].left) \in Bars
<1>1. thread[t].left \in Seq(Bars) BY DEF Types, TypedThreads, Thread, Lefts
<1>2. thread[t].at \in {"bar", "body"} => thread[t].bar \in Bars
  BY ProgressAssumption DEF ProgressAssumption, AllPlaced, Placed, Types, TypedBars, Bars
<1> QED BY <1>1, <1>2

-------------------------------------------------------------------------------
\* What each step makes of its thread.
LEMMA RestingTyped == Resting \in Thread
BY DEF Resting, Thread, Lefts, Lines, Places

Rendered(t) ==
  [thread[t] EXCEPT !.at = "frame", !.left = Tail(@),
     !.lines = Append(@, <<"bar", Head(thread[t].left), overlay[Head(thread[t].left)]>>)]

Drawn(t) ==
  IF thread[t].op = "close" THEN [thread[t] EXCEPT !.at = "join", !.lines = <<>>] ELSE Resting

LEMMA CallMoves ==
  ASSUME Types, NEW t \in Callers, NEW op \in Ops, NEW b \in Bars \cup {0}, Call(t, op, b)
  PROVE  Moves(t, [Resting EXCEPT !.op = op, !.bar = b,
                                  !.at = IF op \in BarOps THEN "bar" ELSE "display"])
<1>1. [Resting EXCEPT !.op = op, !.bar = b,
                      !.at = IF op \in BarOps THEN "bar" ELSE "display"] \in Thread
  BY RestingTyped DEF Thread, Places
<1> QED BY <1>1 DEF Call, Moves, Types, TypedThreads, Threads

LEMMA WakesMoves ==
  ASSUME Types, Wakes
  PROVE  Moves(UI, [thread[UI] EXCEPT !.at = IF closed THEN "ended" ELSE "display"])
BY DEF Wakes, Goes, Moves, Types, TypedThreads, Thread, Threads, Places

LEMMA LocksBarMoves ==
  ASSUME Types, NEW t \in Threads, LocksBar(t)
  PROVE  Moves(t, [thread[t] EXCEPT !.at = "body"])
BY DEF LocksBar, Goes, Moves, Types, TypedThreads, Thread, Places

LEMMA AddsMoves ==
  ASSUME Types, NEW t \in Threads, Adds(t)
  PROVE  Moves(t, Resting)
BY RestingTyped DEF Adds, Moves, Types, TypedThreads

LEMMA FindsClosedMoves ==
  ASSUME Types, NEW t \in Threads, FindsClosed(t)
  PROVE  Moves(t, Resting)
BY RestingTyped DEF FindsClosed, Moves, Types, TypedThreads

LEMMA EntersMoves ==
  ASSUME Types, bars \in 0..MaxBars, NEW t \in Threads, Enters(t)
  PROVE  Moves(t, [thread[t] EXCEPT !.at = "frame", !.left = [i \in 1..bars |-> i]])
<1>1. [i \in 1..bars |-> i] \in Lefts
  <2>1. bars \in Nat /\ \A i \in 1..bars : i \in Bars
    BY ProgressAssumption DEF ProgressAssumption, Bars
  <2> QED BY <2>1 DEF Lefts
<1>2. ASSUME NEW l \in Lefts
      PROVE  [thread[t] EXCEPT !.at = "frame", !.left = l] \in Thread
  BY DEF Types, TypedThreads, Thread, Places
<1>3. [thread[t] EXCEPT !.at = "frame", !.left = [i \in 1..bars |-> i]] \in Thread
  BY <1>1, <1>2
<1> QED BY <1>3 DEF Enters, Moves, Types, TypedThreads

LEMMA CapsMoves ==
  ASSUME Types, NEW t \in Threads, Caps(t)
  PROVE  Moves(t, [thread[t] EXCEPT !.at = "line", !.real = bytes[Head(thread[t].left)]])
<1>1. bytes[Head(thread[t].left)] \in Nat
  BY DEF Caps, Types, TypedBars, TypedThreads, Thread, Lefts
<1>2. ASSUME NEW n \in Nat PROVE [thread[t] EXCEPT !.at = "line", !.real = n] \in Thread
  BY DEF Types, TypedThreads, Thread, Places
<1>3. [thread[t] EXCEPT !.at = "line", !.real = bytes[Head(thread[t].left)]] \in Thread
  BY <1>1, <1>2
<1> QED BY <1>3 DEF Caps, Moves, Types, TypedThreads

LEMMA StartsMoves ==
  ASSUME Types, NEW t \in Threads, Starts(t)
  PROVE  Moves(t, [thread[t] EXCEPT !.at = "display"])
BY DEF Starts, Leaves, Moves, Types, TypedThreads, Thread, Places

LEMMA UpdatesMoves ==
  ASSUME Types, NEW t \in Threads, Updates(t)
  PROVE  Moves(t, Resting)
BY RestingTyped DEF Updates, Leaves, Moves, Types, TypedThreads

LEMMA OverlaysMoves ==
  ASSUME Types, NEW t \in Threads, Overlays(t)
  PROVE  Moves(t, [thread[t] EXCEPT !.at = "display"])
BY DEF Overlays, Leaves, Moves, Types, TypedThreads, Thread, Places

LEMMA LogsMoves ==
  ASSUME Types, NEW t \in Threads, Logs(t)
  PROVE  Moves(t, [thread[t] EXCEPT !.at = "display"])
BY DEF Logs, Leaves, Moves, Types, TypedThreads, Thread, Places

LEMMA SkipsMoves ==
  ASSUME Types, NEW t \in Threads, Skips(t)
  PROVE  Moves(t, [thread[t] EXCEPT !.left = Tail(@)])
<1>1. Tail(thread[t].left) \in Lefts
  BY DEF Skips, Types, TypedThreads, Thread, Lefts
<1>2. [thread[t] EXCEPT !.left = Tail(@)] \in Thread
  BY <1>1 DEF Types, TypedThreads, Thread
<1> QED BY <1>2 DEF Skips, Moves, Types, TypedThreads

LEMMA RestoresMoves ==
  ASSUME Types, AllPlaced, NEW t \in Threads, Restores(t)
  PROVE  Moves(t, Rendered(t))
<1>1. Tail(thread[t].left) \in Lefts
  BY DEF Restores, AllPlaced, Placed, Types, TypedThreads, Thread, Lefts
<1>2. Append(thread[t].lines, <<"bar", Head(thread[t].left), overlay[Head(thread[t].left)]>>)
        \in Lines
  <2>1. Head(thread[t].left) \in Bars
    BY DEF Restores, AllPlaced, Placed, Types, TypedThreads, Thread, Lefts
  <2>2. overlay[Head(thread[t].left)] \in Nat BY <2>1 DEF Types, TypedBars
  <2>3. thread[t].lines \in Lines BY DEF Types, TypedThreads, Thread
  <2> QED BY <2>1, <2>2, <2>3 DEF Lines, Row
<1>3. Rendered(t) \in Thread BY <1>1, <1>2 DEF Types, TypedThreads, Thread, Places, Rendered
<1> QED BY <1>3 DEF Restores, Moves, Types, TypedThreads, Rendered

LEMMA DrawsMoves ==
  ASSUME Types, NEW t \in Threads, Draws(t)
  PROVE  Moves(t, Drawn(t))
<1>1. Drawn(t) \in Thread
  <2>1. <<>> \in Lines BY DEF Lines
  <2> QED BY <2>1, RestingTyped DEF Drawn, Types, TypedThreads, Thread, Places
<1> QED BY <1>1 DEF Draws, Moves, Types, TypedThreads, Drawn

LEMMA JoinsMoves ==
  ASSUME Types, NEW t \in Threads, Joins(t)
  PROVE  Moves(t, Resting)
BY RestingTyped DEF Joins, Moves, Types, TypedThreads

-------------------------------------------------------------------------------
\* Types.

\* What a thread becomes is a thread.
LEMMA TypedThreadsStep ==
  ASSUME Types, AllPlaced, bars \in 0..MaxBars, [Next]_vars
  PROVE  TypedThreads'
<1>1. CASE \E t \in Callers, op \in Ops, b \in Bars \cup {0} : Call(t, op, b)
  BY <1>1, CallMoves DEF Moves, TypedThreads
<1>2. CASE \E t \in Threads : Locks(t) \/ Works(t)
  BY <1>2, LocksBarMoves, AddsMoves, FindsClosedMoves, EntersMoves, CapsMoves, StartsMoves,
     UpdatesMoves, OverlaysMoves, LogsMoves, SkipsMoves, RestoresMoves, DrawsMoves, JoinsMoves
     DEF Moves, TypedThreads, Locks, Works
<1>3. CASE Wakes BY <1>3, WakesMoves DEF Moves, TypedThreads
<1>4. CASE UNCHANGED vars BY <1>4 DEF vars, Types, TypedThreads
<1> QED BY <1>1, <1>2, <1>3, <1>4 DEF Next, Finished

\* Threads hold locks.
LEMMA TypedLocksStep ==
  ASSUME Types, [Next]_vars
  PROVE  TypedLocks'
<1> USE DEF Types, TypedLocks, Threads, barVars, lockVars, termVars
<1>1. CASE \E t \in Callers, op \in Ops, b \in Bars \cup {0} : Call(t, op, b)
  BY <1>1 DEF Call
<1>2. CASE \E t \in Threads : Locks(t) \/ Works(t)
  <2> PICK t \in Threads : Locks(t) \/ Works(t) BY <1>2
  <2>1. CASE LocksBar(t) BY <2>1 DEF LocksBar, Goes
  <2>2. CASE Adds(t) BY <2>2 DEF Adds
  <2>3. CASE FindsClosed(t) BY <2>3 DEF FindsClosed
  <2>4. CASE Enters(t) BY <2>4 DEF Enters
  <2>5. CASE Caps(t) BY <2>5 DEF Caps
  <2>6. CASE Starts(t) BY <2>6 DEF Starts, Leaves
  <2>7. CASE Updates(t) BY <2>7 DEF Updates, Leaves
  <2>8. CASE Overlays(t) BY <2>8 DEF Overlays, Leaves
  <2>9. CASE Logs(t) BY <2>9 DEF Logs, Leaves
  <2>10. CASE Skips(t) BY <2>10 DEF Skips
  <2>11. CASE Restores(t) BY <2>11 DEF Restores
  <2>12. CASE Draws(t) BY <2>12 DEF Draws
  <2>13. CASE Joins(t) BY <2>13 DEF Joins
  <2> QED BY <2>1, <2>2, <2>3, <2>4, <2>5, <2>6, <2>7, <2>8, <2>9, <2>10, <2>11, <2>12, <2>13
         DEF Locks, Works
<1>3. CASE Wakes BY <1>3 DEF Wakes, Goes
<1>4. CASE UNCHANGED vars BY <1>4 DEF vars
<1> QED BY <1>1, <1>2, <1>3, <1>4 DEF Next, Finished

\* The numbers of the bars.
LEMMA TypedBarsStep ==
  ASSUME Types, AllPlaced, bars \in 0..MaxBars, [Next]_vars
  PROVE  TypedBars'
<1> USE DEF Types, TypedBars, barVars
<1>1. CASE \E t \in Callers, op \in Ops, b \in Bars \cup {0} : Call(t, op, b)
  BY <1>1 DEF Call
<1>2. CASE \E t \in Threads : Locks(t) \/ Works(t)
  <2> PICK t \in Threads : Locks(t) \/ Works(t) BY <1>2
  <2>1. CASE LocksBar(t) BY <2>1 DEF LocksBar
  <2>2. CASE Adds(t) BY <2>2 DEF Adds
  <2>3. CASE FindsClosed(t) BY <2>3 DEF FindsClosed
  <2>4. CASE Enters(t) BY <2>4 DEF Enters
  <2>5. CASE Caps(t) BY <2>5, ProgressAssumption DEF ProgressAssumption, Caps, TypedThreads, Thread, Bars
  <2>6. CASE Starts(t)
    <3>1. thread[t].bar \in 1..bars BY <2>6 DEF Starts, Leaves, AllPlaced, Placed
    <3>2. bars' = bars /\ started' = started \cup {thread[t].bar}
      BY <2>6 DEF Starts, Leaves
    <3>3. bytes' \in [Bars -> Nat] /\ reported' \in [Bars -> Nat] /\ overlay' = overlay
      BY <2>6 DEF Starts
    <3> QED BY <3>1, <3>2, <3>3
  <2>7. CASE Updates(t)
    <3>1. thread[t].bar \in Bars BY <2>7, BarsInside DEF Updates, Leaves
    <3>2. bytes' \in [Bars -> Nat] /\ reported' \in [Bars -> Nat] BY <2>7, <3>1 DEF Updates
    <3>3. bars' = bars /\ started' = started /\ overlay' = overlay
      BY <2>7 DEF Updates, Leaves
    <3> QED BY <3>2, <3>3
  <2>8. CASE Overlays(t)
    <3>1. thread[t].bar \in Bars BY <2>8, BarsInside DEF Overlays, Leaves
    <3>2. overlay' \in [Bars -> Nat] BY <2>8, <3>1 DEF Overlays
    <3> QED BY <2>8, <3>2 DEF Overlays, Leaves
  <2>9. CASE Logs(t) BY <2>9 DEF Logs, Leaves
  <2>10. CASE Skips(t) BY <2>10 DEF Skips
  <2>11. CASE Restores(t) BY <2>11 DEF Restores, TypedThreads, Thread
  <2>12. CASE Draws(t) BY <2>12 DEF Draws
  <2>13. CASE Joins(t) BY <2>13 DEF Joins
  <2> QED BY <2>1, <2>2, <2>3, <2>4, <2>5, <2>6, <2>7, <2>8, <2>9, <2>10, <2>11, <2>12, <2>13
         DEF Locks, Works
<1>3. CASE Wakes BY <1>3 DEF Wakes
<1>4. CASE UNCHANGED vars BY <1>4 DEF vars
<1> QED BY <1>1, <1>2, <1>3, <1>4 DEF Next, Finished

\* Calls are counted up to their bound.
LEMMA TypedCallsStep ==
  ASSUME Types, [Next]_vars
  PROVE  TypedCalls'
<1> USE ProgressAssumption DEF Types, TypedCalls, barVars, lockVars, termVars
<1>1. CASE \E t \in Callers, op \in Ops, b \in Bars \cup {0} : Call(t, op, b)
  BY <1>1 DEF Call, ProgressAssumption
<1>2. CASE \E t \in Threads : Locks(t) \/ Works(t)
  <2> PICK t \in Threads : Locks(t) \/ Works(t) BY <1>2
  <2>1. CASE LocksBar(t) BY <2>1 DEF LocksBar, Goes
  <2>2. CASE Adds(t) BY <2>2 DEF Adds
  <2>3. CASE FindsClosed(t) BY <2>3 DEF FindsClosed
  <2>4. CASE Enters(t) BY <2>4 DEF Enters
  <2>5. CASE Caps(t) BY <2>5 DEF Caps
  <2>6. CASE Starts(t) BY <2>6 DEF Starts, Leaves
  <2>7. CASE Updates(t) BY <2>7 DEF Updates, Leaves
  <2>8. CASE Overlays(t) BY <2>8 DEF Overlays, Leaves
  <2>9. CASE Logs(t) BY <2>9 DEF Logs, Leaves
  <2>10. CASE Skips(t) BY <2>10 DEF Skips
  <2>11. CASE Restores(t) BY <2>11 DEF Restores
  <2>12. CASE Draws(t) BY <2>12 DEF Draws
  <2>13. CASE Joins(t) BY <2>13 DEF Joins
  <2> QED BY <2>1, <2>2, <2>3, <2>4, <2>5, <2>6, <2>7, <2>8, <2>9, <2>10, <2>11, <2>12, <2>13
         DEF Locks, Works
<1>3. CASE Wakes BY <1>3 DEF Wakes, Goes
<1>4. CASE UNCHANGED vars BY <1>4 DEF vars
<1> QED BY <1>1, <1>2, <1>3, <1>4 DEF Next, Finished

\* The screen has rows, the printed ones among them.
LEMMA TypedScreenStep ==
  ASSUME Types, AllPlaced, [Next]_vars
  PROVE  TypedScreen'
<1> USE DEF Types, TypedScreen, TypedCalls, TypedThreads, Thread, Threads, Row, AllPlaced,
     Placed, barVars, lockVars, termVars
<1>1. CASE \E t \in Callers, op \in Ops, b \in Bars \cup {0} : Call(t, op, b)
  BY <1>1 DEF Call
<1>2. CASE \E t \in Threads : Locks(t) \/ Works(t)
  <2> PICK t \in Threads : Locks(t) \/ Works(t) BY <1>2
  <2>1. CASE LocksBar(t) BY <2>1 DEF LocksBar, Goes
  <2>2. CASE Adds(t) BY <2>2 DEF Adds
  <2>3. CASE FindsClosed(t) BY <2>3 DEF FindsClosed, IsLog, Message
  <2>4. CASE Enters(t) BY <2>4 DEF Enters
  <2>5. CASE Caps(t) BY <2>5 DEF Caps
  <2>6. CASE Starts(t) BY <2>6 DEF Starts, Leaves
  <2>7. CASE Updates(t) BY <2>7 DEF Updates, Leaves
  <2>8. CASE Overlays(t) BY <2>8 DEF Overlays, Leaves
  <2>9. CASE Logs(t) BY <2>9 DEF Logs, Leaves
  <2>10. CASE Skips(t) BY <2>10 DEF Skips
  <2>11. CASE Restores(t) BY <2>11 DEF Restores
  <2>12. CASE Draws(t)
    <3>1. SubSeq(screen, 1, Len(screen) - printed) \in Seq(Row)
      BY DEF Types, TypedScreen
    <3>2. IsLog(t) => t \in Callers BY DEF IsLog, AllPlaced, Placed, Threads
    <3>3. IsLog(t) => Message(t) \in Row BY <3>2 DEF Message, Row, Types, TypedCalls
    <3>4. Above(t) \in Seq(Row) BY <3>1, <3>3 DEF Above
    <3>5. thread[t].lines \in Seq(Row) BY DEF Types, TypedThreads, Thread, Lines
    <3>6. Above(t) \o thread[t].lines \in Seq(Row) BY <3>4, <3>5
    <3>7. Len(Above(t) \o thread[t].lines) = Len(Above(t)) + Len(thread[t].lines) BY <3>4, <3>5
    <3>8. Len(Above(t)) \in Nat /\ Len(thread[t].lines) \in Nat BY <3>4, <3>5
    <3> HIDE DEF IsLog, Message, Above
    <3> QED BY <2>12, <3>6, <3>7, <3>8 DEF Draws, Types, TypedScreen
  <2>13. CASE Joins(t) BY <2>13 DEF Joins
  <2> QED BY <2>1, <2>2, <2>3, <2>4, <2>5, <2>6, <2>7, <2>8, <2>9, <2>10, <2>11, <2>12, <2>13
         DEF Locks, Works
<1>3. CASE Wakes BY <1>3 DEF Wakes, Goes
<1>4. CASE UNCHANGED vars BY <1>4 DEF vars
<1> QED BY <1>1, <1>2, <1>3, <1>4 DEF Next, Finished

-------------------------------------------------------------------------------
\* What a step of one thread leaves alone.
LEMMA StaysPlaced ==
  ASSUME AllPlaced, NEW t \in Threads, NEW r, Moves(t, r), bars' = bars, Placed(t)'
  PROVE  AllPlaced'
BY DEF Moves, AllPlaced, Placed

LEMMA DisplayStays ==
  ASSUME AllLocked, NEW t \in Threads, NEW r, Moves(t, r), display' = display,
         thread[t].at \in {"frame", "line"} <=> thread'[t].at \in {"frame", "line"}
  PROVE  \A u \in Threads : HasDisplay(u)'
BY DEF Moves, AllLocked, HasDisplay

LEMMA OthersHold ==
  ASSUME NEW t \in Threads, NEW r, Moves(t, r)
  PROVE  \A u \in Threads \ {t}, b \in Bars : HoldsBar(u, b)' <=> HoldsBar(u, b)
BY DEF Moves, HoldsBar

LEMMA BarsStay ==
  ASSUME AllLocked, NEW t \in Threads, NEW r, Moves(t, r), bar' = bar,
         thread[t].at \notin {"body", "line"}, thread'[t].at \notin {"body", "line"}
  PROVE  \A u \in Threads : HasBars(u)'
<1>1. \A b \in Bars : HoldsBar(t, b)' <=> HoldsBar(t, b) BY DEF HoldsBar
<1>2. \A u \in Threads, b \in Bars : HoldsBar(u, b)' <=> HoldsBar(u, b) BY <1>1, OthersHold
<1> QED BY <1>2 DEF AllLocked, HasBars

\* Thread t takes the lock of bar c, which is free.
LEMMA TakesBar ==
  ASSUME Nobody \notin Threads, TypedLocks, AllLocked, NEW t \in Threads, NEW r, Moves(t, r),
         NEW c \in Bars, bar[c] = Nobody, bar' = [bar EXCEPT ![c] = t],
         thread[t].at \notin {"body", "line"}, \A b \in Bars : HoldsBar(t, b)' <=> b = c
  PROVE  \A u \in Threads : HasBars(u)'
<1>1. \A b \in Bars : ~HoldsBar(t, b) BY DEF HoldsBar
<1>2. bar'[c] = t /\ \A b \in Bars \ {c} : bar'[b] = bar[b] BY DEF TypedLocks
<1>3. HasBars(t)' BY <1>1, <1>2 DEF AllLocked, HasBars
<1>4. \A u \in Threads \ {t} : HasBars(u)' BY <1>2, OthersHold DEF AllLocked, HasBars
<1> QED BY <1>3, <1>4

\* Thread t releases the lock of bar c, which it has.
LEMMA FreesBar ==
  ASSUME Nobody \notin Threads, TypedLocks, AllLocked, NEW t \in Threads, NEW r, Moves(t, r),
         NEW c \in Bars, bar' = [bar EXCEPT ![c] = Nobody],
         thread'[t].at \notin {"body", "line"}, \A b \in Bars : HoldsBar(t, b) <=> b = c
  PROVE  \A u \in Threads : HasBars(u)'
<1>1. \A b \in Bars : ~HoldsBar(t, b)' BY DEF HoldsBar
<1>2. bar'[c] = Nobody /\ \A b \in Bars \ {c} : bar'[b] = bar[b] BY DEF TypedLocks
<1>3. bar[c] = t BY DEF AllLocked, HasBars
<1>4. HasBars(t)' BY <1>1, <1>2 DEF AllLocked, HasBars
<1>5. \A u \in Threads \ {t} : HasBars(u)' BY <1>2, <1>3, OthersHold DEF AllLocked, HasBars
<1> QED BY <1>4, <1>5

\* Only the holder of a bar's lock renders it.
LEMMA HolderRenders ==
  ASSUME AllLocked, NEW c \in Bars
  PROVE  \A u \in Threads : bar[c] # u => ~Renders(u, c)
BY DEF AllLocked, HasBars, HoldsBar, Renders

LEMMA OthersRender ==
  ASSUME NEW t \in Threads, NEW r, Moves(t, r)
  PROVE  \A u \in Threads \ {t}, b \in Bars :
           (Renders(u, b)' <=> Renders(u, b)) /\ thread'[u].real = thread[u].real
BY DEF Moves, Renders

\* Thread t renders nothing, before or after; what it says to a bar it says twice.
LEMMA KeptAside ==
  ASSUME Kept, NEW t \in Threads, NEW r, Moves(t, r),
         thread[t].at # "line", thread'[t].at # "line",
         \A b \in Bars : \/ bytes'[b] = bytes[b] /\ reported'[b] = reported[b]
                         \/ /\ \A u \in Threads : ~Renders(u, b)
                            /\ bytes'[b] = reported'[b]
  PROVE  Kept'
<1>1. \A b \in Bars : ~Renders(t, b) /\ ~Renders(t, b)' BY DEF Renders
<1>2. \A u \in Threads, b \in Bars : Renders(u, b)' <=> Renders(u, b) BY <1>1, OthersRender
<1>3. \A u \in Threads, b \in Bars : Renders(u, b) => thread'[u].real = thread[u].real
  BY <1>1, OthersRender
<1> QED BY <1>2, <1>3 DEF Kept

\* A thread in a bar's lock has a bar, one that renders has a bar to render.
LEMMA PlacedStep ==
  ASSUME Types, AllPlaced, bars \in 0..MaxBars, [Next]_vars
  PROVE  AllPlaced'
<1>0. Nobody \notin Threads BY ProgressAssumption DEF ProgressAssumption, Threads
<1> USE <1>0 DEF Types, TypedThreads, Moves, Thread, Places, TypedBars, AllPlaced, Placed
<1>1. ASSUME NEW t \in Callers, NEW op \in Ops, NEW b \in Bars \cup {0}, Call(t, op, b)
      PROVE  AllPlaced'
  <2>1. Moves(t, [Resting EXCEPT !.op = op, !.bar = b,
                                 !.at = IF op \in BarOps THEN "bar" ELSE "display"])
    BY <1>1, CallMoves
  <2>2. t \in Threads /\ t # UI BY ProgressAssumption DEF ProgressAssumption, Threads
  <2> QED BY <1>1, <2>1, <2>2 DEF Call, Resting, Ops, BarOps, barVars, lockVars
<1>2. CASE \E t \in Threads : Locks(t) \/ Works(t)
  <2> PICK t \in Threads : Locks(t) \/ Works(t) BY <1>2
  <2>0. /\ thread[t].at \in {"bar", "body"} => thread[t].bar \in Bars
        /\ thread[t].left # <<>> => Head(thread[t].left) \in Bars
    BY BarsInside
  <2>1. CASE LocksBar(t)
    <3>1. Moves(t, [thread[t] EXCEPT !.at = "body"]) BY <2>1, LocksBarMoves
    <3> QED BY <2>0, <2>1, <3>1 DEF LocksBar, Goes, barVars, lockVars
  <2>2. CASE Adds(t)
    <3>1. Moves(t, Resting) BY <2>2, AddsMoves
    <3> QED BY <2>0, <2>2, <3>1 DEF Adds, Resting, barVars, lockVars
  <2>3. CASE FindsClosed(t)
    <3>1. Moves(t, Resting) BY <2>3, FindsClosedMoves
    <3> QED BY <2>0, <2>3, <3>1 DEF FindsClosed, Resting, barVars, lockVars
  <2>4. CASE Enters(t)
    <3>1. Moves(t, [thread[t] EXCEPT !.at = "frame", !.left = [i \in 1..bars |-> i]]) BY <2>4,
         EntersMoves
    <3> QED BY <2>0, <2>4, <3>1 DEF Enters, barVars, lockVars
  <2>5. CASE Caps(t)
    <3>1. Moves(t, [thread[t] EXCEPT !.at = "line", !.real = bytes[Head(thread[t].left)]])
      BY <2>5, CapsMoves
    <3>2. /\ thread[t].at = "frame" /\ thread'[t].at = "line"
          /\ thread'[t].op = thread[t].op /\ thread'[t].bar = thread[t].bar
          /\ thread'[t].left = thread[t].left
      BY <2>5, <3>1 DEF Caps
    <3>3. bars' = bars BY <2>5 DEF Caps
    <3>4. thread[t].left # <<>> BY <2>5 DEF Caps
    <3>5. Placed(t)' BY <3>2, <3>3, <3>4
    <3> QED BY <3>1, <3>3, <3>5, StaysPlaced
  <2>6. CASE Starts(t)
    <3>1. Moves(t, [thread[t] EXCEPT !.at = "display"]) BY <2>6, StartsMoves
    <3> QED BY <2>0, <2>6, <3>1 DEF Starts, Leaves, barVars, lockVars
  <2>7. CASE Updates(t)
    <3>1. Moves(t, Resting) BY <2>7, UpdatesMoves
    <3> QED BY <2>0, <2>7, <3>1 DEF Updates, Leaves, Resting, barVars, lockVars
  <2>8. CASE Overlays(t)
    <3>1. Moves(t, [thread[t] EXCEPT !.at = "display"]) BY <2>8, OverlaysMoves
    <3> QED BY <2>0, <2>8, <3>1 DEF Overlays, Leaves, barVars, lockVars
  <2>9. CASE Logs(t)
    <3>1. Moves(t, [thread[t] EXCEPT !.at = "display"]) BY <2>9, LogsMoves
    <3> QED BY <2>0, <2>9, <3>1 DEF Logs, Leaves, barVars, lockVars
  <2>10. CASE Skips(t)
    <3>1. Moves(t, [thread[t] EXCEPT !.left = Tail(@)]) BY <2>10, SkipsMoves
    <3> QED BY <2>0, <2>10, <3>1 DEF Skips, barVars, lockVars
  <2>11. CASE Restores(t)
    <3>1. Moves(t, Rendered(t)) BY <2>11, RestoresMoves
    <3>2. /\ thread[t].at = "line" /\ thread'[t].at = "frame"
          /\ thread'[t].op = thread[t].op /\ thread'[t].bar = thread[t].bar
      BY <2>11, <3>1 DEF Restores, Rendered
    <3>3. bars' = bars BY <2>11 DEF Restores
    <3>4. Placed(t)' BY <3>2, <3>3
    <3> QED BY <3>1, <3>3, <3>4, StaysPlaced
  <2>12. CASE Draws(t)
    <3>1. Moves(t, Drawn(t)) BY <2>12, DrawsMoves
    <3> QED BY <2>0, <2>12, <3>1 DEF Draws, Drawn, Resting, barVars, lockVars
  <2>13. CASE Joins(t)
    <3>1. Moves(t, Resting) BY <2>13, JoinsMoves
    <3> QED BY <2>0, <2>13, <3>1 DEF Joins, Resting, barVars, lockVars
  <2> QED BY <2>1, <2>2, <2>3, <2>4, <2>5, <2>6, <2>7, <2>8, <2>9, <2>10, <2>11, <2>12, <2>13
         DEF Locks, Works
<1>3. CASE Wakes
  <2>1. Moves(UI, [thread[UI] EXCEPT !.at = IF closed THEN "ended" ELSE "display"])
    BY <1>3, WakesMoves
  <2>2. UI \in Threads BY DEF Threads
  <2> QED BY <1>3, <2>1, <2>2 DEF Wakes, barVars, lockVars
<1>4. CASE UNCHANGED vars BY <1>4 DEF vars, barVars, lockVars
<1> QED BY <1>1, <1>2, <1>3, <1>4 DEF Next, Finished

\* The lock of the display.
LEMMA DisplayStep ==
  ASSUME Types, AllPlaced, AllLocked, bars \in 0..MaxBars, [Next]_vars
  PROVE  \A u \in Threads : HasDisplay(u)'
<1>0. Nobody \notin Threads BY ProgressAssumption DEF ProgressAssumption, Threads
<1> USE <1>0 DEF Types, TypedThreads, Moves, Thread, Places, TypedLocks, AllLocked, HasDisplay
<1>1. ASSUME NEW t \in Callers, NEW op \in Ops, NEW b \in Bars \cup {0}, Call(t, op, b)
      PROVE  \A u \in Threads : HasDisplay(u)'
  <2>1. Moves(t, [Resting EXCEPT !.op = op, !.bar = b,
                                 !.at = IF op \in BarOps THEN "bar" ELSE "display"])
    BY <1>1, CallMoves
  <2>2. t \in Threads /\ t # UI BY ProgressAssumption DEF ProgressAssumption, Threads
  <2> QED BY <1>1, <2>1, <2>2 DEF Call, Resting, Ops, BarOps, barVars, lockVars
<1>2. CASE \E t \in Threads : Locks(t) \/ Works(t)
  <2> PICK t \in Threads : Locks(t) \/ Works(t) BY <1>2
  <2>0. /\ thread[t].at \in {"bar", "body"} => thread[t].bar \in Bars
        /\ thread[t].left # <<>> => Head(thread[t].left) \in Bars
    BY BarsInside
  <2>1. CASE LocksBar(t)
    <3>1. Moves(t, [thread[t] EXCEPT !.at = "body"]) BY <2>1, LocksBarMoves
    <3> QED BY <2>0, <2>1, <3>1 DEF LocksBar, Goes, barVars, lockVars
  <2>2. CASE Adds(t)
    <3>1. Moves(t, Resting) BY <2>2, AddsMoves
    <3> QED BY <2>0, <2>2, <3>1 DEF Adds, Resting, barVars, lockVars
  <2>3. CASE FindsClosed(t)
    <3>1. Moves(t, Resting) BY <2>3, FindsClosedMoves
    <3> QED BY <2>0, <2>3, <3>1 DEF FindsClosed, Resting, barVars, lockVars
  <2>4. CASE Enters(t)
    <3>1. Moves(t, [thread[t] EXCEPT !.at = "frame", !.left = [i \in 1..bars |-> i]]) BY <2>4,
         EntersMoves
    <3> QED BY <2>0, <2>4, <3>1 DEF Enters, barVars, lockVars
  <2>5. CASE Caps(t)
    <3>1. Moves(t, [thread[t] EXCEPT !.at = "line", !.real = bytes[Head(thread[t].left)]])
      BY <2>5, CapsMoves
    <3>2. /\ thread[t].at = "frame" /\ thread'[t].at = "line"
          /\ thread'[t].op = thread[t].op /\ thread'[t].bar = thread[t].bar
          /\ thread'[t].left = thread[t].left
      BY <2>5, <3>1 DEF Caps
    <3>3. display' = display BY <2>5 DEF Caps
    <3> HIDE DEF Types, TypedThreads, Moves, Thread, TypedLocks, AllLocked, HasDisplay
    <3> QED BY <3>1, <3>2, <3>3, DisplayStays
  <2>6. CASE Starts(t)
    <3>1. Moves(t, [thread[t] EXCEPT !.at = "display"]) BY <2>6, StartsMoves
    <3> QED BY <2>0, <2>6, <3>1 DEF Starts, Leaves, barVars, lockVars
  <2>7. CASE Updates(t)
    <3>1. Moves(t, Resting) BY <2>7, UpdatesMoves
    <3> QED BY <2>0, <2>7, <3>1 DEF Updates, Leaves, Resting, barVars, lockVars
  <2>8. CASE Overlays(t)
    <3>1. Moves(t, [thread[t] EXCEPT !.at = "display"]) BY <2>8, OverlaysMoves
    <3> QED BY <2>0, <2>8, <3>1 DEF Overlays, Leaves, barVars, lockVars
  <2>9. CASE Logs(t)
    <3>1. Moves(t, [thread[t] EXCEPT !.at = "display"]) BY <2>9, LogsMoves
    <3> QED BY <2>0, <2>9, <3>1 DEF Logs, Leaves, barVars, lockVars
  <2>10. CASE Skips(t)
    <3>1. Moves(t, [thread[t] EXCEPT !.left = Tail(@)]) BY <2>10, SkipsMoves
    <3> QED BY <2>0, <2>10, <3>1 DEF Skips, barVars, lockVars
  <2>11. CASE Restores(t)
    <3>1. Moves(t, Rendered(t)) BY <2>11, RestoresMoves
    <3>2. /\ thread[t].at = "line" /\ thread'[t].at = "frame"
          /\ thread'[t].op = thread[t].op /\ thread'[t].bar = thread[t].bar
      BY <2>11, <3>1 DEF Restores, Rendered
    <3>3. display' = display BY <2>11 DEF Restores
    <3> HIDE DEF Types, TypedThreads, Moves, Thread, TypedLocks, AllLocked, HasDisplay
    <3> QED BY <3>1, <3>2, <3>3, DisplayStays
  <2>12. CASE Draws(t)
    <3>1. Moves(t, Drawn(t)) BY <2>12, DrawsMoves
    <3> QED BY <2>0, <2>12, <3>1 DEF Draws, Drawn, Resting, barVars, lockVars
  <2>13. CASE Joins(t)
    <3>1. Moves(t, Resting) BY <2>13, JoinsMoves
    <3> QED BY <2>0, <2>13, <3>1 DEF Joins, Resting, barVars, lockVars
  <2> QED BY <2>1, <2>2, <2>3, <2>4, <2>5, <2>6, <2>7, <2>8, <2>9, <2>10, <2>11, <2>12, <2>13
         DEF Locks, Works
<1>3. CASE Wakes
  <2>1. Moves(UI, [thread[UI] EXCEPT !.at = IF closed THEN "ended" ELSE "display"])
    BY <1>3, WakesMoves
  <2>2. UI \in Threads BY DEF Threads
  <2> QED BY <1>3, <2>1, <2>2 DEF Wakes, barVars, lockVars
<1>4. CASE UNCHANGED vars BY <1>4 DEF vars, barVars, lockVars
<1> QED BY <1>1, <1>2, <1>3, <1>4 DEF Next, Finished

\* The locks of the bars.
LEMMA BarsStep ==
  ASSUME Types, AllPlaced, AllLocked, bars \in 0..MaxBars, [Next]_vars
  PROVE  \A u \in Threads : HasBars(u)'
<1> USE DEF Types, TypedThreads, Thread
<1>0. Nobody \notin Threads BY ProgressAssumption DEF ProgressAssumption, Threads
<1>1. ASSUME NEW t \in Callers, NEW op \in Ops, NEW b \in Bars \cup {0}, Call(t, op, b)
      PROVE  \A u \in Threads : HasBars(u)'
  <2>1. Moves(t, [Resting EXCEPT !.op = op, !.bar = b,
                                 !.at = IF op \in BarOps THEN "bar" ELSE "display"])
    BY <1>1, CallMoves
  <2>2. t \in Threads BY DEF Threads
  <2>3. thread[t].at = "rest" /\ thread'[t].at \in {"bar", "display"}
    BY <1>1, <2>1 DEF Call, Resting, Moves
  <2> QED BY <1>1, <2>1, <2>2, <2>3, BarsStay DEF Call, lockVars
<1>2. CASE \E t \in Threads : Locks(t) \/ Works(t)
  <2> PICK t \in Threads : Locks(t) \/ Works(t) BY <1>2
  <2>0. /\ thread[t].at \in {"bar", "body"} => thread[t].bar \in Bars
        /\ thread[t].left # <<>> => Head(thread[t].left) \in Bars
    BY BarsInside
  <2>1. CASE LocksBar(t)
    <3>1. Moves(t, [thread[t] EXCEPT !.at = "body"]) BY <2>1, LocksBarMoves
    <3>2. thread[t].at = "bar" /\ thread'[t].at = "body"
      BY <2>1, <3>1 DEF LocksBar, Goes, Moves
    <3>3. thread'[t].bar = thread[t].bar BY <3>1 DEF Moves
    <3>4. \A b \in Bars : HoldsBar(t, b)' <=> b = thread[t].bar BY <3>2, <3>3 DEF HoldsBar
    <3> QED BY <1>0, <2>0, <2>1, <3>1, <3>2, <3>4, TakesBar DEF LocksBar
  <2>2. CASE Adds(t)
    <3>1. Moves(t, Resting) BY <2>2, AddsMoves
    <3>2. thread[t].at = "display" /\ thread'[t].at = "rest"
      BY <2>2, <3>1 DEF Adds, Moves, Resting
    <3> QED BY <2>2, <3>1, <3>2, BarsStay DEF Adds, lockVars
  <2>3. CASE FindsClosed(t)
    <3>1. Moves(t, Resting) BY <2>3, FindsClosedMoves
    <3>2. thread[t].at = "display" /\ thread'[t].at = "rest"
      BY <2>3, <3>1 DEF FindsClosed, Moves, Resting
    <3> QED BY <2>3, <3>1, <3>2, BarsStay DEF FindsClosed, lockVars
  <2>4. CASE Enters(t)
    <3>1. Moves(t, [thread[t] EXCEPT !.at = "frame", !.left = [i \in 1..bars |-> i]])
      BY <2>4, EntersMoves
    <3>2. thread[t].at = "display" /\ thread'[t].at = "frame"
      BY <2>4, <3>1 DEF Enters, Moves
    <3> QED BY <2>4, <3>1, <3>2, BarsStay DEF Enters, lockVars
  <2>5. CASE Caps(t)
    <3>1. Moves(t, [thread[t] EXCEPT !.at = "line", !.real = bytes[Head(thread[t].left)]])
      BY <2>5, CapsMoves
    <3>2. /\ thread[t].at = "frame" /\ thread'[t].at = "line"
          /\ thread'[t].left = thread[t].left
      BY <2>5, <3>1 DEF Caps, Moves
    <3>3. \A b \in Bars : HoldsBar(t, b)' <=> b = Head(thread[t].left) BY <3>2 DEF HoldsBar
    <3> QED BY <1>0, <2>0, <2>5, <3>1, <3>2, <3>3, TakesBar DEF Caps
  <2>6. CASE Starts(t)
    <3>1. Moves(t, [thread[t] EXCEPT !.at = "display"]) BY <2>6, StartsMoves
    <3>2. thread[t].at = "body" /\ thread'[t].at = "display"
      BY <2>6, <3>1 DEF Starts, Leaves, Moves
    <3>3. \A b \in Bars : HoldsBar(t, b) <=> b = thread[t].bar BY <3>2 DEF HoldsBar
    <3> QED BY <1>0, <2>0, <2>6, <3>1, <3>2, <3>3, FreesBar DEF Starts, Leaves
  <2>7. CASE Updates(t)
    <3>1. Moves(t, Resting) BY <2>7, UpdatesMoves
    <3>2. thread[t].at = "body" /\ thread'[t].at = "rest"
      BY <2>7, <3>1 DEF Updates, Leaves, Moves, Resting
    <3>3. \A b \in Bars : HoldsBar(t, b) <=> b = thread[t].bar BY <3>2 DEF HoldsBar
    <3> QED BY <1>0, <2>0, <2>7, <3>1, <3>2, <3>3, FreesBar DEF Updates, Leaves
  <2>8. CASE Overlays(t)
    <3>1. Moves(t, [thread[t] EXCEPT !.at = "display"]) BY <2>8, OverlaysMoves
    <3>2. thread[t].at = "body" /\ thread'[t].at = "display"
      BY <2>8, <3>1 DEF Overlays, Leaves, Moves
    <3>3. \A b \in Bars : HoldsBar(t, b) <=> b = thread[t].bar BY <3>2 DEF HoldsBar
    <3> QED BY <1>0, <2>0, <2>8, <3>1, <3>2, <3>3, FreesBar DEF Overlays, Leaves
  <2>9. CASE Logs(t)
    <3>1. Moves(t, [thread[t] EXCEPT !.at = "display"]) BY <2>9, LogsMoves
    <3>2. thread[t].at = "body" /\ thread'[t].at = "display"
      BY <2>9, <3>1 DEF Logs, Leaves, Moves
    <3>3. \A b \in Bars : HoldsBar(t, b) <=> b = thread[t].bar BY <3>2 DEF HoldsBar
    <3> QED BY <1>0, <2>0, <2>9, <3>1, <3>2, <3>3, FreesBar DEF Logs, Leaves
  <2>10. CASE Skips(t)
    <3>1. Moves(t, [thread[t] EXCEPT !.left = Tail(@)]) BY <2>10, SkipsMoves
    <3>2. thread[t].at = "frame" /\ thread'[t].at = "frame"
      BY <2>10, <3>1 DEF Skips, Moves
    <3> QED BY <2>10, <3>1, <3>2, BarsStay DEF Skips, lockVars
  <2>11. CASE Restores(t)
    <3>1. Moves(t, Rendered(t)) BY <2>11, RestoresMoves
    <3>2. thread[t].at = "line" /\ thread'[t].at = "frame"
      BY <2>11, <3>1 DEF Restores, Moves, Rendered
    <3>3. Head(thread[t].left) \in Bars BY <2>0, <3>2 DEF AllPlaced, Placed
    <3>4. \A b \in Bars : HoldsBar(t, b) <=> b = Head(thread[t].left) BY <3>2 DEF HoldsBar
    <3> QED BY <1>0, <2>11, <3>1, <3>2, <3>3, <3>4, FreesBar DEF Restores
  <2>12. CASE Draws(t)
    <3>1. Moves(t, Drawn(t)) BY <2>12, DrawsMoves
    <3>2. thread[t].at = "frame" /\ thread'[t].at \in {"rest", "join"}
      BY <2>12, <3>1 DEF Draws, Moves, Resting, Drawn
    <3> QED BY <2>12, <3>1, <3>2, BarsStay DEF Draws, lockVars
  <2>13. CASE Joins(t)
    <3>1. Moves(t, Resting) BY <2>13, JoinsMoves
    <3>2. thread[t].at = "join" /\ thread'[t].at = "rest"
      BY <2>13, <3>1 DEF Joins, Moves, Resting
    <3> QED BY <2>13, <3>1, <3>2, BarsStay DEF Joins, lockVars
  <2> QED BY <2>1, <2>2, <2>3, <2>4, <2>5, <2>6, <2>7, <2>8, <2>9, <2>10, <2>11, <2>12, <2>13
         DEF Locks, Works
<1>3. CASE Wakes
  <2>1. Moves(UI, [thread[UI] EXCEPT !.at = IF closed THEN "ended" ELSE "display"])
    BY <1>3, WakesMoves
  <2>2. UI \in Threads BY DEF Threads
  <2>3. thread[UI].at = "rest" /\ thread'[UI].at \in {"ended", "display"}
    BY <1>3, <2>1, <2>2 DEF Wakes, Moves
  <2> QED BY <1>3, <2>1, <2>2, <2>3, BarsStay DEF Wakes, lockVars
<1>4. CASE UNCHANGED vars BY <1>4 DEF vars, lockVars, AllLocked, HasBars, HoldsBar
<1> QED BY <1>1, <1>2, <1>3, <1>4 DEF Next, Finished

\* What a bar is told is kept.
LEMMA KeptStep ==
  ASSUME Types, AllPlaced, AllLocked, Kept, bars \in 0..MaxBars, [Next]_vars
  PROVE  Kept'
<1> USE DEF Types, TypedThreads, Thread
<1>0. Nobody \notin Threads BY ProgressAssumption DEF ProgressAssumption, Threads
<1>1. ASSUME NEW t \in Callers, NEW op \in Ops, NEW b \in Bars \cup {0}, Call(t, op, b)
      PROVE  Kept'
  <2>1. Moves(t, [Resting EXCEPT !.op = op, !.bar = b,
                                 !.at = IF op \in BarOps THEN "bar" ELSE "display"])
    BY <1>1, CallMoves
  <2>2. t \in Threads BY DEF Threads
  <2>3. thread[t].at = "rest" /\ thread'[t].at \in {"bar", "display"}
    BY <1>1, <2>1 DEF Call, Resting, Moves
  <2> QED BY <1>1, <2>1, <2>2, <2>3, KeptAside DEF Call, barVars
<1>2. CASE \E t \in Threads : Locks(t) \/ Works(t)
  <2> PICK t \in Threads : Locks(t) \/ Works(t) BY <1>2
  <2>0. /\ thread[t].at \in {"bar", "body"} => thread[t].bar \in Bars
        /\ thread[t].left # <<>> => Head(thread[t].left) \in Bars
    BY BarsInside
  <2>1. CASE LocksBar(t)
    <3>1. Moves(t, [thread[t] EXCEPT !.at = "body"]) BY <2>1, LocksBarMoves
    <3>2. thread[t].at = "bar" /\ thread'[t].at = "body"
      BY <2>1, <3>1 DEF LocksBar, Goes, Moves
    <3>3. UNCHANGED <<bytes, reported>> BY <2>1 DEF LocksBar, Goes, barVars
    <3> QED BY <3>1, <3>2, <3>3, KeptAside
  <2>2. CASE Adds(t)
    <3>1. Moves(t, Resting) BY <2>2, AddsMoves
    <3>2. thread[t].at = "display" /\ thread'[t].at = "rest"
      BY <2>2, <3>1 DEF Adds, Moves, Resting
    <3>3. UNCHANGED <<bytes, reported>> BY <2>2 DEF Adds, barVars
    <3> QED BY <3>1, <3>2, <3>3, KeptAside
  <2>3. CASE FindsClosed(t)
    <3>1. Moves(t, Resting) BY <2>3, FindsClosedMoves
    <3>2. thread[t].at = "display" /\ thread'[t].at = "rest"
      BY <2>3, <3>1 DEF FindsClosed, Moves, Resting
    <3>3. UNCHANGED <<bytes, reported>> BY <2>3 DEF FindsClosed, barVars
    <3> QED BY <3>1, <3>2, <3>3, KeptAside
  <2>4. CASE Enters(t)
    <3>1. Moves(t, [thread[t] EXCEPT !.at = "frame", !.left = [i \in 1..bars |-> i]])
      BY <2>4, EntersMoves
    <3>2. thread[t].at = "display" /\ thread'[t].at = "frame"
      BY <2>4, <3>1 DEF Enters, Moves
    <3>3. UNCHANGED <<bytes, reported>> BY <2>4 DEF Enters, barVars
    <3> QED BY <3>1, <3>2, <3>3, KeptAside
  <2>5. CASE Caps(t)
    <3>1. Moves(t, [thread[t] EXCEPT !.at = "line", !.real = bytes[Head(thread[t].left)]])
      BY <2>5, CapsMoves
    <3> DEFINE c == Head(thread[t].left)
    <3>2. c \in Bars /\ bar[c] = Nobody BY <2>0, <2>5 DEF Caps
    <3>3. \A u \in Threads : ~Renders(u, c) BY <1>0, <3>2, HolderRenders
    <3>4. bytes[c] = reported[c] BY <3>2, <3>3 DEF Kept
    <3>5. \A b \in Bars : (Renders(t, b)' <=> b = c) /\ ~Renders(t, b)
      BY <2>5, <3>1 DEF Caps, Moves, Renders
    <3>6. thread'[t].real = reported[c] BY <2>5, <3>1, <3>4 DEF Caps, Moves
    <3>7. reported' = reported /\ \A b \in Bars \ {c} : bytes'[b] = bytes[b]
      BY <2>5 DEF Caps, TypedBars
    <3> HIDE DEF c
    <3>8. ASSUME NEW b \in Bars PROVE
            /\ \A u \in Threads : Renders(u, b)' => thread'[u].real = reported'[b]
            /\ (\A u \in Threads : ~Renders(u, b)') => bytes'[b] = reported'[b]
      <4>1. CASE b = c BY <4>1, <3>1, <3>3, <3>5, <3>6, <3>7, OthersRender
      <4>2. CASE b # c BY <4>2, <3>1, <3>5, <3>7, OthersRender DEF Kept
      <4> QED BY <4>1, <4>2
    <3> QED BY <3>8 DEF Kept
  <2>6. CASE Starts(t)
    <3>1. Moves(t, [thread[t] EXCEPT !.at = "display"]) BY <2>6, StartsMoves
    <3>2. thread[t].at = "body" /\ thread'[t].at = "display"
      BY <2>6, <3>1 DEF Starts, Leaves, Moves
    <3>3. thread[t].bar \in Bars BY <2>0, <3>2
    <3>4. bar[thread[t].bar] = t BY <3>2, <3>3 DEF AllLocked, HasBars, HoldsBar
    <3>5. \A u \in Threads \ {t} : ~Renders(u, thread[t].bar)
      BY <3>3, <3>4, HolderRenders
    <3>6. ~Renders(t, thread[t].bar) BY <3>2 DEF Renders
    <3>7. bytes'[thread[t].bar] = reported'[thread[t].bar]
      BY <2>6, <3>3, <3>5, <3>6 DEF Starts, TypedBars, Kept
    <3>8. \A b \in Bars \ {thread[t].bar} : bytes'[b] = bytes[b] /\ reported'[b] = reported[b]
      BY <2>6 DEF Starts, TypedBars
    <3> QED BY <3>1, <3>2, <3>5, <3>6, <3>7, <3>8, KeptAside
  <2>7. CASE Updates(t)
    <3>1. Moves(t, Resting) BY <2>7, UpdatesMoves
    <3>2. thread[t].at = "body" /\ thread'[t].at = "rest"
      BY <2>7, <3>1 DEF Updates, Leaves, Moves, Resting
    <3>3. thread[t].bar \in Bars BY <2>0, <3>2
    <3>4. bar[thread[t].bar] = t BY <3>2, <3>3 DEF AllLocked, HasBars, HoldsBar
    <3>5. \A u \in Threads \ {t} : ~Renders(u, thread[t].bar)
      BY <3>3, <3>4, HolderRenders
    <3>6. ~Renders(t, thread[t].bar) BY <3>2 DEF Renders
    <3>7. bytes'[thread[t].bar] = reported'[thread[t].bar]
      BY <2>7, <3>3, <3>5, <3>6 DEF Updates, TypedBars, Kept
    <3>8. \A b \in Bars \ {thread[t].bar} : bytes'[b] = bytes[b] /\ reported'[b] = reported[b]
      BY <2>7 DEF Updates, TypedBars
    <3> QED BY <3>1, <3>2, <3>5, <3>6, <3>7, <3>8, KeptAside
  <2>8. CASE Overlays(t)
    <3>1. Moves(t, [thread[t] EXCEPT !.at = "display"]) BY <2>8, OverlaysMoves
    <3>2. thread[t].at = "body" /\ thread'[t].at = "display"
      BY <2>8, <3>1 DEF Overlays, Leaves, Moves
    <3>3. UNCHANGED <<bytes, reported>> BY <2>8 DEF Overlays, Leaves, barVars
    <3> QED BY <3>1, <3>2, <3>3, KeptAside
  <2>9. CASE Logs(t)
    <3>1. Moves(t, [thread[t] EXCEPT !.at = "display"]) BY <2>9, LogsMoves
    <3>2. thread[t].at = "body" /\ thread'[t].at = "display"
      BY <2>9, <3>1 DEF Logs, Leaves, Moves
    <3>3. UNCHANGED <<bytes, reported>> BY <2>9 DEF Logs, Leaves, barVars
    <3> QED BY <3>1, <3>2, <3>3, KeptAside
  <2>10. CASE Skips(t)
    <3>1. Moves(t, [thread[t] EXCEPT !.left = Tail(@)]) BY <2>10, SkipsMoves
    <3>2. thread[t].at = "frame" /\ thread'[t].at = "frame"
      BY <2>10, <3>1 DEF Skips, Moves
    <3>3. UNCHANGED <<bytes, reported>> BY <2>10 DEF Skips, barVars
    <3> QED BY <3>1, <3>2, <3>3, KeptAside
  <2>11. CASE Restores(t)
    <3>1. Moves(t, Rendered(t)) BY <2>11, RestoresMoves
    <3> DEFINE c == Head(thread[t].left)
    <3>2. thread[t].at = "line" /\ thread'[t].at = "frame"
      BY <2>11, <3>1 DEF Restores, Moves, Rendered
    <3>3. c \in Bars BY <2>0, <3>2 DEF AllPlaced, Placed
    <3>4. \A b \in Bars : (Renders(t, b) <=> b = c) /\ ~Renders(t, b)' BY <3>2 DEF Renders
    <3>5. bar[c] = t BY <3>2, <3>3 DEF AllLocked, HasBars, HoldsBar
    <3>6. \A u \in Threads \ {t} : ~Renders(u, c) BY <3>3, <3>5, HolderRenders
    <3>7. thread[t].real = reported[c] BY <3>3, <3>4 DEF Kept
    <3>8. /\ reported' = reported /\ bytes'[c] = thread[t].real
          /\ \A b \in Bars \ {c} : bytes'[b] = bytes[b]
      BY <2>11, <3>3 DEF Restores, TypedBars
    <3> HIDE DEF c
    <3>9. ASSUME NEW b \in Bars PROVE
            /\ \A u \in Threads : Renders(u, b)' => thread'[u].real = reported'[b]
            /\ (\A u \in Threads : ~Renders(u, b)') => bytes'[b] = reported'[b]
      <4>1. CASE b = c BY <4>1, <3>1, <3>4, <3>6, <3>7, <3>8, OthersRender
      <4>2. CASE b # c BY <4>2, <3>1, <3>4, <3>8, OthersRender DEF Kept
      <4> QED BY <4>1, <4>2
    <3> QED BY <3>9 DEF Kept
  <2>12. CASE Draws(t)
    <3>1. Moves(t, Drawn(t)) BY <2>12, DrawsMoves
    <3>2. thread[t].at = "frame" /\ thread'[t].at \in {"rest", "join"}
      BY <2>12, <3>1 DEF Draws, Moves, Resting, Drawn
    <3>3. UNCHANGED <<bytes, reported>> BY <2>12 DEF Draws, barVars
    <3> QED BY <3>1, <3>2, <3>3, KeptAside
  <2>13. CASE Joins(t)
    <3>1. Moves(t, Resting) BY <2>13, JoinsMoves
    <3>2. thread[t].at = "join" /\ thread'[t].at = "rest"
      BY <2>13, <3>1 DEF Joins, Moves, Resting
    <3>3. UNCHANGED <<bytes, reported>> BY <2>13 DEF Joins, barVars
    <3> QED BY <3>1, <3>2, <3>3, KeptAside
  <2> QED BY <2>1, <2>2, <2>3, <2>4, <2>5, <2>6, <2>7, <2>8, <2>9, <2>10, <2>11, <2>12, <2>13
         DEF Locks, Works
<1>3. CASE Wakes
  <2>1. Moves(UI, [thread[UI] EXCEPT !.at = IF closed THEN "ended" ELSE "display"])
    BY <1>3, WakesMoves
  <2>2. UI \in Threads BY DEF Threads
  <2>3. thread[UI].at = "rest" /\ thread'[UI].at \in {"ended", "display"}
    BY <1>3, <2>1, <2>2 DEF Wakes, Moves
  <2> QED BY <1>3, <2>1, <2>2, <2>3, KeptAside DEF Wakes, barVars
<1>4. CASE UNCHANGED vars BY <1>4 DEF vars, barVars, Kept, Renders
<1> QED BY <1>1, <1>2, <1>3, <1>4 DEF Next, Finished

\* The room for bars that are being added.
LEMMA RoomStep ==
  ASSUME Types, AllPlaced, Room, [Next]_vars
  PROVE  Room'
<1>0. IsFiniteSet(Adding) /\ Cardinality(Adding) \in Nat /\ bars \in 0..MaxBars
  BY RoomBounds DEF Types, TypedBars
<1>1. ASSUME NEW t \in Callers, NEW op \in Ops, NEW b \in Bars \cup {0}, Call(t, op, b)
      PROVE  Room'
  <2>1. Moves(t, [Resting EXCEPT !.op = op, !.bar = b,
                                 !.at = IF op \in BarOps THEN "bar" ELSE "display"])
    BY <1>1, CallMoves
  <2>2. bars' = bars BY <1>1 DEF Call, barVars
  <2>3. t \notin Adding BY <1>1 DEF Call, Adding, AllPlaced, Placed, Threads
  <2>4. thread'[t].op = op BY <2>1 DEF Moves, Resting
  <2>5. CASE op = "add"
    <3>0. \A u \in Callers : thread'[u].op = "add" <=> thread[u].op = "add" \/ u = t
      BY <2>1, <2>4, <2>5 DEF Moves, Threads
    <3>1. Adding' = Adding \cup {t} BY <3>0 DEF Adding
    <3>2. Cardinality(Adding \cup {t}) = Cardinality(Adding) + 1 BY <1>0, <2>3, FS_AddElement
    <3>3. bars + Cardinality(Adding) < MaxBars BY <1>1, <2>5 DEF Call, Adding
    <3> QED BY <1>0, <2>2, <3>1, <3>2, <3>3, ProgressAssumption DEF ProgressAssumption, Room
  <2>6. CASE op # "add"
    <3>0. thread[t].op # "add" BY <2>3 DEF Adding
    <3>1. \A u \in Callers : thread'[u].op = "add" <=> thread[u].op = "add"
      BY <2>1, <2>4, <2>6, <3>0 DEF Moves, Threads
    <3>2. Adding' = Adding BY <3>1 DEF Adding
    <3> QED BY <2>2, <3>2 DEF Room
  <2> QED BY <2>5, <2>6
<1>2. ASSUME NEW t \in Threads, Adds(t) PROVE Room'
  <2>1. Moves(t, Resting) BY <1>2, AddsMoves
  <2>2. t \in Adding
    BY <1>2 DEF Adds, Adding, AllPlaced, Placed, Threads
  <2>3. Adding' = Adding \ {t} BY <2>1 DEF Moves, Adding, Threads, Resting
  <2>4. Cardinality(Adding \ {t}) = Cardinality(Adding) - 1 BY <1>0, <2>2, FS_RemoveElement
  <2>5. bars' = bars + 1 BY <1>2 DEF Adds
  <2> QED BY <1>0, <2>3, <2>4, <2>5, ProgressAssumption DEF ProgressAssumption, Room
\* Nobody else begins or ends to add a bar.
<1>3. ASSUME bars' = bars, \A u \in Threads : thread'[u].op = "add" <=> thread[u].op = "add"
      PROVE  Room'
  <2>1. Adding' = Adding BY <1>3 DEF Adding, Threads
  <2> QED BY <1>3, <2>1 DEF Room
<1>4. ASSUME NEW t \in Threads, Locks(t) \/ Works(t), ~Adds(t) PROVE Room'
  <2> USE DEF AllPlaced, Placed, Moves, barVars
  <2>1. CASE LocksBar(t)
    <3>1. Moves(t, [thread[t] EXCEPT !.at = "body"]) BY <1>0, <2>1, LocksBarMoves
    <3>2. thread'[t].op = "add" <=> thread[t].op = "add" BY <2>1, <3>1 DEF LocksBar, Goes
    <3>3. bars' = bars BY <2>1 DEF LocksBar
    <3> QED BY <3>1, <3>2, <3>3, <1>3
  <2>2. CASE FindsClosed(t)
    <3>1. Moves(t, Resting) BY <1>0, <2>2, FindsClosedMoves
    <3>2. thread'[t].op = "add" <=> thread[t].op = "add" BY <2>2, <3>1 DEF FindsClosed, Resting
    <3>3. bars' = bars BY <2>2 DEF FindsClosed
    <3> QED BY <3>1, <3>2, <3>3, <1>3
  <2>3. CASE Enters(t)
    <3>1. Moves(t, [thread[t] EXCEPT !.at = "frame", !.left = [i \in 1..bars |-> i]]) BY <1>0,
         <2>3, EntersMoves
    <3>2. thread'[t].op = "add" <=> thread[t].op = "add" BY <2>3, <3>1 DEF Enters
    <3>3. bars' = bars BY <2>3 DEF Enters
    <3> QED BY <3>1, <3>2, <3>3, <1>3
  <2>4. CASE Caps(t)
    <3>1. Moves(t, [thread[t] EXCEPT !.at = "line", !.real = bytes[Head(thread[t].left)]]) BY
         <1>0, <2>4, CapsMoves
    <3>2. thread'[t].op = "add" <=> thread[t].op = "add" BY <2>4, <3>1 DEF Caps
    <3>3. bars' = bars BY <2>4 DEF Caps
    <3> QED BY <3>1, <3>2, <3>3, <1>3
  <2>5. CASE Starts(t)
    <3>1. Moves(t, [thread[t] EXCEPT !.at = "display"]) BY <1>0, <2>5, StartsMoves
    <3>2. thread'[t].op = "add" <=> thread[t].op = "add" BY <2>5, <3>1 DEF Starts, Leaves
    <3>3. bars' = bars BY <2>5 DEF Starts, Leaves
    <3> QED BY <3>1, <3>2, <3>3, <1>3
  <2>6. CASE Updates(t)
    <3>1. Moves(t, Resting) BY <1>0, <2>6, UpdatesMoves
    <3>2. thread'[t].op = "add" <=> thread[t].op = "add" BY <2>6, <3>1 DEF Updates, Leaves,
         Resting
    <3>3. bars' = bars BY <2>6 DEF Updates, Leaves
    <3> QED BY <3>1, <3>2, <3>3, <1>3
  <2>7. CASE Overlays(t)
    <3>1. Moves(t, [thread[t] EXCEPT !.at = "display"]) BY <1>0, <2>7, OverlaysMoves
    <3>2. thread'[t].op = "add" <=> thread[t].op = "add" BY <2>7, <3>1 DEF Overlays, Leaves
    <3>3. bars' = bars BY <2>7 DEF Overlays, Leaves
    <3> QED BY <3>1, <3>2, <3>3, <1>3
  <2>8. CASE Logs(t)
    <3>1. Moves(t, [thread[t] EXCEPT !.at = "display"]) BY <1>0, <2>8, LogsMoves
    <3>2. thread'[t].op = "add" <=> thread[t].op = "add" BY <2>8, <3>1 DEF Logs, Leaves
    <3>3. bars' = bars BY <2>8 DEF Logs, Leaves
    <3> QED BY <3>1, <3>2, <3>3, <1>3
  <2>9. CASE Skips(t)
    <3>1. Moves(t, [thread[t] EXCEPT !.left = Tail(@)]) BY <1>0, <2>9, SkipsMoves
    <3>2. thread'[t].op = "add" <=> thread[t].op = "add" BY <2>9, <3>1 DEF Skips
    <3>3. bars' = bars BY <2>9 DEF Skips
    <3> QED BY <3>1, <3>2, <3>3, <1>3
  <2>10. CASE Restores(t)
    <3>1. Moves(t, Rendered(t)) BY <1>0, <2>10, RestoresMoves
    <3>2. thread'[t].op = "add" <=> thread[t].op = "add" BY <2>10, <3>1 DEF Restores, Rendered
    <3>3. bars' = bars BY <2>10 DEF Restores
    <3> QED BY <3>1, <3>2, <3>3, <1>3
  <2>11. CASE Draws(t)
    <3>1. Moves(t, Drawn(t)) BY <1>0, <2>11, DrawsMoves
    <3>2. thread'[t].op = "add" <=> thread[t].op = "add" BY <2>11, <3>1 DEF Draws, Drawn, Resting
    <3>3. bars' = bars BY <2>11 DEF Draws
    <3> QED BY <3>1, <3>2, <3>3, <1>3
  <2>12. CASE Joins(t)
    <3>1. Moves(t, Resting) BY <1>0, <2>12, JoinsMoves
    <3>2. thread'[t].op = "add" <=> thread[t].op = "add" BY <2>12, <3>1 DEF Joins, Resting
    <3>3. bars' = bars BY <2>12 DEF Joins
    <3> QED BY <3>1, <3>2, <3>3, <1>3
  <2> QED BY <1>4, <2>1, <2>2, <2>3, <2>4, <2>5, <2>6, <2>7, <2>8, <2>9, <2>10, <2>11, <2>12
         DEF Locks, Works
<1>5. CASE Wakes
  <2>1. Moves(UI, [thread[UI] EXCEPT !.at = IF closed THEN "ended" ELSE "display"])
    BY <1>5, WakesMoves
  <2>2. UI \in Threads BY DEF Threads
  <2>3. thread'[UI].op = thread[UI].op
    BY <2>1, <2>2 DEF Moves, Types, TypedThreads, Thread
  <2>4. \A u \in Threads : thread'[u].op = "add" <=> thread[u].op = "add"
    BY <2>1, <2>3 DEF Moves
  <2>5. bars' = bars BY <1>5 DEF Wakes, barVars
  <2> QED BY <1>3, <2>4, <2>5
<1>6. CASE UNCHANGED vars BY <1>6 DEF vars, barVars, Adding, Room
<1> QED BY <1>1, <1>2, <1>4, <1>5, <1>6 DEF Next, Finished

-------------------------------------------------------------------------------
\* Before anybody has called the display.
LEMMA StartsTyped == Init => Typed /\ Kept
<1> SUFFICES ASSUME Init PROVE Typed /\ Kept OBVIOUS
<1>0. Nobody \notin Threads BY ProgressAssumption DEF ProgressAssumption, Threads
<1>1. TypedBars BY DEF Init, TypedBars
<1>2. TypedLocks BY DEF Init, TypedLocks
<1>3. TypedScreen
  <2>1. screen \in Seq(Row) /\ Len(screen) = 0 BY DEF Init
  <2>2. closed \in BOOLEAN /\ printed = 0 BY DEF Init
  <2> QED BY <2>1, <2>2 DEF TypedScreen
<1>4. TypedCalls BY ProgressAssumption DEF ProgressAssumption, Init, TypedCalls, Threads
<1>5. TypedThreads BY RestingTyped DEF Init, TypedThreads
<1>6. \A t \in Threads : thread[t] = Resting BY DEF Init
<1>7. AllPlaced BY <1>6 DEF AllPlaced, Placed, Resting
<1>8. AllLocked BY <1>0, <1>6 DEF Init, AllLocked, HasDisplay, HasBars, HoldsBar, Resting
<1>9. Room
  <2>1. Adding = {} BY <1>6 DEF Adding, Resting, Threads
  <2>2. bars = 0 BY DEF Init
  <2>3. MaxBars \in Nat BY ProgressAssumption DEF ProgressAssumption
  <2> QED BY <2>1, <2>2, <2>3, FS_EmptySet DEF Room
<1>10. Kept BY <1>6 DEF Init, Kept, Renders, Resting
<1> QED BY <1>1, <1>2, <1>3, <1>4, <1>5, <1>7, <1>8, <1>9, <1>10 DEF Typed, Types

LEMMA TypedStep ==
  ASSUME Typed, [Next]_vars
  PROVE  Typed'
<1>1. bars \in 0..MaxBars BY RoomBounds DEF Typed, Types, TypedBars
<1>2. Types'
  BY <1>1, TypedThreadsStep, TypedLocksStep, TypedBarsStep, TypedCallsStep, TypedScreenStep
     DEF Typed, Types
<1>3. AllPlaced' BY <1>1, PlacedStep DEF Typed
<1>4. AllLocked' BY <1>1, DisplayStep, BarsStep DEF Typed, AllLocked
<1>5. Room' BY RoomStep DEF Typed
<1> QED BY <1>2, <1>3, <1>4, <1>5 DEF Typed

LEMMA AlwaysTyped == Spec => [](Typed /\ Kept)
<1>1. Init => Typed /\ Kept BY StartsTyped
<1>2. Typed /\ Kept /\ [Next]_vars => (Typed /\ Kept)'
  BY TypedStep, KeptStep, RoomBounds DEF Typed, Types, TypedBars
<1> QED BY <1>1, <1>2, PTL DEF Spec

\* Every variable keeps to its type, and each of the locks is held by the thread that is
\* between its two ends and by no other, for any threads and bars.
THEOREM TypeCorrect == Spec => []TypeOK
<1>1. Typed => TypeOK
  <2> SUFFICES ASSUME Typed PROVE TypeOK OBVIOUS
  <2>1. bars \in 0..MaxBars BY RoomBounds DEF Typed, Types, TypedBars
  <2>2. \A t \in Callers : calls[t] \in 0..MaxCalls[t]
    BY ProgressAssumption DEF ProgressAssumption, Typed, Types, TypedCalls
  <2>3. \A t \in Threads : thread[t].at \in Places /\ thread[t].op \in Ops \cup {"none"}
    BY DEF Typed, Types, TypedThreads, Thread
  <2>4. \A t \in Threads :
          /\ thread[t].at \in {"frame", "line"} <=> display = t
          /\ \A b \in Bars : bar[b] = t <=> HoldsBar(t, b)
    BY DEF Typed, AllLocked, HasDisplay, HasBars
  <2> QED BY <2>1, <2>2, <2>3, <2>4
          DEF TypeOK, Typed, Types, TypedBars, TypedLocks, TypedScreen
<1> QED BY <1>1, AlwaysTyped, PTL

\* Whenever nobody is in a bar its bytes are those it has been told, although every frame
\* caps and restores them while other threads report.
THEOREM UpdatesAreKept == Spec => []NoUpdateIsLost
<1>1. Typed /\ Kept => NoUpdateIsLost
  <2> SUFFICES ASSUME Typed, Kept, NEW b \in Bars, bar[b] = Nobody
               PROVE  bytes[b] = reported[b]
    BY DEF NoUpdateIsLost
  <2>1. Nobody \notin Threads BY ProgressAssumption DEF ProgressAssumption, Threads
  <2>2. \A t \in Threads : ~HoldsBar(t, b) BY <2>1 DEF Typed, AllLocked, HasBars
  <2> QED BY <2>2 DEF Kept, Renders, HoldsBar
<1> QED BY <1>1, AlwaysTyped, PTL
-------------------------------------------------------------------------------
\* What is on the screen.

InFrame(t) == thread[t].at \in {"frame", "line"}

\* Who draws has been through the first bars, in their order.
FrameRight(t) ==
  LET k == thread[t]
      done == bars - Len(k.left)
  IN  IF InFrame(t)
      THEN /\ Len(k.left) <= bars
           /\ \A j \in 1..Len(k.left) : k.left[j] = done + j
           /\ \A i \in 1..Len(k.lines) : k.lines[i][1] = "bar" /\ k.lines[i][2] <= done
           /\ \A i, j \in 1..Len(k.lines) : i < j => k.lines[i][2] < k.lines[j][2]
      ELSE k.lines = <<>>

FramesRight == \A t \in Threads : FrameRight(t)

\* The last frame is drawn.
Final == closed /\ display = Nobody

\* The last row above the bars.
Top == Len(screen) - printed

Layout ==
  /\ Final => printed = 0
  /\ \A i \in 1..Len(screen) : i > Top => screen[i][1] = "bar"
  /\ ~Final => \A i \in 1..Top : screen[i][1] = "message"
  /\ \A i, j \in 1..Len(screen) :
       i < j /\ screen[i][1] = "bar" /\ screen[j][1] = "bar" => screen[i][2] < screen[j][2]

Messages ==
  /\ logged \in Seq(Row)
  /\ \E place \in [1..Len(logged) -> 1..Top] : Shows(place)

\* Whoever changes a bar draws later, whoever draws meanwhile has its line as it is, or
\* has it still ahead.
Line(b) == <<"bar", b, overlay[b]>>
Comes(t) == thread[t].at = "display" /\ thread[t].op # "add"
Ahead(t, b) == \E j \in 1..Len(thread[t].left) : thread[t].left[j] = b
Ready(t, b) == \E i \in 1..Len(thread[t].lines) : thread[t].lines[i] = Line(b)
OnScreen(b) == \E i \in 1..Len(screen) : screen[i] = Line(b)

FreshBar(b) ==
  \/ \E t \in Callers : Comes(t)
  \/ /\ \A t \in Threads : InFrame(t) => Ahead(t, b) \/ Ready(t, b)
     /\ OnScreen(b) \/ \E t \in Callers : InFrame(t)

Fresh == ~closed => \A b \in started : FreshBar(b)

\* Nobody draws but the holder of the display's lock.
LEMMA DrawsAlone ==
  ASSUME Typed, NEW t \in Threads, InFrame(t)
  PROVE  display = t /\ \A u \in Threads \ {t} : ~InFrame(u)
BY DEF Typed, AllLocked, HasDisplay, InFrame

LEMMA NobodyDraws ==
  ASSUME Typed, display = Nobody
  PROVE  \A u \in Threads : ~InFrame(u)
<1>1. Nobody \notin Threads BY ProgressAssumption DEF ProgressAssumption, Threads
<1> QED BY <1>1 DEF Typed, AllLocked, HasDisplay, InFrame

LEMMA FramesStay ==
  ASSUME FramesRight, NEW t \in Threads, NEW r, Moves(t, r), bars' = bars, FrameRight(t)'
  PROVE  FramesRight'
BY DEF FramesRight, FrameRight, InFrame, Moves

\* A thread that does not draw, before or after.
LEMMA FramesAside ==
  ASSUME FramesRight, NEW t \in Threads, NEW r, Moves(t, r), bars' = bars,
         ~InFrame(t), r.at \notin {"frame", "line"}, r.lines \in {<<>>, thread[t].lines}
  PROVE  FramesRight'
<1>1. thread[t].lines = <<>> BY DEF FramesRight, FrameRight
<1>2. thread'[t] = r BY DEF Moves
<1>3. FrameRight(t)' BY <1>1, <1>2 DEF FrameRight, InFrame
<1> QED BY <1>3, FramesStay

\* The bars from one on, without the first of them.
LEMMA RestOfBars ==
  ASSUME NEW n \in Nat, NEW q \in Seq(Bars), q # <<>>, Len(q) <= n, NEW d \in Nat,
         d = n - Len(q), \A j \in 1..Len(q) : q[j] = d + j
  PROVE  /\ Head(q) = d + 1
         /\ Len(Tail(q)) <= n /\ n - Len(Tail(q)) = d + 1
         /\ \A j \in 1..Len(Tail(q)) : Tail(q)[j] = d + 1 + j
<1>1. Len(q) \in Nat /\ Len(q) >= 1 OBVIOUS
<1>2. Len(Tail(q)) = Len(q) - 1 /\ \A j \in 1..Len(Tail(q)) : Tail(q)[j] = q[j + 1] BY <1>1
<1>3. Head(q) = q[1] BY <1>1
<1>4. Head(q) = d + 1 BY <1>1, <1>3
<1>5. Len(Tail(q)) <= n /\ n - Len(Tail(q)) = d + 1 BY <1>1, <1>2
<1>6. ASSUME NEW j \in 1..Len(Tail(q)) PROVE Tail(q)[j] = d + 1 + j
  <2>1. j \in Nat /\ j + 1 \in 1..Len(q) BY <1>1, <1>2
  <2>2. q[j + 1] = d + (j + 1) BY <2>1
  <2>3. d + (j + 1) = d + 1 + j BY <2>1
  <2> QED BY <1>2, <2>2, <2>3
<1> QED BY <1>4, <1>5, <1>6

LEMMA FramesStep ==
  ASSUME Typed, FramesRight, [Next]_vars
  PROVE  FramesRight'
<1>0. Types /\ AllPlaced /\ AllLocked /\ bars \in 0..MaxBars /\ bars \in Nat
  BY RoomBounds, ProgressAssumption DEF Typed, Types, TypedBars, ProgressAssumption
<1> USE DEF InFrame
<1>1. ASSUME NEW t \in Callers, NEW op \in Ops, NEW b \in Bars \cup {0}, Call(t, op, b)
      PROVE  FramesRight'
  <2> DEFINE r == [Resting EXCEPT !.op = op, !.bar = b,
                                  !.at = IF op \in BarOps THEN "bar" ELSE "display"]
  <2>1. Moves(t, r) BY <1>0, <1>1, CallMoves
  <2>2. t \in Threads BY DEF Threads
  <2>3. bars' = bars /\ ~InFrame(t) BY <1>1 DEF Call, barVars
  <2>4. r.lines = <<>> /\ r.at \notin {"frame", "line"} BY DEF Resting
  <2> HIDE DEF r
  <2> QED BY <2>1, <2>2, <2>3, <2>4, FramesAside
<1>2. ASSUME NEW t \in Threads, NEW r \in Thread, Moves(t, r), bars' = bars, ~InFrame(t),
             r.at \notin {"frame", "line"}, r.lines \in {<<>>, thread[t].lines}
      PROVE  FramesRight'
  BY <1>2, FramesAside
<1>3. Resting.lines = <<>> /\ Resting.at = "rest" /\ Resting \in Thread
  BY RestingTyped DEF Resting
<1>4. ASSUME NEW t \in Threads, Locks(t) \/ Works(t)
      PROVE  FramesRight'
  <2>0. thread[t] \in Thread BY <1>0 DEF Types, TypedThreads
  <2> DEFINE k == thread[t]
             done == bars - Len(k.left)
  <2>14. k.left \in Seq(Bars) /\ k.lines \in Seq(Row) /\ Len(k.left) \in Nat
    BY <2>0 DEF Thread, Lefts, Lines
  <2>15. ASSUME InFrame(t)
         PROVE  /\ Len(k.left) <= bars /\ done \in Nat
                /\ \A j \in 1..Len(k.left) : k.left[j] = done + j
                /\ \A i \in 1..Len(k.lines) : k.lines[i][1] = "bar" /\ k.lines[i][2] <= done
                /\ \A i, j \in 1..Len(k.lines) : i < j => k.lines[i][2] < k.lines[j][2]
    <3>1. FrameRight(t) BY DEF FramesRight
    <3>2. Len(k.left) <= bars BY <3>1, <2>15 DEF FrameRight
    <3>3. done \in Nat BY <3>2, <2>14, <1>0
    <3> QED BY <3>1, <3>2, <3>3, <2>15 DEF FrameRight
  <2>1. CASE LocksBar(t)
    <3> DEFINE r == [thread[t] EXCEPT !.at = "body"]
    <3>1. Moves(t, r) BY <1>0, <2>1, LocksBarMoves
    <3>2. bars' = bars /\ ~InFrame(t) /\ r.at = "body" /\ r.lines = thread[t].lines
      BY <2>0, <2>1 DEF LocksBar, barVars, Thread
    <3> HIDE DEF r
    <3> QED BY <3>1, <3>2, FramesAside
  <2>2. CASE Adds(t)
    <3>1. Moves(t, Resting) /\ display = Nobody BY <1>0, <2>2, AddsMoves DEF Adds
    <3>2. \A u \in Threads : ~InFrame(u) BY <3>1, NobodyDraws
    <3>3. \A u \in Threads : thread[u].lines = <<>> BY <3>2 DEF FramesRight, FrameRight
    <3> QED BY <1>3, <3>1, <3>2, <3>3 DEF FramesRight, FrameRight, Moves
  <2>3. CASE FindsClosed(t) \/ Updates(t) \/ Joins(t)
    <3>1. Moves(t, Resting)
      BY <1>0, <2>3, FindsClosedMoves, UpdatesMoves, JoinsMoves
    <3>2. bars' = bars /\ ~InFrame(t)
      BY <2>3 DEF FindsClosed, Updates, Leaves, Joins, barVars
    <3> QED BY <1>3, <3>1, <3>2, FramesAside
  <2>4. CASE Enters(t)
    <3> DEFINE all == [i \in 1..bars |-> i]
               r == [thread[t] EXCEPT !.at = "frame", !.left = all]
    <3>1. Moves(t, r) BY <1>0, <2>4, EntersMoves
    <3>2. bars' = bars /\ ~InFrame(t) BY <2>4 DEF Enters, barVars
    <3>3. r.at = "frame" /\ r.left = all /\ r.lines = thread[t].lines BY <2>0 DEF Thread
    <3>4. thread[t].lines = <<>> BY <3>2 DEF FramesRight, FrameRight
    <3>5. Len(all) = bars /\ \A j \in 1..Len(all) : all[j] = bars - Len(all) + j
      BY <1>0
    <3>6. thread'[t] = r BY <3>1 DEF Moves
    <3> HIDE DEF r, all
    <3>7. thread'[t].left = all /\ thread'[t].lines = <<>> /\ thread'[t].at = "frame"
      BY <3>3, <3>4, <3>6
    <3>8. Len(<<>>) = 0 /\ Len(all) <= bars /\ bars' = bars BY <1>0, <3>2, <3>5
    <3>9. FrameRight(t)' BY <3>5, <3>7, <3>8 DEF FrameRight
    <3> QED BY <3>1, <3>2, <3>9, FramesStay
  <2>5. CASE Caps(t)
    <3> DEFINE n == bytes[Head(thread[t].left)]
               r == [thread[t] EXCEPT !.at = "line", !.real = n]
    <3>1. Moves(t, r) BY <1>0, <2>5, CapsMoves
    <3>2. bars' = bars /\ InFrame(t) BY <2>5 DEF Caps
    <3>3. r.at = "line" /\ r.left = k.left /\ r.lines = k.lines BY <2>0 DEF Thread
    <3>4. thread'[t] = r BY <3>1 DEF Moves
    <3> HIDE DEF r
    <3>5. FrameRight(t)' BY <2>15, <3>2, <3>3, <3>4 DEF FrameRight
    <3> QED BY <3>1, <3>2, <3>5, FramesStay
  <2>6. CASE Starts(t) \/ Overlays(t) \/ Logs(t)
    <3> DEFINE r == [thread[t] EXCEPT !.at = "display"]
    <3>1. Moves(t, r) BY <1>0, <2>6, StartsMoves, OverlaysMoves, LogsMoves
    <3>2. bars' = bars /\ ~InFrame(t) BY <2>6 DEF Starts, Overlays, Logs, Leaves
    <3>3. r.at = "display" /\ r.lines = thread[t].lines BY <2>0 DEF Thread
    <3> HIDE DEF r
    <3> QED BY <3>1, <3>2, <3>3, FramesAside
  <2>7. CASE Skips(t)
    <3> DEFINE rest == Tail(k.left)
               r == [thread[t] EXCEPT !.left = Tail(@)]
    <3>1. Moves(t, r) BY <1>0, <2>7, SkipsMoves
    <3>2. bars' = bars /\ InFrame(t) /\ k.left # <<>> /\ k.at = "frame"
      BY <2>7 DEF Skips, barVars
    <3>3. r.at = "frame" /\ r.left = rest /\ r.lines = k.lines BY <2>0, <3>2 DEF Thread
    <3>4. Len(rest) = Len(k.left) - 1 /\ \A j \in 1..Len(rest) : rest[j] = k.left[j + 1]
      BY <2>14, <3>2
    <3>5. thread'[t] = r BY <3>1 DEF Moves
    <3>6. Len(rest) <= bars /\ bars - Len(rest) = done + 1
          /\ \A j \in 1..Len(rest) : rest[j] = done + 1 + j
      <4>1. InFrame(t) BY <3>2
      <4> HIDE DEF k
      <4> QED BY <1>0, <2>14, <2>15, <3>2, <4>1, RestOfBars
    <3>7. \A i \in 1..Len(k.lines) : k.lines[i][1] = "bar" /\ k.lines[i][2] <= done + 1
      <4> SUFFICES ASSUME NEW i \in 1..Len(k.lines)
                   PROVE  k.lines[i][1] = "bar" /\ k.lines[i][2] <= done + 1
        OBVIOUS
      <4>1. k.lines[i][1] = "bar" /\ k.lines[i][2] <= done /\ done \in Nat BY <2>15, <3>2
      <4>2. k.lines[i] \in Row BY <2>14
      <4>3. k.lines[i][2] \in Bars BY <4>1, <4>2 DEF Row
      <4>4. k.lines[i][2] \in Nat BY <4>3, ProgressAssumption DEF Bars, ProgressAssumption
      <4> HIDE DEF done, k
      <4> QED BY <4>1, <4>4
    <3> HIDE DEF r, rest, done
    <3>8. FrameRight(t)' BY <2>15, <3>2, <3>3, <3>5, <3>6, <3>7 DEF FrameRight
    <3> QED BY <3>1, <3>2, <3>8, FramesStay
  <2>8. CASE Restores(t)
    <3> DEFINE rest == Tail(k.left)
               b == Head(k.left)
               more == Append(k.lines, <<"bar", b, overlay[b]>>)
    <3>1. Moves(t, Rendered(t)) BY <1>0, <2>8, RestoresMoves
    <3>2. bars' = bars /\ InFrame(t) /\ k.left # <<>>
      BY <1>0, <2>8 DEF Restores, AllPlaced, Placed
    <3>3. Rendered(t).at = "frame" /\ Rendered(t).left = rest /\ Rendered(t).lines = more
      BY <2>0 DEF Thread, Rendered
    <3>4. Len(rest) = Len(k.left) - 1 /\ \A j \in 1..Len(rest) : rest[j] = k.left[j + 1]
      BY <2>14, <3>2
    <3>5. thread'[t] = Rendered(t) BY <3>1 DEF Moves
    <3>6. Len(rest) <= bars /\ bars - Len(rest) = done + 1
          /\ \A j \in 1..Len(rest) : rest[j] = done + 1 + j
      <4> HIDE DEF k
      <4> QED BY <1>0, <2>14, <2>15, <3>2, RestOfBars
    <3>7. b = done + 1 /\ done \in Nat
      <4> HIDE DEF k
      <4> QED BY <1>0, <2>14, <2>15, <3>2, RestOfBars
    <3>8. ASSUME NEW i \in 1..Len(k.lines)
          PROVE  k.lines[i][1] = "bar" /\ k.lines[i][2] <= done /\ k.lines[i][2] \in Nat
      <4>1. k.lines[i][1] = "bar" /\ k.lines[i][2] <= done BY <2>15, <3>2
      <4>2. k.lines[i] \in Row BY <2>14
      <4>3. k.lines[i][2] \in Bars BY <4>1, <4>2 DEF Row
      <4>4. k.lines[i][2] \in Nat BY <4>3, ProgressAssumption DEF Bars, ProgressAssumption
      <4> QED BY <4>1, <4>4
    <3>9. Len(more) = Len(k.lines) + 1 /\ more[Len(k.lines) + 1] = <<"bar", b, overlay[b]>>
          /\ \A i \in 1..Len(k.lines) : more[i] = k.lines[i]
      <4> DEFINE e == <<"bar", b, overlay[b]>>
      <4> HIDE DEF e, k
      <4>1. Len(Append(k.lines, e)) = Len(k.lines) + 1
            /\ Append(k.lines, e)[Len(k.lines) + 1] = e
            /\ \A i \in 1..Len(k.lines) : Append(k.lines, e)[i] = k.lines[i]
        BY <2>14
      <4> QED BY <4>1 DEF e
    <3>10. more[Len(k.lines) + 1][1] = "bar" /\ more[Len(k.lines) + 1][2] = done + 1
      BY <3>7, <3>9
    <3>11. Len(k.lines) \in Nat BY <2>14
    <3>12. \A i, j \in 1..Len(k.lines) : i < j => k.lines[i][2] < k.lines[j][2]
      BY <2>15, <3>2
    <3> DEFINE n == Len(k.lines)
               row(i) == more[i]
    <3> HIDE DEF more, rest, done, b
    <3>13. \A i \in 1..Len(more) : more[i][1] = "bar" /\ more[i][2] <= done + 1
      <4> SUFFICES ASSUME NEW i \in 1..Len(more)
                   PROVE  more[i][1] = "bar" /\ more[i][2] <= done + 1
        OBVIOUS
      <4>1. i \in 1..n \/ i = n + 1 BY <3>9, <3>11
      <4>2. CASE i \in 1..n
        <5>1. more[i] = k.lines[i] BY <3>9, <4>2
        <5>2. k.lines[i][1] = "bar" /\ k.lines[i][2] <= done /\ k.lines[i][2] \in Nat
          BY <3>8, <4>2
        <5> DEFINE x == k.lines[i][2]
        <5>3. x <= done + 1
          <6>1. x \in Nat /\ x <= done BY <5>2
          <6> HIDE DEF x
          <6> QED BY <6>1, <3>7
        <5> QED BY <5>1, <5>2, <5>3
      <4>3. CASE i = n + 1
        <5>1. done + 1 <= done + 1 BY <3>7
        <5> QED BY <3>10, <4>3, <5>1
      <4> QED BY <4>1, <4>2, <4>3
    <3>14. \A i, j \in 1..Len(more) : i < j => more[i][2] < more[j][2]
      <4> SUFFICES ASSUME NEW i \in 1..Len(more), NEW j \in 1..Len(more), i < j
                   PROVE  more[i][2] < more[j][2]
        OBVIOUS
      <4>1. i \in 1..n /\ (j \in 1..n \/ j = n + 1) BY <3>9, <3>11
      <4>2. more[i] = k.lines[i] BY <3>9, <4>1
      <4>3. CASE j \in 1..n
        <5>1. more[j] = k.lines[j] BY <3>9, <4>3
        <5> QED BY <3>12, <4>1, <4>2, <4>3, <5>1
      <4>4. CASE j = n + 1
        <5> DEFINE x == k.lines[i][2]
        <5>1. x \in Nat /\ x <= done BY <3>8, <4>1
        <5>2. x < done + 1
          <6> HIDE DEF x
          <6> QED BY <5>1, <3>7
        <5> QED BY <3>10, <4>2, <4>4, <5>2
      <4> QED BY <4>1, <4>3, <4>4
    <3>15. FrameRight(t)' BY <3>2, <3>3, <3>5, <3>6, <3>13, <3>14 DEF FrameRight
    <3> QED BY <3>1, <3>2, <3>15, FramesStay
  <2>9. CASE Draws(t)
    <3>1. Moves(t, Drawn(t)) BY <1>0, <2>9, DrawsMoves
    <3>2. bars' = bars BY <2>9 DEF Draws, barVars
    <3>3. Drawn(t).lines = <<>> /\ Drawn(t).at \in {"join", "rest"}
      BY <2>0, <1>3 DEF Drawn, Thread
    <3>4. thread'[t] = Drawn(t) BY <3>1 DEF Moves
    <3>5. FrameRight(t)' BY <3>3, <3>4 DEF FrameRight
    <3> QED BY <3>1, <3>2, <3>5, FramesStay
  <2> QED BY <1>4, <2>1, <2>2, <2>3, <2>4, <2>5, <2>6, <2>7, <2>8, <2>9 DEF Locks, Works
<1>5. CASE Wakes
  <2> DEFINE r == [thread[UI] EXCEPT !.at = IF closed THEN "ended" ELSE "display"]
  <2>1. Moves(UI, r) BY <1>0, <1>5, WakesMoves
  <2>2. UI \in Threads /\ thread[UI] \in Thread BY <1>0 DEF Threads, Types, TypedThreads
  <2>3. bars' = bars /\ ~InFrame(UI) BY <1>5 DEF Wakes, barVars
  <2>4. r.at \in {"ended", "display"} /\ r.lines = thread[UI].lines BY <2>2 DEF Thread
  <2> HIDE DEF r
  <2> QED BY <2>1, <2>2, <2>3, <2>4, FramesAside
<1>6. CASE UNCHANGED vars BY <1>6 DEF vars, barVars, FramesRight, FrameRight
<1> QED BY <1>1, <1>4, <1>5, <1>6 DEF Next, Finished

-------------------------------------------------------------------------------
\* Shows, for a screen q and messages p.
Showing(q, p, place) ==
  /\ \A m, n \in DOMAIN place : m < n => place[m] < place[n]
  /\ \A n \in DOMAIN place : q[place[n]] = p[n]
  /\ \A i \in 1..Len(q) : q[i][1] = "message" => \E n \in DOMAIN place : place[n] = i

\* The rows below top are drawn over, and no message is among the new ones.
LEMMA MessagesStand ==
  ASSUME NEW q \in Seq(Row), NEW p \in Seq(Row), NEW top \in 0..Len(q),
         NEW place \in [1..Len(p) -> 1..top], Showing(q, p, place),
         NEW s \in Seq(Row), Len(s) >= top, \A i \in 1..top : s[i] = q[i],
         \A i \in 1..Len(s) : i > top => s[i][1] # "message"
  PROVE  Showing(s, p, place)
<1>1. DOMAIN place = 1..Len(p) /\ top \in Nat /\ top <= Len(q) OBVIOUS
<1>2. \A m, n \in DOMAIN place : m < n => place[m] < place[n] BY DEF Showing
<1>3. ASSUME NEW n \in DOMAIN place PROVE s[place[n]] = p[n]
  <2>1. place[n] \in 1..top BY <1>1
  <2> QED BY <2>1 DEF Showing
<1>4. ASSUME NEW i \in 1..Len(s), s[i][1] = "message" PROVE \E n \in DOMAIN place : place[n] = i
  <2>1. ~(i > top) BY <1>4
  <2>2. i \in 1..top BY <1>1, <2>1
  <2>3. i \in 1..Len(q) /\ q[i] = s[i] BY <1>1, <2>2
  <2> QED BY <1>4, <2>3 DEF Showing
<1> QED BY <1>2, <1>3, <1>4 DEF Showing

\* The same with a new message in the first of the new rows.
LEMMA MessageCame ==
  ASSUME NEW q \in Seq(Row), NEW p \in Seq(Row), NEW top \in 0..Len(q),
         NEW place \in [1..Len(p) -> 1..top], Showing(q, p, place),
         NEW s \in Seq(Row), NEW m \in Row, Len(s) >= top + 1,
         \A i \in 1..top : s[i] = q[i], s[top + 1] = m,
         \A i \in 1..Len(s) : i > top + 1 => s[i][1] # "message"
  PROVE  \E g \in [1..Len(Append(p, m)) -> 1..(top + 1)] : Showing(s, Append(p, m), g)
<1> DEFINE len == Len(p)
           more == Append(p, m)
           g == [n \in 1..(len + 1) |-> IF n = len + 1 THEN top + 1 ELSE place[n]]
<1>1. DOMAIN place = 1..len /\ top \in Nat /\ top <= Len(q) /\ len \in Nat OBVIOUS
<1>2. more \in Seq(Row) /\ Len(more) = len + 1 /\ more[len + 1] = m
      /\ \A n \in 1..len : more[n] = p[n]
  OBVIOUS
<1>3. g \in [1..(len + 1) -> 1..(top + 1)]
  <2> SUFFICES ASSUME NEW n \in 1..(len + 1)
               PROVE  (IF n = len + 1 THEN top + 1 ELSE place[n]) \in 1..(top + 1)
    OBVIOUS
  <2>1. n # len + 1 => n \in 1..len BY <1>1
  <2>2. n # len + 1 => place[n] \in 1..top BY <2>1
  <2>3. top + 1 \in 1..(top + 1) /\ 1..top \subseteq 1..(top + 1) BY <1>1
  <2> QED BY <2>2, <2>3
<1>4. DOMAIN g = 1..(len + 1) /\ g[len + 1] = top + 1
      /\ \A n \in 1..len : g[n] = place[n] /\ g[n] \in 1..top
  <2>1. DOMAIN g = 1..(len + 1) OBVIOUS
  <2>2. len + 1 \in 1..(len + 1) /\ \A n \in 1..len : n \in 1..(len + 1) /\ n # len + 1 BY <1>1
  <2> HIDE DEF len
  <2>3. g[len + 1] = top + 1 BY <2>2
  <2>4. \A n \in 1..len : g[n] = place[n] BY <2>2
  <2> QED BY <2>1, <2>3, <2>4 DEF len
<1> HIDE DEF g, len, more
<1>5. ASSUME NEW a \in DOMAIN g, NEW b \in DOMAIN g, a < b PROVE g[a] < g[b]
  <2>1. a \in 1..len /\ (b \in 1..len \/ b = len + 1) BY <1>1, <1>4, <1>5
  <2>2. g[a] = place[a] /\ g[a] \in 1..top BY <1>4, <2>1
  <2>3. CASE b \in 1..len
    <3>1. place[a] < place[b] BY <1>1, <1>5, <2>1, <2>3 DEF Showing
    <3> QED BY <1>4, <2>2, <2>3, <3>1
  <2>4. CASE b = len + 1 BY <1>1, <1>4, <2>2, <2>4
  <2> QED BY <2>1, <2>3, <2>4
<1>6. ASSUME NEW n \in DOMAIN g PROVE s[g[n]] = more[n]
  <2>1. CASE n \in 1..len
    <3>1. g[n] = place[n] /\ g[n] \in 1..top /\ more[n] = p[n] BY <1>2, <1>4, <2>1
    <3>2. q[place[n]] = p[n] BY <1>1, <2>1 DEF Showing
    <3> QED BY <3>1, <3>2
  <2>2. CASE n = len + 1 BY <1>2, <1>4, <2>2
  <2> QED BY <1>1, <1>4, <2>1, <2>2
<1>7. ASSUME NEW i \in 1..Len(s), s[i][1] = "message" PROVE \E n \in DOMAIN g : g[n] = i
  <2>1. ~(i > top + 1) BY <1>7
  <2>2. i \in 1..top \/ i = top + 1 BY <1>1, <2>1
  <2>3. CASE i \in 1..top
    <3>1. i \in 1..Len(q) /\ q[i] = s[i] BY <1>1, <2>3
    <3>2. PICK n \in 1..len : place[n] = i BY <1>1, <1>7, <3>1 DEF Showing
    <3>3. n \in DOMAIN g /\ g[n] = i BY <1>1, <1>4, <3>2, SMTT(20)
    <3> QED BY <3>3
  <2>4. CASE i = top + 1
    <3>1. len + 1 \in DOMAIN g BY <1>1, <1>4
    <3> QED BY <1>4, <2>4, <3>1
  <2> QED BY <2>2, <2>3, <2>4
<1>8. Showing(s, more, g) BY <1>5, <1>6, <1>7 DEF Showing
<1>9. g \in [1..Len(more) -> 1..(top + 1)] BY <1>2, <1>3
<1> QED BY <1>8, <1>9 DEF more

LEMMA ShowsIs == ASSUME NEW place PROVE Shows(place) <=> Showing(screen, logged, place)
BY DEF Shows, Showing

Screened == Layout /\ Messages

LEMMA TopFacts ==
  ASSUME Typed
  PROVE  /\ screen \in Seq(Row) /\ printed \in 0..Len(screen) /\ closed \in BOOLEAN
         /\ Top \in 0..Len(screen) /\ Len(screen) \in Nat
         /\ printed = 0 => Top = Len(screen)
BY DEF Typed, Types, TypedScreen, Top

LEMMA MessageIsRow ==
  ASSUME Typed, NEW t \in Threads, IsLog(t)
  PROVE  Message(t) \in Row /\ Message(t)[1] = "message"
<1>1. t \in Callers BY DEF IsLog, Typed, AllPlaced, Placed, Threads
<1> QED BY <1>1 DEF Message, Row, Typed, Types, TypedCalls

\* Nothing is drawn, and the display is not closed.
LEMMA ScreenStays ==
  ASSUME Screened, UNCHANGED <<closed, display, printed, screen, logged>>
  PROVE  Screened'
<1>1. Top' = Top BY DEF Top
<1>2. Layout' BY <1>1 DEF Screened, Layout, Final
<1>3. Messages'
  <2>1. PICK place \in [1..Len(logged) -> 1..Top] : Shows(place) BY DEF Screened, Messages
  <2>2. Shows(place)' BY <2>1 DEF Shows
  <2>3. place \in [1..Len(logged') -> 1..Top'] BY <1>1
  <2>4. logged' \in Seq(Row) BY DEF Screened, Messages
  <2> QED BY <2>2, <2>3, <2>4 DEF Messages
<1> QED BY <1>2, <1>3 DEF Screened

LEMMA EntersScreen ==
  ASSUME Typed, Screened, NEW t \in Threads, Enters(t)
  PROVE  Screened'
<1>1. /\ ~closed /\ display' = t /\ UNCHANGED <<printed, screen, logged>>
  BY DEF Enters
<1>2. t # Nobody BY ProgressAssumption DEF ProgressAssumption, Threads
<1>3. ~Final /\ ~Final' BY <1>1, <1>2 DEF Final
<1>4. Layout' BY <1>1, <1>3 DEF Screened, Layout, Top
<1>5. Messages' BY <1>1 DEF Screened, Messages, Top, Shows
<1> QED BY <1>4, <1>5 DEF Screened

LEMMA FindsClosedScreen ==
  ASSUME Typed, Screened, NEW t \in Threads, FindsClosed(t)
  PROVE  Screened'
<1>1. /\ closed /\ display = Nobody /\ UNCHANGED <<closed, display, printed>>
      /\ screen' = IF IsLog(t) THEN Append(screen, Message(t)) ELSE screen
      /\ logged' = IF IsLog(t) THEN Append(logged, Message(t)) ELSE logged
  BY DEF FindsClosed, lockVars
<1>2. CASE ~IsLog(t) BY <1>1, <1>2, ScreenStays
<1>3. CASE IsLog(t)
  <2> DEFINE m == Message(t)
             len == Len(screen)
             s == screen'
  <2>1. m \in Row /\ m[1] = "message" BY <1>3, MessageIsRow
  <2>2. Final /\ Final' /\ printed = 0 /\ printed' = 0
    BY <1>1 DEF Screened, Layout, Final
  <2>3. screen \in Seq(Row) /\ len \in Nat /\ Top = len BY <2>2, TopFacts
  <2>4. s = Append(screen, m) /\ logged' = Append(logged, m) BY <1>1, <1>3
  <2> HIDE DEF m
  <2>5. s \in Seq(Row) /\ Len(s) = len + 1 /\ s[len + 1] = m
        /\ \A i \in 1..len : s[i] = screen[i]
    BY <2>1, <2>3, <2>4
  <2>6. Top' = len + 1
    <3>1. Top' = Len(s) - printed' BY DEF Top
    <3> HIDE DEF s, len
    <3> QED BY <2>2, <2>3, <2>5, <3>1
  <2>7. \A i \in 1..Len(s) : i = len + 1 \/ i \in 1..len BY <2>3, <2>5
  <2> HIDE DEF s, len
  <2>8. Layout'
    <3>1. \A i, j \in 1..Len(s) :
            i < j /\ s[i][1] = "bar" /\ s[j][1] = "bar" => s[i][2] < s[j][2]
      <4> SUFFICES ASSUME NEW i \in 1..Len(s), NEW j \in 1..Len(s),
                          i < j, s[i][1] = "bar", s[j][1] = "bar"
                   PROVE  s[i][2] < s[j][2]
        OBVIOUS
      <4>1. i \in 1..len /\ j \in 1..len BY <2>1, <2>5, <2>7
      <4> QED BY <2>5, <4>1 DEF Screened, Layout, len
    <3>2. \A i \in 1..Len(s) : ~(i > Top') BY <2>3, <2>5, <2>6
    <3> QED BY <2>2, <3>1, <3>2 DEF Layout, s
  <2>9. Messages'
    <3>1. logged \in Seq(Row) BY DEF Screened, Messages
    <3>2. PICK place \in [1..Len(logged) -> 1..Top] : Shows(place) BY DEF Screened, Messages
    <3>3. Showing(screen, logged, place) BY <3>2, ShowsIs
    <3>4. \E g \in [1..Len(Append(logged, m)) -> 1..(len + 1)] :
            Showing(s, Append(logged, m), g)
      <4>1. place \in [1..Len(logged) -> 1..len] /\ len \in 0..Len(screen)
        BY <2>3, <3>2 DEF len
      <4>2. \A i \in 1..Len(s) : i > len + 1 => s[i][1] # "message" BY <2>3, <2>5
      <4>3. Len(s) >= len + 1 BY <2>3, <2>5
      <4> QED BY <2>1, <2>3, <2>5, <3>1, <3>3, <4>1, <4>2, <4>3, MessageCame
    <3>5. PICK g \in [1..Len(logged') -> 1..Top'] : Showing(s, logged', g)
      BY <2>4, <2>6, <3>4
    <3>6. Shows(g)' BY <3>5 DEF Shows, Showing, s
    <3>7. logged' \in Seq(Row) BY <2>1, <2>4, <3>1
    <3> QED BY <3>5, <3>6, <3>7 DEF Messages
  <2> QED BY <2>8, <2>9 DEF Screened
<1> QED BY <1>2, <1>3

\* The rows that stay when the last frame is drawn over.
LEMMA AboveFacts ==
  ASSUME Typed, NEW t \in Threads
  PROVE  LET a == Above(t)
         IN  /\ a \in Seq(Row)
             /\ Len(a) = IF IsLog(t) THEN Top + 1 ELSE Top
             /\ \A i \in 1..Top : a[i] = screen[i]
             /\ IsLog(t) => a[Top + 1] = Message(t)
<1> DEFINE kept == SubSeq(screen, 1, Top)
<1>1. screen \in Seq(Row) /\ Top \in Nat /\ Top <= Len(screen) BY TopFacts
<1>2. kept \in Seq(Row) /\ Len(kept) = Top /\ \A i \in 1..Top : kept[i] = screen[i]
  <2> HIDE DEF Top
  <2> QED BY <1>1
<1>3. Above(t) = IF IsLog(t) THEN Append(kept, Message(t)) ELSE kept BY DEF Above, Top
<1> HIDE DEF kept
<1>4. CASE IsLog(t)
  <2>1. Message(t) \in Row BY <1>4, MessageIsRow
  <2> DEFINE m == Message(t)
             a == Append(kept, m)
  <2> HIDE DEF m
  <2>2. a \in Seq(Row) /\ Len(a) = Top + 1 /\ a[Top + 1] = m
        /\ \A i \in 1..Top : a[i] = kept[i]
    BY <1>1, <1>2, <2>1 DEF m
  <2> QED BY <1>2, <1>3, <1>4, <2>2 DEF m
<1>5. CASE ~IsLog(t) BY <1>2, <1>3, <1>5
<1> QED BY <1>4, <1>5
\* The lines of a frame come one below the other.
LEMMA BelowFacts ==
  ASSUME NEW a \in Seq(Row), NEW q \in Seq(Row)
  PROVE  /\ a \o q \in Seq(Row) /\ Len(a \o q) = Len(a) + Len(q)
         /\ Len(a) \in Nat /\ Len(q) \in Nat
         /\ \A i \in 1..Len(a) : (a \o q)[i] = a[i]
         /\ \A i \in 1..Len(a \o q) :
              i \notin 1..Len(a) => i - Len(a) \in 1..Len(q) /\ (a \o q)[i] = q[i - Len(a)]
         /\ \A i \in 1..Len(q) : Len(a) + i \in 1..Len(a \o q) /\ (a \o q)[Len(a) + i] = q[i]
OBVIOUS

\* The whole frame is drawn, and the message of a log() above it.
LEMMA DrawsScreen ==
  ASSUME Typed, FramesRight, Screened, NEW t \in Threads, Draws(t)
  PROVE  Screened'
<1> DEFINE a == Above(t)
           q == thread[t].lines
           s == screen'
           n == Len(a)
           m == Message(t)
<1>1. /\ s = a \o q
      /\ printed' = IF closed THEN 0 ELSE Len(q)
      /\ logged' = IF IsLog(t) THEN Append(logged, m) ELSE logged
      /\ display' = Nobody /\ closed' = closed
  BY DEF Draws
<1>2. InFrame(t) /\ display = t /\ t # Nobody
  <2>1. InFrame(t) BY DEF Draws, InFrame
  <2>2. t # Nobody BY ProgressAssumption DEF ProgressAssumption, Threads
  <2> QED BY <2>1, <2>2, DrawsAlone
<1>3. ~Final /\ (Final' <=> closed) BY <1>1, <1>2 DEF Final
<1>4. /\ \A i \in 1..Len(q) : q[i][1] = "bar"
      /\ \A i, j \in 1..Len(q) : i < j => q[i][2] < q[j][2]
  BY <1>2 DEF FramesRight, FrameRight
<1>5. q \in Seq(Row) BY DEF Typed, Types, TypedThreads, Thread, Lines
<1>6. /\ a \in Seq(Row)
      /\ n = IF IsLog(t) THEN Top + 1 ELSE Top
      /\ \A i \in 1..Top : a[i] = screen[i]
      /\ IsLog(t) => a[Top + 1] = m
  BY AboveFacts
<1>7. Top \in 0..Len(screen) /\ screen \in Seq(Row) /\ Len(screen) \in Nat /\ closed \in BOOLEAN
  BY TopFacts
<1>8. IsLog(t) => m \in Row /\ m[1] = "message" BY MessageIsRow
<1>9. \A i \in 1..Top : screen[i][1] = "message" BY <1>3 DEF Screened, Layout
<1>10. /\ s \in Seq(Row) /\ Len(s) = n + Len(q) /\ n \in Nat /\ Len(q) \in Nat
       /\ \A i \in 1..n : s[i] = a[i]
       /\ \A i \in 1..Len(s) : i \notin 1..n => i - n \in 1..Len(q) /\ s[i] = q[i - n]
  <2> HIDE DEF a, q
  <2> QED BY <1>1, <1>5, <1>6, BelowFacts
<1>11. Top' = IF closed THEN Len(s) ELSE n
  <2>1. Top' = Len(s) - printed' BY DEF Top
  <2> HIDE DEF s, n, q
  <2> QED BY <1>1, <1>7, <1>10, <2>1
<1>12. logged \in Seq(Row) BY DEF Screened, Messages
<1>13. PICK place \in [1..Len(logged) -> 1..Top] : Shows(place) BY DEF Screened, Messages
<1>14. Showing(screen, logged, place) BY <1>13, ShowsIs
<1> DEFINE top == Top
<1> HIDE DEF a, q, s, n, m, top
<1>15. \A i \in 1..top : s[i] = screen[i]
  <2>1. \A i \in 1..top : i \in 1..n BY <1>6, <1>7 DEF top
  <2> QED BY <1>6, <1>10, <2>1 DEF top
<1>16. \A i \in 1..n : s[i][1] = "message"
  <2> SUFFICES ASSUME NEW i \in 1..n PROVE s[i][1] = "message" OBVIOUS
  <2>1. i \in 1..top \/ (IsLog(t) /\ i = top + 1) BY <1>6, <1>7 DEF top
  <2>2. CASE i \in 1..top BY <1>9, <1>15, <2>2 DEF top
  <2>3. CASE IsLog(t) /\ i = top + 1 BY <1>6, <1>8, <1>10, <2>3 DEF top
  <2> QED BY <2>1, <2>2, <2>3
<1>17. \A i \in 1..Len(s) : i \notin 1..n => s[i][1] = "bar" BY <1>4, <1>10
<1>18. Layout'
  <2>1. Final' => printed' = 0 BY <1>1, <1>3
  <2>2. \A i \in 1..Len(s) : i > Top' => s[i][1] = "bar"
    <3> SUFFICES ASSUME NEW i \in 1..Len(s), i > Top' PROVE i \notin 1..n
      BY <1>17
    <3> DEFINE c == Top'
    <3>1. c = Len(s) \/ c = n BY <1>11
    <3>2. i > c OBVIOUS
    <3>3. Len(s) \in Nat /\ n \in Nat BY <1>10
    <3> HIDE DEF c
    <3> QED BY <3>1, <3>2, <3>3
  <2>3. ~Final' => \A i \in 1..Top' : s[i][1] = "message" BY <1>3, <1>11, <1>16
  <2>4. \A i, j \in 1..Len(s) :
          i < j /\ s[i][1] = "bar" /\ s[j][1] = "bar" => s[i][2] < s[j][2]
    <3> SUFFICES ASSUME NEW i \in 1..Len(s), NEW j \in 1..Len(s), i < j,
                        s[i][1] = "bar", s[j][1] = "bar"
                 PROVE  s[i][2] < s[j][2]
      OBVIOUS
    <3>1. i \notin 1..n /\ j \notin 1..n BY <1>16
    <3>2. i - n \in 1..Len(q) /\ s[i] = q[i - n] /\ j - n \in 1..Len(q) /\ s[j] = q[j - n]
      BY <1>10, <3>1
    <3>3. i - n < j - n BY <1>10
    <3>4. q[i - n][2] < q[j - n][2] BY <1>4, <3>2, <3>3
    <3> QED BY <3>2, <3>4
  <2> QED BY <2>1, <2>2, <2>3, <2>4 DEF Layout, s
<1>19. top \in 0..Len(screen) /\ top \in Nat BY <1>7 DEF top
<1>20. place \in [1..Len(logged) -> 1..top] BY <1>13 DEF top
<1>21. \E g \in [1..Len(logged') -> 1..n] : Showing(s, logged', g)
  <2>1. CASE IsLog(t)
    <3>1. n = top + 1 /\ s[top + 1] = m /\ Len(s) >= top + 1
      <4>1. n = top + 1 BY <1>6, <2>1 DEF top
      <4>2. top + 1 \in 1..n /\ Len(s) >= n BY <1>10, <1>19, <4>1
      <4> QED BY <1>6, <1>10, <1>19, <2>1, <4>1, <4>2 DEF top
    <3>2. \A i \in 1..Len(s) : i > top + 1 => s[i][1] # "message"
      <4>1. \A i \in 1..Len(s) : i > n => s[i][1] = "bar" BY <1>10, <1>17
      <4> QED BY <3>1, <4>1
    <3>3. m \in Row BY <1>8, <2>1
    <3>4. \E g \in [1..Len(Append(logged, m)) -> 1..(top + 1)] :
            Showing(s, Append(logged, m), g)
      BY <1>7, <1>10, <1>12, <1>14, <1>15, <1>19, <1>20, <3>1, <3>2, <3>3, MessageCame
    <3> QED BY <1>1, <2>1, <3>1, <3>4
  <2>2. CASE ~IsLog(t)
    <3>1. n = top /\ Len(s) >= top BY <1>6, <1>10, <2>2 DEF top
    <3>2. \A i \in 1..Len(s) : i > top => s[i][1] # "message"
      <4>1. \A i \in 1..Len(s) : i > n => s[i][1] = "bar" BY <1>10, <1>17
      <4> QED BY <3>1, <4>1
    <3>3. Showing(s, logged, place)
      BY <1>7, <1>10, <1>12, <1>14, <1>15, <1>19, <1>20, <3>1, <3>2, MessagesStand
    <3> QED BY <1>1, <1>20, <2>2, <3>1, <3>3
  <2> QED BY <2>1, <2>2
<1>22. PICK g \in [1..Len(logged') -> 1..n] : Showing(s, logged', g) BY <1>21
<1>23. 1..n \subseteq 1..Top'
  <2> DEFINE c == Top'
  <2>1. (c = Len(s) \/ c = n) /\ Len(s) >= n /\ Len(s) \in Nat BY <1>10, <1>11
  <2> HIDE DEF c
  <2>2. c \in Nat /\ n <= c BY <1>10, <2>1
  <2>3. 1..n \subseteq 1..c BY <1>10, <2>2
  <2> QED BY <2>3 DEF c
<1>24. g \in [1..Len(logged') -> 1..Top'] BY <1>22, <1>23
<1>25. Shows(g)' BY <1>22 DEF Shows, Showing, s
<1>26. logged' \in Seq(Row) BY <1>1, <1>8, <1>12
<1> QED BY <1>18, <1>24, <1>25, <1>26 DEF Screened, Messages

\* Of all steps three change the screen or close the display.
LEMMA ScreenedStep ==
  ASSUME Typed, FramesRight, Screened, [Next]_vars
  PROVE  Screened'
<1>1. CASE \E t \in Callers, op \in Ops, b \in Bars \cup {0} : Call(t, op, b)
  BY <1>1, ScreenStays DEF Call, lockVars, termVars
<1>2. ASSUME NEW t \in Threads, Locks(t)
      PROVE  Screened'
  <2>1. CASE LocksBar(t) BY <2>1, ScreenStays DEF LocksBar, termVars
  <2>2. CASE Adds(t) BY <2>2, ScreenStays DEF Adds, lockVars, termVars
  <2>3. CASE FindsClosed(t) BY <2>3, FindsClosedScreen
  <2>4. CASE Enters(t) BY <2>4, EntersScreen
  <2>5. CASE Caps(t) BY <2>5, ScreenStays DEF Caps, termVars
  <2> QED BY <1>2, <2>1, <2>2, <2>3, <2>4, <2>5 DEF Locks
<1>3. ASSUME NEW t \in Threads, Works(t)
      PROVE  Screened'
  <2>1. CASE Starts(t) BY <2>1, ScreenStays DEF Starts, Leaves, termVars
  <2>2. CASE Updates(t) BY <2>2, ScreenStays DEF Updates, Leaves, termVars
  <2>3. CASE Overlays(t) BY <2>3, ScreenStays DEF Overlays, Leaves, termVars
  <2>4. CASE Logs(t) BY <2>4, ScreenStays DEF Logs, Leaves, termVars
  <2>5. CASE Skips(t) BY <2>5, ScreenStays DEF Skips, lockVars, termVars
  <2>6. CASE Restores(t) BY <2>6, ScreenStays DEF Restores, termVars
  <2>7. CASE Draws(t) BY <2>7, DrawsScreen
  <2>8. CASE Joins(t) BY <2>8, ScreenStays DEF Joins, lockVars, termVars
  <2> QED BY <1>3, <2>1, <2>2, <2>3, <2>4, <2>5, <2>6, <2>7, <2>8 DEF Works
<1>4. CASE Wakes BY <1>4, ScreenStays DEF Wakes, lockVars, termVars
<1>5. CASE UNCHANGED vars BY <1>5, ScreenStays DEF vars, lockVars, termVars
<1> QED BY <1>1, <1>2, <1>3, <1>4, <1>5 DEF Next, Finished

-------------------------------------------------------------------------------
\* What a bar shows.

\* A caller has changed a bar, and draws.
LEMMA FreshComes ==
  ASSUME NEW t \in Callers, Comes(t)'
  PROVE  Fresh'
BY DEF Fresh, FreshBar

\* A thread that was not on its way to draw, does not draw and did not.
LEMMA FreshAside ==
  ASSUME Fresh, NEW t \in Threads, NEW r, Moves(t, r),
         UNCHANGED <<started, overlay, screen, closed>>,
         t \notin Callers \/ ~Comes(t), ~InFrame(t), ~InFrame(t)'
  PROVE  Fresh'
<1>1. \A u \in Threads \ {t} : thread'[u] = thread[u] BY DEF Moves
<1>2. \A u \in Callers : u \in Threads BY DEF Threads
<1>3. \A u \in Callers : Comes(u) => Comes(u)' BY <1>1, <1>2 DEF Comes
<1>4. \A u \in Callers : InFrame(u) => InFrame(u)' BY <1>1, <1>2 DEF InFrame
<1>5. \A u \in Threads : InFrame(u)' => InFrame(u) /\ thread'[u] = thread[u]
  BY <1>1 DEF InFrame
<1>6. \A b : (OnScreen(b) <=> OnScreen(b)') /\ Line(b)' = Line(b) BY DEF OnScreen, Line
<1> SUFFICES ASSUME ~closed, NEW b \in started PROVE FreshBar(b)' BY DEF Fresh
<1>7. FreshBar(b) BY DEF Fresh
<1>8. \A u \in Threads : InFrame(u)' /\ (Ahead(u, b) \/ Ready(u, b)) => (Ahead(u, b) \/ Ready(u, b))'
  BY <1>5, <1>6 DEF Ahead, Ready
<1> QED BY <1>3, <1>4, <1>5, <1>6, <1>7, <1>8 DEF FreshBar

\* Who draws goes on.
LEMMA FreshInFrame ==
  ASSUME Fresh, NEW t \in Threads, NEW r, Moves(t, r),
         UNCHANGED <<started, overlay, screen, closed>>, InFrame(t), InFrame(t)',
         \A b \in started : Ahead(t, b) \/ Ready(t, b) => (Ahead(t, b) \/ Ready(t, b))'
  PROVE  Fresh'
<1>1. \A u \in Threads \ {t} : thread'[u] = thread[u] BY DEF Moves
<1>2. \A u \in Callers : u \in Threads BY DEF Threads
<1>3. \A u \in Callers : Comes(u) => Comes(u)' BY <1>1, <1>2 DEF Comes, InFrame
<1>4. \A u \in Threads : InFrame(u) <=> InFrame(u)' BY <1>1 DEF InFrame
<1>5. \A b : (OnScreen(b) <=> OnScreen(b)') /\ Line(b)' = Line(b) BY DEF OnScreen, Line
<1> SUFFICES ASSUME ~closed, NEW b \in started PROVE FreshBar(b)' BY DEF Fresh
<1>6. FreshBar(b) BY DEF Fresh
<1>7. \A u \in Threads \ {t} : Ahead(u, b) \/ Ready(u, b) => (Ahead(u, b) \/ Ready(u, b))'
  BY <1>1, <1>5 DEF Ahead, Ready
<1> QED BY <1>2, <1>3, <1>4, <1>5, <1>6, <1>7 DEF FreshBar

\* Who begins to draw has all bars ahead.
LEMMA EntersFresh ==
  ASSUME Typed, Fresh, NEW t \in Threads, Enters(t)
  PROVE  Fresh'
<1> DEFINE all == [i \in 1..bars |-> i]
           r == [thread[t] EXCEPT !.at = "frame", !.left = all]
<1>0. Types /\ bars \in 0..MaxBars /\ thread[t] \in Thread
  BY RoomBounds DEF Typed, Types, TypedBars, TypedThreads
<1>1. Moves(t, r) BY <1>0, EntersMoves
<1>2. /\ UNCHANGED <<started, overlay, screen>>
      /\ display = Nobody /\ ~closed
  BY DEF Enters, barVars
<1>3. \A u \in Threads : ~InFrame(u) BY <1>2, NobodyDraws
<1>4. thread'[t] = r /\ \A u \in Threads \ {t} : thread'[u] = thread[u] BY <1>1 DEF Moves
<1>5. r.at = "frame" /\ r.left = all BY <1>0 DEF Thread
<1>6. Len(all) = bars /\ \A i \in 1..bars : all[i] = i
  BY <1>0, ProgressAssumption DEF ProgressAssumption
<1> HIDE DEF r, all
<1>7. InFrame(t)' BY <1>4, <1>5 DEF InFrame
<1>8. \A u \in Threads : InFrame(u)' => u = t BY <1>3, <1>4 DEF InFrame
<1> SUFFICES ASSUME NEW b \in started PROVE FreshBar(b)' BY <1>2 DEF Fresh
<1>9. FreshBar(b) BY <1>2 DEF Fresh
<1>10. Ahead(t, b)'
  <2>1. b \in 1..bars BY DEF Typed, Types, TypedBars
  <2> QED BY <1>4, <1>5, <1>6, <2>1 DEF Ahead
<1>11. \A u \in Callers : u \in Threads BY DEF Threads
<1>12. OnScreen(b) => OnScreen(b)' BY <1>2 DEF OnScreen, Line
<1>13. CASE t \in Callers BY <1>7, <1>8, <1>10, <1>13 DEF FreshBar
<1>14. CASE t \notin Callers
  <2>1. \A u \in Callers : Comes(u) => Comes(u)' BY <1>4, <1>11, <1>14 DEF Comes
  <2> QED BY <1>3, <1>8, <1>9, <1>10, <1>11, <1>12, <2>1 DEF FreshBar
<1> QED BY <1>13, <1>14

\* The frame that is drawn has the line of every bar that nobody is about to draw.
LEMMA DrawsFresh ==
  ASSUME Typed, Fresh, NEW t \in Threads, Draws(t)
  PROVE  Fresh'
<1> DEFINE a == Above(t)
           q == thread[t].lines
<1>0. Types BY DEF Typed
<1>1. Moves(t, Drawn(t)) BY <1>0, DrawsMoves
<1>2. /\ UNCHANGED <<started, overlay, closed>>
      /\ screen' = a \o q /\ thread[t].left = <<>> /\ InFrame(t)
  BY DEF Draws, barVars, InFrame
<1>3. \A u \in Threads \ {t} : ~InFrame(u) BY <1>2, DrawsAlone
<1>4. thread'[t] = Drawn(t) /\ \A u \in Threads \ {t} : thread'[u] = thread[u]
  BY <1>1 DEF Moves
<1>5. Drawn(t).at \in {"rest", "join"}
  <2>1. thread[t] \in Thread BY <1>0 DEF Types, TypedThreads
  <2> QED BY <2>1 DEF Drawn, Resting, Thread
<1>6. \A u \in Threads : ~InFrame(u)' BY <1>3, <1>4, <1>5 DEF InFrame
<1> SUFFICES ASSUME ~closed, NEW b \in started PROVE FreshBar(b)' BY <1>2 DEF Fresh
<1>7. FreshBar(b) BY <1>2 DEF Fresh
<1>8. \A u \in Callers : u \in Threads BY DEF Threads
<1>9. \A u \in Callers : Comes(u) => Comes(u)'
  <2>1. ~Comes(t) BY <1>2 DEF Comes, InFrame
  <2> QED BY <1>4, <1>8, <2>1 DEF Comes
<1>10. Ready(t, b) => OnScreen(b)'
  <2> SUFFICES ASSUME NEW i \in 1..Len(q), q[i] = Line(b) PROVE OnScreen(b)'
    BY DEF Ready
  <2>1. q \in Seq(Row) BY <1>0 DEF Types, TypedThreads, Thread, Lines
  <2>2. a \in Seq(Row) BY AboveFacts
  <2> HIDE DEF a, q
  <2>3. Len(a) + i \in 1..Len(screen') /\ screen'[Len(a) + i] = q[i]
    BY <1>2, <2>1, <2>2, BelowFacts
  <2>4. Line(b)' = Line(b) BY <1>2 DEF Line
  <2> QED BY <2>3, <2>4 DEF OnScreen
<1>11. ~Ahead(t, b) BY <1>2 DEF Ahead
<1> QED BY <1>2, <1>6, <1>7, <1>9, <1>10, <1>11 DEF FreshBar

\* What is not the first of a list is among the rest.
LEMMA HeadOrRest ==
  ASSUME NEW q \in Seq(Bars), q # <<>>, NEW j \in 1..Len(q)
  PROVE  q[j] = Head(q) \/ \E i \in 1..Len(Tail(q)) : Tail(q)[i] = q[j]
<1> SUFFICES ASSUME q[j] # Head(q) PROVE \E i \in 1..Len(Tail(q)) : Tail(q)[i] = q[j]
  OBVIOUS
<1>1. j - 1 \in 1..Len(Tail(q)) /\ Tail(q)[j - 1] = q[j] OBVIOUS
<1> QED BY <1>1

\* The line of the next bar, as the bar is now.
LEMMA RestoresFresh ==
  ASSUME Typed, Fresh, NEW t \in Threads, Restores(t)
  PROVE  Fresh'
<1> DEFINE k == thread[t]
           h == Head(k.left)
           rest == Tail(k.left)
           e == Line(h)
           more == Append(k.lines, e)
<1>0. Types /\ AllPlaced BY DEF Typed
<1>1. Moves(t, Rendered(t)) BY <1>0, RestoresMoves
<1>2. /\ UNCHANGED <<started, overlay, screen, closed>>
      /\ k.at = "line" /\ k.left # <<>> /\ InFrame(t)
  BY <1>0 DEF Restores, termVars, InFrame, AllPlaced, Placed
<1>3. k \in Thread BY <1>0 DEF Types, TypedThreads
<1>4. k.left \in Seq(Bars) /\ k.lines \in Seq(Row) BY <1>3 DEF Thread, Lefts, Lines
<1>5. thread'[t].at = "frame" /\ thread'[t].left = rest /\ thread'[t].lines = more
  BY <1>1, <1>3 DEF Moves, Rendered, Thread, Line
<1>6. InFrame(t)' BY <1>5 DEF InFrame
<1>7. \A b : Line(b)' = Line(b) BY <1>2 DEF Line
<1>8. Len(more) = Len(k.lines) + 1 /\ more[Len(k.lines) + 1] = e
      /\ \A i \in 1..Len(k.lines) : more[i] = k.lines[i]
  <2> HIDE DEF e, k
  <2> QED BY <1>4
<1>9. Len(k.lines) \in Nat BY <1>4
<1>10. \A j \in 1..Len(k.left) : k.left[j] = h \/ \E i \in 1..Len(rest) : rest[i] = k.left[j]
  BY <1>2, <1>4, HeadOrRest
<1> HIDE DEF k, h, rest, e, more
<1>11. ASSUME NEW b \in started, Ahead(t, b) \/ Ready(t, b)
       PROVE  (Ahead(t, b) \/ Ready(t, b))'
  <2>1. CASE Ready(t, b)
    <3>1. PICK i \in 1..Len(k.lines) : k.lines[i] = Line(b) BY <2>1 DEF Ready, k
    <3>2. i \in 1..Len(more) /\ more[i] = Line(b) BY <1>8, <1>9, <3>1
    <3> QED BY <1>5, <1>7, <3>2 DEF Ready
  <2>2. CASE Ahead(t, b)
    <3>1. PICK j \in 1..Len(k.left) : k.left[j] = b BY <2>2 DEF Ahead, k
    <3>2. CASE b = h
      <4>1. Len(k.lines) + 1 \in 1..Len(more) /\ more[Len(k.lines) + 1] = Line(b)
        BY <1>8, <1>9, <3>2 DEF e
      <4> QED BY <1>5, <1>7, <4>1 DEF Ready
    <3>3. CASE b # h
      <4>1. \E i \in 1..Len(rest) : rest[i] = b BY <1>10, <3>1, <3>3
      <4> QED BY <1>5, <4>1 DEF Ahead
    <3> QED BY <3>2, <3>3
  <2> QED BY <1>11, <2>1, <2>2
<1> QED BY <1>1, <1>2, <1>6, <1>11, FreshInFrame

\* A bar that has not started has no line.
LEMMA SkipsFresh ==
  ASSUME Typed, Fresh, NEW t \in Threads, Skips(t)
  PROVE  Fresh'
<1> DEFINE k == thread[t]
           h == Head(k.left)
           rest == Tail(k.left)
<1>0. Types BY DEF Typed
<1>1. Moves(t, [thread[t] EXCEPT !.left = Tail(@)]) BY <1>0, SkipsMoves
<1>2. /\ UNCHANGED <<started, overlay, screen, closed>>
      /\ k.at = "frame" /\ k.left # <<>> /\ InFrame(t) /\ h \notin started
  BY DEF Skips, barVars, termVars, InFrame
<1>3. k \in Thread BY <1>0 DEF Types, TypedThreads
<1>4. k.left \in Seq(Bars) BY <1>3 DEF Thread, Lefts
<1>5. thread'[t].at = "frame" /\ thread'[t].left = rest /\ thread'[t].lines = k.lines
  BY <1>1, <1>2, <1>3 DEF Moves, Thread
<1>6. InFrame(t)' BY <1>5 DEF InFrame
<1>7. \A b : Line(b)' = Line(b) BY <1>2 DEF Line
<1>8. \A j \in 1..Len(k.left) : k.left[j] = h \/ \E i \in 1..Len(rest) : rest[i] = k.left[j]
  BY <1>2, <1>4, HeadOrRest
<1> HIDE DEF k, h, rest
<1>9. ASSUME NEW b \in started, Ahead(t, b) \/ Ready(t, b)
      PROVE  (Ahead(t, b) \/ Ready(t, b))'
  <2>1. CASE Ready(t, b) BY <1>5, <1>7, <2>1 DEF Ready, k
  <2>2. CASE Ahead(t, b)
    <3>1. PICK j \in 1..Len(k.left) : k.left[j] = b BY <2>2 DEF Ahead, k
    <3>2. \E i \in 1..Len(rest) : rest[i] = b BY <1>2, <1>8, <3>1
    <3> QED BY <1>5, <3>2 DEF Ahead
  <2> QED BY <1>9, <2>1, <2>2
<1> QED BY <1>1, <1>2, <1>6, <1>9, FreshInFrame

LEMMA FreshStep ==
  ASSUME Typed, Fresh, [Next]_vars
  PROVE  Fresh'
<1>0. Types /\ AllPlaced /\ bars \in 0..MaxBars
  BY RoomBounds DEF Typed, Types, TypedBars
<1>1. ASSUME NEW t \in Callers, NEW op \in Ops, NEW b \in Bars \cup {0}, Call(t, op, b)
      PROVE  Fresh'
  <2> DEFINE r == [Resting EXCEPT !.op = op, !.bar = b,
                                  !.at = IF op \in BarOps THEN "bar" ELSE "display"]
  <2>1. Moves(t, r) BY <1>0, <1>1, CallMoves
  <2>2. t \in Threads BY DEF Threads
  <2>3. /\ thread[t].at = "rest"
        /\ UNCHANGED <<started, overlay, screen, closed>>
    BY <1>1 DEF Call, barVars, termVars
  <2>4. r.at \in {"bar", "display"} BY DEF Resting
  <2>5. thread'[t].at \in {"bar", "display"} BY <2>1, <2>4 DEF Moves
  <2> HIDE DEF r
  <2> QED BY <2>1, <2>2, <2>3, <2>5, FreshAside DEF InFrame, Comes
<1>2. ASSUME NEW t \in Threads, Locks(t) \/ Works(t)
      PROVE  Fresh'
  <2>0. thread[t] \in Thread BY <1>0 DEF Types, TypedThreads
  <2>1. CASE LocksBar(t)
    <3> DEFINE r == [thread[t] EXCEPT !.at = "body"]
    <3>1. Moves(t, r) BY <1>0, <2>1, LocksBarMoves
    <3>2. thread[t].at = "bar" /\ UNCHANGED <<started, overlay, screen, closed>>
      BY <2>1 DEF LocksBar, barVars, termVars
    <3>3. thread'[t].at = "body" BY <2>0, <3>1 DEF Moves, Thread
    <3> HIDE DEF r
    <3> QED BY <3>1, <3>2, <3>3, FreshAside DEF InFrame, Comes
  <2>2. CASE Adds(t)
    <3>1. Moves(t, Resting) BY <1>0, <2>2, AddsMoves
    <3>2. /\ thread[t].at = "display" /\ thread[t].op = "add"
          /\ UNCHANGED <<started, overlay, screen, closed>>
      BY <2>2 DEF Adds, termVars
    <3>3. thread'[t].at = "rest" BY <3>1 DEF Moves, Resting
    <3> QED BY <3>1, <3>2, <3>3, FreshAside DEF InFrame, Comes
  <2>3. CASE FindsClosed(t) BY <2>3 DEF FindsClosed, Fresh
  <2>4. CASE Enters(t) BY <2>4, EntersFresh
  <2>5. CASE Caps(t)
    <3> DEFINE n == bytes[Head(thread[t].left)]
               r == [thread[t] EXCEPT !.at = "line", !.real = n]
    <3>1. Moves(t, r) BY <1>0, <2>5, CapsMoves
    <3>2. thread[t].at = "frame" /\ UNCHANGED <<started, overlay, screen, closed>>
      BY <2>5 DEF Caps, termVars
    <3>3. r.at = "line" /\ r.left = thread[t].left /\ r.lines = thread[t].lines
      BY <2>0 DEF Thread
    <3>4. thread'[t] = r BY <3>1 DEF Moves
    <3> HIDE DEF r
    <3>5. \A b : (Ahead(t, b) => Ahead(t, b)') /\ (Ready(t, b) => Ready(t, b)')
      BY <3>2, <3>3, <3>4 DEF Ahead, Ready, Line
    <3>6. InFrame(t) /\ InFrame(t)' BY <3>2, <3>3, <3>4 DEF InFrame
    <3> QED BY <3>1, <3>2, <3>5, <3>6, FreshInFrame
  <2>6. CASE Starts(t) \/ Overlays(t) \/ Logs(t)
    <3> DEFINE r == [thread[t] EXCEPT !.at = "display"]
    <3>1. Moves(t, r) BY <1>0, <2>6, StartsMoves, OverlaysMoves, LogsMoves
    <3>2. thread[t].op \in {"start", "overlay", "barLog"}
      BY <2>6 DEF Starts, Overlays, Logs, Leaves
    <3>3. r.at = "display" /\ r.op = thread[t].op BY <2>0 DEF Thread
    <3>4. thread'[t] = r BY <3>1 DEF Moves
    <3> HIDE DEF r
    <3>5. Comes(t)' BY <3>2, <3>3, <3>4 DEF Comes
    <3>6. t # UI BY <1>0, <3>2 DEF AllPlaced, Placed
    <3>7. t \in Callers BY <3>6 DEF Threads
    <3> QED BY <3>5, <3>7, FreshComes
  <2>7. CASE Updates(t) \/ Joins(t)
    <3>1. Moves(t, Resting) BY <1>0, <2>7, UpdatesMoves, JoinsMoves
    <3>2. thread[t].at \in {"body", "join"} /\ UNCHANGED <<started, overlay, screen, closed>>
      BY <2>7 DEF Updates, Joins, Leaves, barVars, termVars
    <3>3. thread'[t].at = "rest" BY <3>1 DEF Moves, Resting
    <3> QED BY <3>1, <3>2, <3>3, FreshAside DEF InFrame, Comes
  <2>8. CASE Skips(t) BY <2>8, SkipsFresh
  <2>9. CASE Restores(t) BY <2>9, RestoresFresh
  <2>10. CASE Draws(t) BY <2>10, DrawsFresh
  <2> QED BY <1>2, <2>1, <2>2, <2>3, <2>4, <2>5, <2>6, <2>7, <2>8, <2>9, <2>10
          DEF Locks, Works
<1>3. CASE Wakes
  <2> DEFINE r == [thread[UI] EXCEPT !.at = IF closed THEN "ended" ELSE "display"]
  <2>1. Moves(UI, r) BY <1>0, <1>3, WakesMoves
  <2>2. UI \in Threads /\ UI \notin Callers
    BY ProgressAssumption DEF ProgressAssumption, Threads
  <2>3. thread[UI] \in Thread BY <1>0, <2>2 DEF Types, TypedThreads
  <2>4. thread[UI].at = "rest" /\ UNCHANGED <<started, overlay, screen, closed>>
    BY <1>3 DEF Wakes, barVars, termVars
  <2>5. thread'[UI].at \in {"ended", "display"} BY <2>1, <2>3 DEF Moves, Thread
  <2> HIDE DEF r
  <2> QED BY <2>1, <2>2, <2>4, <2>5, FreshAside DEF InFrame
<1>4. CASE UNCHANGED vars
  BY <1>4 DEF vars, barVars, termVars, Fresh, FreshBar, Comes, Ahead, Ready, OnScreen, Line,
     InFrame
<1> QED BY <1>1, <1>2, <1>3, <1>4 DEF Next, Finished

-------------------------------------------------------------------------------
\* Before anything is shown.
LEMMA ScreenStarts == Init => FramesRight /\ Screened /\ Fresh
<1> SUFFICES ASSUME Init PROVE FramesRight /\ Screened /\ Fresh OBVIOUS
<1>1. \A t \in Threads : thread[t] = Resting BY DEF Init
<1>2. FramesRight BY <1>1 DEF FramesRight, FrameRight, InFrame, Resting
<1>3. Len(screen) = 0 /\ printed = 0 /\ Len(logged) = 0 /\ logged \in Seq(Row) BY DEF Init
<1>4. Top = 0 BY <1>3 DEF Top
<1>5. Layout BY <1>3, <1>4 DEF Layout
<1>6. Messages
  <2> DEFINE place == [n \in 1..0 |-> n]
  <2>1. place \in [1..Len(logged) -> 1..Top] BY <1>3, <1>4
  <2>2. DOMAIN place = {} OBVIOUS
  <2> HIDE DEF place
  <2>3. Shows(place) BY <1>3, <2>2 DEF Shows
  <2> QED BY <1>3, <2>1, <2>3 DEF Messages
<1>7. Fresh BY DEF Init, Fresh
<1> QED BY <1>2, <1>5, <1>6, <1>7 DEF Screened

LEMMA AlwaysScreened == Spec => [](Typed /\ FramesRight /\ Screened /\ Fresh)
<1>1. Init => FramesRight /\ Screened /\ Fresh BY ScreenStarts
<1>2. Typed /\ FramesRight /\ Screened /\ Fresh /\ [Next]_vars
        => (FramesRight /\ Screened /\ Fresh)'
  BY FramesStep, ScreenedStep, FreshStep
<1> QED BY <1>1, <1>2, AlwaysTyped, PTL DEF Spec

\* No bar is twice on the screen.
LEMMA RowsAlone ==
  ASSUME Typed, Layout, NEW b \in Bars
  PROVE  Cardinality(Rows(b)) <= 1
<1>1. Len(screen) \in Nat BY TopFacts
<1>2. ASSUME NEW i \in Rows(b), NEW j \in Rows(b) PROVE i = j
  <2>1. /\ i \in 1..Len(screen) /\ j \in 1..Len(screen)
        /\ screen[i][1] = "bar" /\ screen[j][1] = "bar" /\ screen[i][2] = b /\ screen[j][2] = b
    BY DEF Rows
  <2>2. ~(b < b) BY DEF Bars
  <2>3. ~(i < j) /\ ~(j < i) BY <2>1, <2>2 DEF Layout
  <2> QED BY <1>1, <2>1, <2>3
<1>3. CASE Rows(b) = {} BY <1>3, FS_EmptySet
<1>4. CASE Rows(b) # {}
  <2>1. PICK i : i \in Rows(b) BY <1>4
  <2>2. Rows(b) = {i} BY <1>2, <2>1
  <2>3. Cardinality({i}) = 1 BY FS_Singleton
  <2> QED BY <2>2, <2>3
<1> QED BY <1>3, <1>4

\* Whichever threads draw, log and close at the same time, every message that was logged
\* stays on the screen in its order, no bar is on it twice, and when the calls have returned
\* every bar that has started is shown as it is.
THEOREM ScreenIsAlwaysRight == Spec => []ScreenIsRight
<1>1. ASSUME Typed, Screened, Fresh
      PROVE  ScreenIsRight
  <2>1. LogsSurvive
    <3>1. PICK place \in [1..Len(logged) -> 1..Top] : Shows(place)
      BY <1>1 DEF Screened, Messages
    <3>2. 1..Top \subseteq 1..Len(screen)
      <4>1. Top \in 0..Len(screen) /\ Len(screen) \in Nat BY <1>1, TopFacts
      <4> QED BY <4>1
    <3>3. place \in [1..Len(logged) -> 1..Len(screen)] BY <3>1, <3>2
    <3> QED BY <1>1, <3>1, <3>3, RowsAlone DEF LogsSurvive, Screened
  <2>2. NothingStale
    <3> SUFFICES ASSUME ~closed, \A t \in Callers : thread[t].at = "rest", NEW b \in started
                 PROVE  \E i \in Rows(b) : screen[i] = <<"bar", b, overlay[b]>>
      BY DEF NothingStale
    <3>1. FreshBar(b) BY <1>1 DEF Fresh
    <3>2. OnScreen(b) BY <3>1 DEF FreshBar, Comes, InFrame
    <3>3. PICK i \in 1..Len(screen) : screen[i] = <<"bar", b, overlay[b]>>
      BY <3>2 DEF OnScreen, Line
    <3>4. i \in Rows(b) BY <3>3 DEF Rows
    <3> QED BY <3>3, <3>4
  <2> QED BY <2>1, <2>2 DEF ScreenIsRight
<1> QED BY <1>1, AlwaysScreened, PTL
================================================================================
