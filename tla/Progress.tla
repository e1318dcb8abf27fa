------------------------------- MODULE Progress --------------------------------
(***************************************************************************)
(* The progress display on a terminal: MultiProgress and the bars it draws *)
(* (progress.py).                                                          *)
(*                                                                         *)
(* Callers on several threads (the event loop, the hashing thread, the     *)
(* user's) update their bars, set overlays, log and close; the display's   *)
(* own thread redraws all the time.  The display has a lock, and each bar  *)
(* has one, none of them reentrant.  Drawing takes the display's lock and, *)
(* inside it, each bar's in turn.  The terminal keeps what was written to  *)
(* it except where a frame is drawn over the last one.                     *)
(***************************************************************************)
EXTENDS Naturals, Sequences, FiniteSets

CONSTANTS
  Callers,    \* the threads that use the display
  Duties,     \* what each of them may call
  UI,         \* the display's own thread
  Nobody,     \* the holder of a free lock
  MaxBars,    \* bound: bars
  MaxCalls,   \* bound: calls of each caller, other than to add and start bars
  Total       \* total_bytes of a bar

ASSUME ProgressAssumption ==
  /\ IsFiniteSet(Callers) /\ UI \notin Callers /\ Nobody \notin Callers \cup {UI}
  /\ Duties \in [Callers -> SUBSET {"add", "start", "update", "overlay", "barLog", "log", "close"}]
  /\ MaxBars \in Nat /\ MaxCalls \in [Callers -> Nat] /\ Total \in Nat

Threads == Callers \cup {UI}
Bars == 1..MaxBars

BarOps == {"start", "update", "overlay", "barLog"}
Ops == {"add", "log", "close"} \cup BarOps

VARIABLES
  bars,       \* how many bars there are (_bars)
  started,    \* the bars that have started (has_started)
  bytes,      \* completed_bytes
  overlay,    \* the overlay of each bar: how many were set before it
  reported,   \* history: what a bar has been told
  display,    \* the holder of the display's lock
  bar,        \* the holder of each bar's lock
  closed,     \* _is_closed
  printed,    \* _lines_printed
  screen,     \* the rows of the terminal above the cursor
  logged,     \* history: the messages whose log() has begun to write
  thread,     \* what each thread is doing
  calls       \* how many of these calls it has made

barVars == <<bars, started, bytes, overlay, reported>>
lockVars == <<display, bar>>
termVars == <<closed, printed, screen, logged>>
vars == <<barVars, lockVars, termVars, thread, calls>>

\* A thread is at rest, waits for the lock of its bar or holds it, waits for the display,
\* or holds it and goes through the bars left to look at, holding the lock of the first one
\* while it renders its line.
Places == {"rest", "bar", "body", "display", "frame", "line", "join", "ended"}

Resting == [op |-> "none", bar |-> 0, at |-> "rest", left |-> <<>>, lines |-> <<>>, real |-> 0]

HoldsBar(t, b) ==
  \/ thread[t].at = "body" /\ thread[t].bar = b
  \/ thread[t].at = "line" /\ Head(thread[t].left) = b

Goes(t, place) == thread' = [thread EXCEPT ![t].at = place]

Init ==
  /\ bars = 0 /\ started = {}
  /\ bytes = [b \in Bars |-> 0] /\ overlay = [b \in Bars |-> 0] /\ reported = [b \in Bars |-> 0]
  /\ display = Nobody /\ bar = [b \in Bars |-> Nobody]
  /\ closed = FALSE /\ printed = 0 /\ screen = <<>> /\ logged = <<>>
  /\ thread = [t \in Threads |-> Resting]
  /\ calls = [t \in Callers |-> 0]

-------------------------------------------------------------------------------
\* The calls on a bar.

Call(t, op, b) ==
  /\ thread[t].at = "rest" /\ op \in Duties[t]
  /\ IF op \in {"add", "start"} THEN UNCHANGED calls
     ELSE calls[t] < MaxCalls[t] /\ calls' = [calls EXCEPT ![t] = @ + 1]
  /\ IF op \in BarOps THEN b \in 1..bars ELSE b = 0
  /\ op = "add" => bars + Cardinality({u \in Callers : thread[u].op = "add"}) < MaxBars
  /\ op = "start" => b \notin started /\ \A u \in Callers : thread[u].op = "start" => thread[u].bar # b
  /\ thread' = [thread EXCEPT ![t] = [Resting EXCEPT !.op = op, !.bar = b,
                                        !.at = IF op \in BarOps THEN "bar" ELSE "display"]]
  /\ UNCHANGED <<barVars, lockVars, termVars>>

LocksBar(t) ==
  /\ thread[t].at = "bar" /\ bar[thread[t].bar] = Nobody
  /\ bar' = [bar EXCEPT ![thread[t].bar] = t]
  /\ Goes(t, "body")
  /\ UNCHANGED <<barVars, display, termVars, calls>>

\* The holder of a bar's lock has done what it wanted there, releases it, and goes on.
Leaves(t, op, next) ==
  /\ thread[t].at = "body" /\ thread[t].op = op
  /\ bar' = [bar EXCEPT ![thread[t].bar] = Nobody]
  /\ thread' = [thread EXCEPT ![t] = IF next = "rest" THEN Resting ELSE [@ EXCEPT !.at = next]]
  /\ UNCHANGED <<bars, display, termVars, calls>>

\* start(); then, as after every change of the bar's looks, all bars are drawn.
Starts(t) ==
  LET b == thread[t].bar
  IN  /\ Leaves(t, "start", "display")
      /\ started' = started \cup {b}
      /\ bytes' = [bytes EXCEPT ![b] = 0] /\ reported' = [reported EXCEPT ![b] = 0]
      /\ UNCHANGED overlay

\* update(), update_hashed()
Updates(t) ==
  LET b == thread[t].bar
  IN  /\ Leaves(t, "update", "rest")
      /\ bytes' = [bytes EXCEPT ![b] = @ + 1] /\ reported' = [reported EXCEPT ![b] = @ + 1]
      /\ UNCHANGED <<started, overlay>>

\* Slip: nothing is drawn.
OverlaysOnly(t) ==
  /\ Leaves(t, "overlay", "rest")
  /\ overlay' = [overlay EXCEPT ![thread[t].bar] = @ + 1]
  /\ UNCHANGED <<started, bytes, reported>>

\* set_overlay(), set_throttled(), and close() of a bar.
Overlays(t) ==
  /\ Leaves(t, "overlay", "display")
  /\ overlay' = [overlay EXCEPT ![thread[t].bar] = @ + 1]
  /\ UNCHANGED <<started, bytes, reported>>

\* Slip: the callback is called with the lock of the bar held.
LogsInside(t) ==
  /\ thread[t].at = "body" /\ thread[t].op = "barLog"
  /\ Goes(t, "display")
  /\ UNCHANGED <<barVars, lockVars, termVars, calls>>

\* log() of a bar takes the callback under the lock and calls it outside.
Logs(t) == Leaves(t, "barLog", "display") /\ UNCHANGED <<started, bytes, overlay, reported>>

-------------------------------------------------------------------------------
\* The display.

IsLog(t) == thread[t].op \in {"log", "barLog"}
Message(t) == <<"message", t, calls[t]>>

\* add_bar()
Adds(t) ==
  /\ thread[t].at = "display" /\ thread[t].op = "add" /\ display = Nobody
  /\ bars' = bars + 1
  /\ thread' = [thread EXCEPT ![t] = Resting]
  /\ UNCHANGED <<started, bytes, overlay, reported, lockVars, termVars, calls>>

\* After close() nothing is drawn any more, a message is written as it is.
FindsClosed(t) ==
  /\ thread[t].at = "display" /\ thread[t].op # "add" /\ display = Nobody
  /\ closed
  /\ screen' = IF IsLog(t) THEN Append(screen, Message(t)) ELSE screen
  /\ logged' = IF IsLog(t) THEN Append(logged, Message(t)) ELSE logged
  /\ thread' = [thread EXCEPT ![t] = Resting]
  /\ UNCHANGED <<barVars, lockVars, closed, printed, calls>>

\* _render(force=True), close(), log()
Enters(t) ==
  /\ thread[t].at = "display" /\ thread[t].op # "add" /\ display = Nobody
  /\ ~closed
  /\ display' = t
  /\ closed' = (thread[t].op = "close")
  /\ thread' = [thread EXCEPT ![t].at = "frame", ![t].left = [i \in 1..bars |-> i]]
  /\ UNCHANGED <<barVars, bar, printed, screen, logged, calls>>

\* has_started is read without the lock of the bar.
Skips(t) ==
  /\ thread[t].at = "frame" /\ thread[t].left # <<>>
  /\ Head(thread[t].left) \notin started
  /\ thread' = [thread EXCEPT ![t].left = Tail(@)]
  /\ UNCHANGED <<barVars, lockVars, termVars, calls>>

\* render_line(): the bytes are capped while the line is formatted.
Caps(t) ==
  /\ thread[t].at = "frame" /\ thread[t].left # <<>>
  /\ LET b == Head(thread[t].left)
     IN  /\ b \in started /\ bar[b] = Nobody
         /\ bar' = [bar EXCEPT ![b] = t]
         /\ thread' = [thread EXCEPT ![t].at = "line", ![t].real = bytes[b]]
         /\ bytes' = [bytes EXCEPT ![b] = IF @ > Total THEN Total ELSE @]
  /\ UNCHANGED <<bars, started, overlay, reported, display, termVars, calls>>

\* Slip: the bytes stay capped.
RestoresNot(t) ==
  /\ thread[t].at = "line"
  /\ LET b == Head(thread[t].left)
     IN  /\ bar' = [bar EXCEPT ![b] = Nobody]
         /\ thread' = [thread EXCEPT ![t].at = "frame", ![t].left = Tail(@),
                         ![t].lines = Append(@, <<"bar", b, overlay[b]>>)]
  /\ UNCHANGED <<barVars, display, termVars, calls>>

Restores(t) ==
  /\ thread[t].at = "line"
  /\ LET b == Head(thread[t].left)
     IN  /\ bar' = [bar EXCEPT ![b] = Nobody]
         /\ bytes' = [bytes EXCEPT ![b] = thread[t].real]
         /\ thread' = [thread EXCEPT ![t].at = "frame", ![t].left = Tail(@),
                         ![t].lines = Append(@, <<"bar", b, overlay[b]>>)]
  /\ UNCHANGED <<bars, started, overlay, reported, display, termVars, calls>>

\* Slip: a message is written below the bars.
AboveLogsBelow(t) == IF IsLog(t) THEN Append(screen, Message(t))
                     ELSE SubSeq(screen, 1, Len(screen) - printed)

\* What stays on the screen when the last frame is drawn over: a message comes above the
\* bars (_clear_lines).
Above(t) ==
  LET kept == SubSeq(screen, 1, Len(screen) - printed)
  IN  IF IsLog(t) THEN Append(kept, Message(t)) ELSE kept

\* _draw_lines(), and the lock is released; the last frame is left for good.
Draws(t) ==
  /\ thread[t].at = "frame" /\ thread[t].left = <<>>
  /\ screen' = Above(t) \o thread[t].lines
  /\ printed' = IF closed THEN 0 ELSE Len(thread[t].lines)
  /\ logged' = IF IsLog(t) THEN Append(logged, Message(t)) ELSE logged
  /\ display' = Nobody
  /\ thread' = [thread EXCEPT ![t] =
                  IF @.op = "close" THEN [@ EXCEPT !.at = "join", !.lines = <<>>]
                  ELSE Resting]
  /\ UNCHANGED <<barVars, bar, closed, calls>>

\* close() waits for the display's thread, a second at most.
Joins(t) ==
  /\ thread[t].at = "join"
  /\ thread' = [thread EXCEPT ![t] = Resting]
  /\ UNCHANGED <<barVars, lockVars, termVars, calls>>

\* _ui_loop(): ten frames in a second.
Wakes ==
  /\ thread[UI].at = "rest" /\ display = Nobody
  /\ Goes(UI, IF closed THEN "ended" ELSE "display")
  /\ UNCHANGED <<barVars, lockVars, termVars, calls>>

\* What waits for a lock, and what does not.
Locks(t) == LocksBar(t) \/ Adds(t) \/ FindsClosed(t) \/ Enters(t) \/ Caps(t)
Works(t) == \/ Starts(t) \/ Updates(t) \/ Overlays(t) \/ Logs(t)
            \/ Skips(t) \/ Restores(t) \/ Draws(t) \/ Joins(t)

\* Nobody has to call again.
Finished ==
  /\ thread[UI].at = "ended" /\ \A t \in Callers : thread[t].at = "rest"
  /\ UNCHANGED vars

Next ==
  \/ \E t \in Callers, op \in Ops, b \in Bars \cup {0} : Call(t, op, b)
  \/ \E t \in Threads : Locks(t) \/ Works(t)
  \/ Wakes
  \/ Finished

Spec == Init /\ [][Next]_vars

\* Threads run.  A lock that is free again and again is got one day: the display's thread
\* sleeps between two frames, and nobody holds a lock while he waits for time to pass.
Fairness == \A t \in Threads : SF_vars(Locks(t)) /\ WF_vars(Works(t))

FairSpec == Spec /\ Fairness

-------------------------------------------------------------------------------
\* Every variable keeps to its type, and a lock is held by whoever is where it is held.
TypeOK ==
  /\ bars \in 0..MaxBars /\ started \subseteq 1..bars
  /\ bytes \in [Bars -> Nat] /\ overlay \in [Bars -> Nat] /\ reported \in [Bars -> Nat]
  /\ display \in Threads \cup {Nobody} /\ bar \in [Bars -> Threads \cup {Nobody}]
  /\ closed \in BOOLEAN /\ printed \in 0..Len(screen)
  /\ \A t \in Threads :
       /\ thread[t].at \in Places /\ thread[t].op \in Ops \cup {"none"}
       /\ thread[t].at \in {"frame", "line"} <=> display = t
       /\ \A b \in Bars : bar[b] = t <=> HoldsBar(t, b)
  /\ \A t \in Callers : calls[t] \in 0..MaxCalls[t]

Rows(b) == {i \in 1..Len(screen) : screen[i][1] = "bar" /\ screen[i][2] = b}

\* place[n] is the row of the n-th message.
Shows(place) ==
  /\ \A m, n \in DOMAIN place : m < n => place[m] < place[n]
  /\ \A n \in DOMAIN place : screen[place[n]] = logged[n]
  /\ \A i \in 1..Len(screen) : screen[i][1] = "message" => \E n \in DOMAIN place : place[n] = i

\* Every message stays, in its order, and a bar is nowhere twice, also after close().
LogsSurvive ==
  /\ \E place \in [1..Len(logged) -> 1..Len(screen)] : Shows(place)
  /\ \A b \in Bars : Cardinality(Rows(b)) <= 1

\* When the calls have returned every bar is shown as it is.
NothingStale ==
  ~closed /\ (\A t \in Callers : thread[t].at = "rest") =>
    \A b \in started : \E i \in Rows(b) : screen[i] = <<"bar", b, overlay[b]>>

\* The screen is right, whichever threads draw and log at the same time (log, _draw_lines,
\* _clear_lines): no message is drawn over, no old frame is left behind, and none that
\* another thread has drawn meanwhile hides what a bar is told to show (_render).
ScreenIsRight == LogsSurvive /\ NothingStale

\* Nothing that is reported while a line is formatted is lost (render_line).
NoUpdateIsLost == \A b \in Bars : bar[b] = Nobody => bytes[b] = reported[b]

\* Every call returns: the two levels of locks make no deadlock (log: "to prevent a
\* lock-order inversion deadlock", progress.py:630).
CallsReturn == \A t \in Callers : thread[t].at # "rest" ~> thread[t].at = "rest"
================================================================================
