-------------------------- MODULE ProgressReporter --------------------------
(***************************************************************************)
(* volt::ProgressReporter (include/volt/core/progress.h): percentage lines *)
(* for a long loop whose body may run on several threads.                  *)
(*                                                                         *)
(* Every atomic access of advance(), update() and report() is one step.    *)
(* All of them are memory_order_relaxed, so a plain load may return any    *)
(* value of the variable's modification order that is not older than what  *)
(* the thread has already seen, while a read-modify-write acts on the last *)
(* one.  marks and lastLines are those modification orders; viewMark and   *)
(* viewLine are the positions each thread has seen.                        *)
(***************************************************************************)
EXTENDS Integers, Sequences

CONSTANTS Threads,      \* callers of one reporter
          Total,        \* total_
          StepPercent,  \* stepPercent_, after the clamp
          MinInterval,  \* minInterval_, in clock ticks
          Counts,       \* the chunk sizes the loop bodies pass to advance()
          Serial,       \* TRUE: one thread, calling update() as well
          MaxDone,      \* bound: the loop hands out at most this much work
          MaxTime,      \* bound: the clock stops here
          Never,        \* kNever
          Relaxed       \* FALSE: loads as on a sequentially consistent machine

ASSUME TotalAssumption    == Total \in Nat
ASSUME StepAssumption     == StepPercent \in 1..50
ASSUME IntervalAssumption == MinInterval \in Nat
ASSUME CountsAssumption   == Counts \subseteq Nat
ASSUME BoundsAssumption   == MaxDone \in Nat /\ MaxTime \in Nat
ASSUME NeverAssumption    == Never \in Nat /\ Never > MaxDone
ASSUME SerialAssumption   == Serial => \A s, t \in Threads : s = t
ASSUME FlagsAssumption    == Serial \in BOOLEAN /\ Relaxed \in BOOLEAN

VARIABLES done,       \* done_
          marks,      \* modification order of nextMark_
          lastLines,  \* modification order of lastLine_
          clock,      \* steady_clock, zero when the reporter was constructed
          pc,         \* where each thread is
          mine,       \* report()'s parameter: the count this call reached
          mark,       \* report()'s local mark
          now,        \* report()'s local now
          viewMark, viewLine,
          lines       \* the log lines printed: how much was done, read when

locals == <<mine, mark, now>>
views  == <<viewMark, viewLine>>
vars   == <<done, marks, lastLines, clock, pc, locals, views, lines>>

nextMark == marks[Len(marks)]
lastLine == lastLines[Len(lastLines)]

\* Which step of the work a count sits in, and the count at which the next begins.
StepOf(d) == ((d * 100) \div Total) \div StepPercent

\* mutant: the mark of the step that d sits in, not of the one after
MarkAfterSameStep(d) ==
  IF Total = 0 THEN Never
  ELSE LET percent == StepOf(d) * StepPercent
       IN IF percent >= 100 THEN Never ELSE (Total * percent + 99) \div 100

MarkAfter(d) ==
  IF Total = 0 THEN Never
  ELSE LET nextPercent == (StepOf(d) + 1) * StepPercent
       IN IF nextPercent >= 100 THEN Never ELSE (Total * nextPercent + 99) \div 100

\* The positions of a modification order that a relaxed load may return.
Loadable(view, order) == IF Relaxed THEN view..Len(order) ELSE {Len(order)}

Locations == {"idle", "check", "load", "cas", "clock", "gate", "store", "log"}

Goto(t, from, to) == pc[t] = from /\ pc' = [pc EXCEPT ![t] = to]

Init ==
  /\ done = 0
  /\ marks = <<MarkAfter(0)>>
  /\ lastLines = <<0>>
  /\ clock = 0
  /\ pc = [t \in Threads |-> "idle"]
  /\ mine = [t \in Threads |-> 0]
  /\ mark = [t \in Threads |-> 0]
  /\ now = [t \in Threads |-> 0]
  /\ viewMark = [t \in Threads |-> 1]
  /\ viewLine = [t \in Threads |-> 1]
  /\ lines = <<>>

-----------------------------------------------------------------------------
(* advance() and update() *)

\* mutant: takes fetch_add's result for the new value plus a count
AdvanceCountTwice(t) ==
  /\ Goto(t, "idle", "check")
  /\ \E count \in Counts :
       /\ done + count <= MaxDone
       /\ done' = done + count
       /\ mine' = [mine EXCEPT ![t] = done' + count]
  /\ UNCHANGED <<marks, lastLines, clock, mark, now, views, lines>>

\* done_.fetch_add(count) + count
Advance(t) ==
  /\ Goto(t, "idle", "check")
  /\ \E count \in Counts :
       /\ done + count <= MaxDone
       /\ done' = done + count
       /\ mine' = [mine EXCEPT ![t] = done + count]
  /\ UNCHANGED <<marks, lastLines, clock, mark, now, views, lines>>

\* done_.store(done), from a serial loop whose counts only grow
Update(t) ==
  /\ Serial
  /\ Goto(t, "idle", "check")
  /\ \E d \in (done + 1)..MaxDone :
       /\ done' = d
       /\ mine' = [mine EXCEPT ![t] = d]
  /\ UNCHANGED <<marks, lastLines, clock, mark, now, views, lines>>

\* if (done >= nextMark_.load()) report(done)
CheckMark(t) ==
  /\ \E i \in Loadable(viewMark[t], marks) :
       /\ viewMark' = [viewMark EXCEPT ![t] = i]
       /\ Goto(t, "check", IF mine[t] >= marks[i] THEN "load" ELSE "idle")
  /\ UNCHANGED <<done, marks, lastLines, clock, locals, viewLine, lines>>

-----------------------------------------------------------------------------
(* report() *)

\* mark = nextMark_.load(), and the early return when done < mark
LoadMark(t) ==
  /\ \E i \in Loadable(viewMark[t], marks) :
       /\ viewMark' = [viewMark EXCEPT ![t] = i]
       /\ mark' = [mark EXCEPT ![t] = marks[i]]
       /\ Goto(t, "load", IF mine[t] < marks[i] THEN "idle" ELSE "cas")
  /\ UNCHANGED <<done, marks, lastLines, clock, mine, now, viewLine, lines>>

\* mutant: a plain store in place of the compare-exchange
ClaimMarkStore(t) ==
  /\ Goto(t, "cas", IF mine[t] >= Total THEN "idle" ELSE "clock")
  /\ marks' = Append(marks, MarkAfter(mine[t]))
  /\ viewMark' = [viewMark EXCEPT ![t] = Len(marks')]
  /\ UNCHANGED <<done, lastLines, clock, locals, viewLine, lines>>

\* mutant: no return at done >= total_, so the finished loop prints a line too
ClaimMarkFinalLine(t) ==
  /\ Goto(t, "cas", "clock")
  /\ mark[t] = nextMark
  /\ marks' = Append(marks, MarkAfter(mine[t]))
  /\ viewMark' = [viewMark EXCEPT ![t] = Len(marks')]
  /\ UNCHANGED <<done, lastLines, clock, locals, viewLine, lines>>

\* compare_exchange_strong succeeds; the finished loop prints nothing
ClaimMark(t) ==
  /\ Goto(t, "cas", IF mine[t] >= Total THEN "idle" ELSE "clock")
  /\ mark[t] = nextMark
  /\ marks' = Append(marks, MarkAfter(mine[t]))
  /\ viewMark' = [viewMark EXCEPT ![t] = Len(marks')]
  /\ UNCHANGED <<done, lastLines, clock, locals, viewLine, lines>>

\* mutant: the loser tries again with the mark it has
LoseMarkSpin(t) ==
  /\ pc[t] = "cas"
  /\ mark[t] # nextMark
  /\ UNCHANGED vars

\* compare_exchange_strong fails: another thread moved the mark
LoseMark(t) ==
  /\ Goto(t, "cas", "idle")
  /\ mark[t] # nextMark
  /\ viewMark' = [viewMark EXCEPT ![t] = Len(marks)]
  /\ UNCHANGED <<done, marks, lastLines, clock, locals, viewLine, lines>>

\* now = Clock::now()
ReadClock(t) ==
  /\ Goto(t, "clock", "gate")
  /\ now' = [now EXCEPT ![t] = clock]
  /\ UNCHANGED <<done, marks, lastLines, clock, mine, mark, views, lines>>

\* if (now - lastLine_.load() < minInterval_) return
CheckInterval(t) ==
  /\ \E i \in Loadable(viewLine[t], lastLines) :
       /\ viewLine' = [viewLine EXCEPT ![t] = i]
       /\ Goto(t, "gate", IF now[t] - lastLines[i] < MinInterval THEN "idle" ELSE "store")
  /\ UNCHANGED <<done, marks, lastLines, clock, locals, viewMark, lines>>

\* mutant: the time of the line is not kept
StoreLineForgotten(t) ==
  /\ Goto(t, "store", "log")
  /\ UNCHANGED <<done, marks, lastLines, clock, locals, views, lines>>

\* lastLine_.store(now)
StoreLine(t) ==
  /\ Goto(t, "store", "log")
  /\ lastLines' = Append(lastLines, now[t])
  /\ viewLine' = [viewLine EXCEPT ![t] = Len(lastLines')]
  /\ UNCHANGED <<done, marks, clock, locals, viewMark, lines>>

\* spdlog::info
LogLine(t) ==
  /\ Goto(t, "log", "idle")
  /\ lines' = Append(lines, [done |-> mine[t], at |-> now[t]])
  /\ UNCHANGED <<done, marks, lastLines, clock, locals, views>>

Tick ==
  /\ clock < MaxTime
  /\ clock' = clock + 1
  /\ UNCHANGED <<done, marks, lastLines, pc, locals, views, lines>>

\* What a thread does inside a call once it has made it.
Continue(t) ==
  \/ CheckMark(t) \/ LoadMark(t) \/ ClaimMark(t) \/ LoseMark(t)
  \/ ReadClock(t) \/ CheckInterval(t) \/ StoreLine(t) \/ LogLine(t)

Next ==
  \/ \E t \in Threads : Advance(t) \/ Update(t) \/ Continue(t)
  \/ Tick

Spec == Init /\ [][Next]_vars

\* A running thread is scheduled; whether it makes another call is the loop's business.
FairSpec == Spec /\ \A t \in Threads : WF_vars(Continue(t))

-----------------------------------------------------------------------------
(* Properties *)

\* Types, and that the views point into the modification orders.
CountersOK ==
  /\ done \in 0..MaxDone /\ clock \in 0..MaxTime
  /\ mine \in [Threads -> 0..MaxDone]
  /\ mark \in [Threads -> Nat] /\ now \in [Threads -> Nat]

MarksOK ==
  /\ marks \in Seq(Nat) /\ Len(marks) >= 1
  /\ viewMark \in [Threads -> Nat]
  /\ \A t \in Threads : viewMark[t] \in 1..Len(marks)

LastLinesOK ==
  /\ lastLines \in Seq(Int) /\ Len(lastLines) >= 1
  /\ viewLine \in [Threads -> Nat]
  /\ \A t \in Threads : viewLine[t] \in 1..Len(lastLines)

TypeOK ==
  /\ pc \in [Threads -> Locations]
  /\ lines \in Seq([done : 0..MaxDone, at : Nat])
  /\ CountersOK /\ MarksOK /\ LastLinesOK

\* "At most one line per stepPercent of the work": however the threads race for a mark
\* and however stale a relaxed load is, two printed lines sit in different steps.
OneLinePerStep ==
  \A i, j \in 1..Len(lines) : i # j => StepOf(lines[i].done) # StepOf(lines[j].done)

\* "A loop that ends within minInterval prints nothing", and the 100% line is never
\* printed by the reporter: report() returns at done >= total and before minInterval.
NoEarlyNoFinalLine ==
  \A i \in 1..Len(lines) : lines[i].at >= MinInterval /\ lines[i].done < Total

\* Why: a thread between its compare-exchange and its log line holds a step of its own,
\* different from every other holder's and from every printed one, and the mark has
\* passed all of them; whoever passes the interval check reads a clock past minInterval.
Holds(t)   == pc[t] \in {"clock", "gate", "store", "log"}
Claimed(d) == d < Total /\ MarkAfter(d) <= nextMark

ClaimInv ==
  /\ \A t \in Threads :
       /\ Holds(t) => Claimed(mine[t])
       /\ pc[t] = "cas" => mark[t] <= mine[t]
       /\ pc[t] \in {"store", "log"} => now[t] >= MinInterval
  /\ \A i \in 1..Len(lines) : Claimed(lines[i].done)
  /\ \A i \in 1..Len(lastLines) : lastLines[i] >= 0
  /\ \A s, t \in Threads : Holds(s) /\ Holds(t) /\ s # t => StepOf(mine[s]) # StepOf(mine[t])
  /\ \A t \in Threads, i \in 1..Len(lines) :
       Holds(t) => StepOf(mine[t]) # StepOf(lines[i].done)

\* "At most one line per minInterval of wall time": any two printed lines read clocks
\* minInterval apart.  report() keeps it for one thread only.
Paced ==
  \A i, j \in 1..Len(lines) : i < j => lines[j].at - lines[i].at >= MinInterval

\* A serial loop never leaves a step unclaimed: between calls the mark is ahead of the
\* work, so each step is offered for printing at the first count inside it.
SerialMarkAhead ==
  (\A t \in Threads : pc[t] = "idle") => done < nextMark

\* nextMark_ only moves forward, and past the count of the thread that moves it, even
\* when that thread works from a stale count while others have passed it.
MarkMovesForward ==
  [][marks' # marks => nextMark' > nextMark]_vars

\* advance() never waits for another thread: a call that was made returns.
CallsReturn ==
  \A t \in Threads : pc[t] # "idle" ~> pc[t] = "idle"
=============================================================================
