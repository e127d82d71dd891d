----------------------- MODULE ProgressReporterProofs -----------------------
(***************************************************************************)
(* What holds of ProgressReporter for every number of threads, every       *)
(* total, step and interval, and every schedule.                           *)
(***************************************************************************)
EXTENDS ProgressReporter, TLAPS

-----------------------------------------------------------------------------
(* The arithmetic of markAfter() *)

\* What integer division promises.
LEMMA Division ==
  ASSUME NEW a \in Nat, NEW b \in Nat, b > 0
  PROVE  /\ a \div b \in Nat
         /\ b * (a \div b) <= a
         /\ a < b * (a \div b) + b
  BY Z3

LEMMA Scale ==
  ASSUME NEW c \in Nat, NEW x \in Nat, NEW y \in Nat, x <= y
  PROVE  c * x <= c * y
  BY Z3

\* The step of a count, times the step width, is at most its percentage.
LEMMA StepOfBounds ==
  ASSUME NEW d \in Nat, Total > 0
  PROVE  /\ StepOf(d) \in Nat
         /\ (d * 100) \div Total \in Nat
         /\ StepPercent * StepOf(d) <= (d * 100) \div Total
         /\ (d * 100) \div Total < StepPercent * StepOf(d) + StepPercent
  <1>1. d * 100 \in Nat /\ Total \in Nat /\ StepPercent \in Nat /\ StepPercent > 0
    BY TotalAssumption, StepAssumption
  <1>2. (d * 100) \div Total \in Nat
    BY <1>1, Division
  <1>3. QED
    BY <1>1, <1>2, Division DEF StepOf

\* markAfter() is a count (or kNever) beyond the one it is given.
LEMMA MarkAfterAhead ==
  ASSUME NEW d \in 0..MaxDone
  PROVE  MarkAfter(d) \in Nat /\ MarkAfter(d) > d
  <1>1. CASE Total = 0
    BY <1>1, NeverAssumption, BoundsAssumption DEF MarkAfter
  <1>2. CASE Total > 0
    <2> DEFINE percent == (StepOf(d) + 1) * StepPercent
               items   == Total * percent
    <2>1. d \in Nat /\ Total \in Nat /\ StepPercent \in Nat
      BY BoundsAssumption, TotalAssumption, StepAssumption
    <2>2. /\ StepOf(d) \in Nat /\ (d * 100) \div Total \in Nat
          /\ (d * 100) \div Total < StepPercent * StepOf(d) + StepPercent
      BY <1>2, <2>1, StepOfBounds
    <2>3. percent \in Nat /\ (d * 100) \div Total + 1 <= percent
      BY <2>1, <2>2, Z3
    <2>4. Total * ((d * 100) \div Total + 1) <= items /\ items \in Nat
      <3> HIDE DEF percent
      <3> QED BY <2>1, <2>2, <2>3, Scale
    <2>5. d * 100 < Total * ((d * 100) \div Total) + Total
      BY <1>2, <2>1, Division
    <2>6. d * 100 < items
      <3> HIDE DEF items
      <3> QED BY <2>1, <2>2, <2>4, <2>5, Z3
    <2>7. (items + 99) \div 100 \in Nat /\ (items + 99) \div 100 > d
      <3> HIDE DEF items
      <3> QED BY <2>1, <2>4, <2>6, Z3
    <2>8. QED
      BY <1>2, <2>1, <2>7, NeverAssumption, BoundsAssumption DEF MarkAfter
  <1>3. QED
    BY <1>1, <1>2, TotalAssumption

\* A count that has reached the mark of another one sits in a later step.
LEMMA ReachedMarkLaterStep ==
  ASSUME NEW d \in 0..MaxDone, NEW e \in 0..MaxDone, MarkAfter(d) <= e
  PROVE  StepOf(d) < StepOf(e)
  <1> DEFINE percent == (StepOf(d) + 1) * StepPercent
             items   == Total * percent
  <1>1. /\ d \in Nat /\ e \in Nat /\ Total \in Nat
        /\ StepPercent \in Nat /\ StepPercent > 0
    BY BoundsAssumption, TotalAssumption, StepAssumption
  <1>2. MarkAfter(d) # Never
    BY <1>1, NeverAssumption, BoundsAssumption
  <1>3. Total > 0 /\ MarkAfter(d) = (items + 99) \div 100
    BY <1>1, <1>2 DEF MarkAfter
  <1>4. /\ StepOf(d) \in Nat /\ StepOf(e) \in Nat /\ (e * 100) \div Total \in Nat
        /\ (e * 100) \div Total < StepPercent * StepOf(e) + StepPercent
    BY <1>1, <1>3, StepOfBounds
  <1>5. percent \in Nat
    BY <1>1, <1>4, Z3
  <1>6. items \in Nat
    <2> HIDE DEF percent
    <2> QED BY <1>1, <1>5, Z3
  <1>7. items <= e * 100
    <2> HIDE DEF items
    <2> QED BY <1>1, <1>3, <1>6, Z3
  <1>8. e * 100 < Total * ((e * 100) \div Total) + Total
    BY <1>1, <1>3, Division
  <1>9. percent <= (e * 100) \div Total
    <2>1. SUFFICES ASSUME (e * 100) \div Total + 1 <= percent PROVE FALSE
      <3> HIDE DEF percent
      <3> QED BY <1>4, <1>5, Z3
    <2>2. Total * ((e * 100) \div Total + 1) <= items
      <3> HIDE DEF percent
      <3> QED BY <1>1, <1>4, <1>5, <2>1, Scale
    <2>3. QED
      <3> HIDE DEF items
      <3> QED BY <1>1, <1>4, <1>6, <1>7, <1>8, <2>2, Z3
  <1>10. StepPercent * (StepOf(d) + 1) < StepPercent * (StepOf(e) + 1)
    BY <1>1, <1>4, <1>9, Z3
  <1>11. QED
    <2>1. SUFFICES ASSUME StepOf(e) + 1 <= StepOf(d) + 1 PROVE FALSE
      BY <1>4
    <2>2. StepPercent * (StepOf(e) + 1) <= StepPercent * (StepOf(d) + 1)
      BY <1>1, <1>4, <2>1, Scale
    <2>3. QED
      BY <1>1, <1>4, <1>10, <2>2, Z3

-----------------------------------------------------------------------------
(* Type correctness *)

\* A load returns a position of the modification order.
LEMMA LoadableInRange ==
  ASSUME TypeOK, NEW t \in Threads
  PROVE  /\ Len(marks) \in Nat /\ Len(lastLines) \in Nat
         /\ Loadable(viewMark[t], marks) \subseteq 1..Len(marks)
         /\ Loadable(viewLine[t], lastLines) \subseteq 1..Len(lastLines)
  <1>1. /\ Len(marks) \in Nat /\ Len(marks) >= 1 /\ viewMark[t] \in 1..Len(marks)
        /\ Len(lastLines) \in Nat /\ Len(lastLines) >= 1 /\ viewLine[t] \in 1..Len(lastLines)
    BY DEF TypeOK, MarksOK, LastLinesOK
  <1>2. QED
    BY <1>1 DEF Loadable

LEMMA InitType == Init => TypeOK
  <1> SUFFICES ASSUME Init PROVE TypeOK
    OBVIOUS
  <1>1. 0 \in 0..MaxDone /\ 0 \in 0..MaxTime
    BY BoundsAssumption
  <1>2. marks \in Seq(Nat) /\ Len(marks) = 1
    BY <1>1, MarkAfterAhead DEF Init
  <1>3. MarksOK /\ LastLinesOK /\ CountersOK
    BY <1>1, <1>2 DEF Init, MarksOK, LastLinesOK, CountersOK
  <1>4. QED
    BY <1>3 DEF Init, TypeOK, Locations

LEMMA NextType == TypeOK /\ [Next]_vars => TypeOK'
  <1> SUFFICES ASSUME TypeOK, [Next]_vars PROVE TypeOK'
    OBVIOUS
  <1>a. UNCHANGED <<done, clock, mine, mark, now>> => CountersOK'
    BY DEF TypeOK, CountersOK
  <1>b. UNCHANGED <<marks, viewMark>> => MarksOK'
    BY DEF TypeOK, MarksOK
  <1>c. UNCHANGED <<lastLines, viewLine>> => LastLinesOK'
    BY DEF TypeOK, LastLinesOK
  <1>d. ASSUME NEW t \in Threads, NEW from, NEW to \in Locations, Goto(t, from, to)
        PROVE  pc' \in [Threads -> Locations]
    BY <1>d DEF Goto, TypeOK
  <1>1. ASSUME NEW t \in Threads, Advance(t) PROVE TypeOK'
    <2>1. CountersOK'
      BY <1>1, CountsAssumption, BoundsAssumption DEF Advance, TypeOK, CountersOK
    <2>2. QED
      BY <1>1, <1>b, <1>c, <1>d, <2>1 DEF Advance, TypeOK, views, Locations
  <1>2. ASSUME NEW t \in Threads, Update(t) PROVE TypeOK'
    <2>1. CountersOK'
      BY <1>2, BoundsAssumption DEF Update, TypeOK, CountersOK
    <2>2. QED
      BY <1>2, <1>b, <1>c, <1>d, <2>1 DEF Update, TypeOK, views, Locations
  <1>3. ASSUME NEW t \in Threads, CheckMark(t) PROVE TypeOK'
    <2>1. PICK i \in 1..Len(marks) : viewMark' = [viewMark EXCEPT ![t] = i]
      BY <1>3, LoadableInRange DEF CheckMark
    <2>a. MarksOK'
      BY <1>3, <2>1 DEF CheckMark, TypeOK, MarksOK
    <2>2. pc' \in [Threads -> Locations]
      BY <1>3, <1>d DEF CheckMark, Locations
    <2>3. QED
      BY <1>3, <1>a, <1>c, <2>a, <2>2 DEF CheckMark, TypeOK, locals
  <1>4. ASSUME NEW t \in Threads, LoadMark(t) PROVE TypeOK'
    <2>1. PICK i \in 1..Len(marks) :
            /\ viewMark' = [viewMark EXCEPT ![t] = i]
            /\ mark' = [mark EXCEPT ![t] = marks[i]]
            /\ Goto(t, "load", IF mine[t] < marks[i] THEN "idle" ELSE "cas")
      BY <1>4, LoadableInRange DEF LoadMark
    <2>a. marks[i] \in Nat
      BY DEF TypeOK, MarksOK
    <2>2. MarksOK' /\ CountersOK'
      BY <1>4, <2>1, <2>a DEF LoadMark, TypeOK, MarksOK, CountersOK
    <2>3. pc' \in [Threads -> Locations]
      BY <2>1, <1>d DEF Locations
    <2>4. QED
      BY <1>4, <1>c, <2>2, <2>3 DEF LoadMark, TypeOK
  <1>5. ASSUME NEW t \in Threads, ClaimMark(t) PROVE TypeOK'
    <2>1. MarkAfter(mine[t]) \in Nat
      BY MarkAfterAhead DEF TypeOK, CountersOK
    <2>2. MarksOK'
      BY <1>5, <2>1 DEF ClaimMark, TypeOK, MarksOK
    <2>3. QED
      BY <1>5, <1>a, <1>c, <1>d, <2>2 DEF ClaimMark, TypeOK, locals, Locations
  <1>6. ASSUME NEW t \in Threads, LoseMark(t) PROVE TypeOK'
    <2>1. MarksOK'
      BY <1>6 DEF LoseMark, TypeOK, MarksOK
    <2>2. QED
      BY <1>6, <1>a, <1>c, <1>d, <2>1 DEF LoseMark, TypeOK, locals, Locations
  <1>7. ASSUME NEW t \in Threads, ReadClock(t) PROVE TypeOK'
    <2>1. CountersOK'
      BY <1>7, BoundsAssumption DEF ReadClock, TypeOK, CountersOK
    <2>2. QED
      BY <1>7, <1>b, <1>c, <1>d, <2>1 DEF ReadClock, TypeOK, views, Locations
  <1>8. ASSUME NEW t \in Threads, CheckInterval(t) PROVE TypeOK'
    <2>1. PICK i \in 1..Len(lastLines) : viewLine' = [viewLine EXCEPT ![t] = i]
      BY <1>8, LoadableInRange DEF CheckInterval
    <2>a. LastLinesOK'
      BY <1>8, <2>1 DEF CheckInterval, TypeOK, LastLinesOK
    <2>2. pc' \in [Threads -> Locations]
      BY <1>8, <1>d DEF CheckInterval, Locations
    <2>3. QED
      BY <1>8, <1>a, <1>b, <2>a, <2>2 DEF CheckInterval, TypeOK, locals
  <1>9. ASSUME NEW t \in Threads, StoreLine(t) PROVE TypeOK'
    <2>a. now[t] \in Int /\ lastLines \in Seq(Int)
      BY DEF TypeOK, CountersOK, LastLinesOK
    <2>b. lastLines' \in Seq(Int) /\ Len(lastLines') = Len(lastLines) + 1 /\ Len(lastLines) \in Nat
      BY <1>9, <2>a DEF StoreLine
    <2>1. LastLinesOK'
      BY <1>9, <2>b DEF StoreLine, TypeOK, LastLinesOK
    <2>2. QED
      BY <1>9, <1>a, <1>b, <1>d, <2>1 DEF StoreLine, TypeOK, locals, Locations
  <1>10. ASSUME NEW t \in Threads, LogLine(t) PROVE TypeOK'
    <2> DEFINE line == [done |-> mine[t], at |-> now[t]]
    <2>1. line \in [done : 0..MaxDone, at : Nat] /\ lines' = Append(lines, line)
      BY <1>10 DEF LogLine, TypeOK, CountersOK
    <2>2. lines' \in Seq([done : 0..MaxDone, at : Nat])
      <3> HIDE DEF line
      <3> QED BY <2>1 DEF TypeOK
    <2>3. QED
      BY <1>10, <1>a, <1>b, <1>c, <1>d, <2>2 DEF LogLine, TypeOK, locals, views, Locations
  <1>11. CASE Tick
    <2>1. CountersOK'
      BY <1>11, BoundsAssumption DEF Tick, TypeOK, CountersOK, locals
    <2>2. QED
      BY <1>11, <1>b, <1>c, <2>1 DEF Tick, TypeOK, views
  <1>12. CASE UNCHANGED vars
    BY <1>12, <1>a, <1>b, <1>c DEF vars, TypeOK, locals, views
  <1>13. QED
    BY <1>1, <1>2, <1>3, <1>4, <1>5, <1>6, <1>7, <1>8, <1>9, <1>10, <1>11, <1>12
       DEF Next, Continue

\* The reporter's state keeps its types, and every thread's view stays inside the
\* modification orders, whatever the threads do.
THEOREM TypeCorrect == Spec => []TypeOK
  BY InitType, NextType, PTL DEF Spec

-----------------------------------------------------------------------------
(* Claims *)

\* What moving the mark does: the new mark is beyond the claimer's count, and that
\* is not behind the old mark.
LEMMA ClaimMovesMark ==
  ASSUME TypeOK, ClaimInv, NEW t \in Threads, ClaimMark(t)
  PROVE  /\ nextMark \in Nat /\ nextMark' = MarkAfter(mine[t])
         /\ nextMark <= mine[t] /\ mine[t] < nextMark' /\ nextMark' \in Nat
  <1>1. /\ mine[t] \in 0..MaxDone /\ mine[t] \in Nat
        /\ mark[t] = nextMark /\ mark[t] \in Nat /\ mark[t] <= mine[t]
    BY BoundsAssumption DEF TypeOK, CountersOK, MarksOK, ClaimInv, ClaimMark, Goto
  <1>2. nextMark' = MarkAfter(mine[t])
    BY DEF ClaimMark, nextMark, TypeOK
  <1>3. QED
    BY <1>1, <1>2, MarkAfterAhead

LEMMA InitClaims == Init => ClaimInv
  BY DEF Init, ClaimInv, Holds

\* A step that leaves the mark, the printed lines and every thread that holds a claim
\* alone, and is careful with "cas" and "store", keeps the claims.
LEMMA NextClaims == TypeOK /\ ClaimInv /\ [Next]_vars => ClaimInv'
  <1> SUFFICES ASSUME TypeOK, ClaimInv, [Next]_vars PROVE ClaimInv'
    OBVIOUS
  <1>1. ASSUME NEW t \in Threads, Advance(t) PROVE ClaimInv'
    BY <1>1 DEF Advance, TypeOK, ClaimInv, Holds, Claimed, nextMark, Goto, views
  <1>2. ASSUME NEW t \in Threads, Update(t) PROVE ClaimInv'
    BY <1>2 DEF Update, TypeOK, ClaimInv, Holds, Claimed, nextMark, Goto, views
  <1>3. ASSUME NEW t \in Threads, CheckMark(t) PROVE ClaimInv'
    BY <1>3 DEF CheckMark, TypeOK, ClaimInv, Holds, Claimed, nextMark, Goto, locals
  <1>4. ASSUME NEW t \in Threads, LoadMark(t) PROVE ClaimInv'
    <2>1. PICK i \in 1..Len(marks) :
            /\ mark' = [mark EXCEPT ![t] = marks[i]]
            /\ Goto(t, "load", IF mine[t] < marks[i] THEN "idle" ELSE "cas")
      BY <1>4, LoadableInRange DEF LoadMark
    <2>2. marks[i] \in Nat /\ mine[t] \in Nat
      BY BoundsAssumption DEF TypeOK, CountersOK, MarksOK
    <2>3. QED
      BY <1>4, <2>1, <2>2 DEF LoadMark, TypeOK, CountersOK, ClaimInv, Holds, Claimed, nextMark, Goto
  <1>5. ASSUME NEW t \in Threads, ClaimMark(t) PROVE ClaimInv'
    <2>1. /\ nextMark \in Nat /\ nextMark' = MarkAfter(mine[t])
          /\ nextMark <= mine[t] /\ mine[t] < nextMark' /\ nextMark' \in Nat
      BY <1>5, ClaimMovesMark
    <2>2. \A d \in 0..MaxDone : Claimed(d) => Claimed(d)' /\ StepOf(d) < StepOf(mine[t])
      <3> SUFFICES ASSUME NEW d \in 0..MaxDone, Claimed(d)
                   PROVE  Claimed(d)' /\ StepOf(d) < StepOf(mine[t])
        OBVIOUS
      <3>1. MarkAfter(d) \in Nat /\ MarkAfter(d) <= nextMark /\ d < Total
        BY MarkAfterAhead DEF Claimed
      <3>2. mine[t] \in 0..MaxDone /\ mine[t] \in Nat
        BY BoundsAssumption DEF TypeOK, CountersOK
      <3>3. MarkAfter(d) <= mine[t] /\ MarkAfter(d) <= nextMark'
        BY <2>1, <3>1, <3>2
      <3>4. QED
        BY <3>1, <3>2, <3>3, ReachedMarkLaterStep DEF Claimed
    <2>3. pc'[t] # "idle" => mine[t] < Total
      BY <1>5, TotalAssumption, BoundsAssumption DEF ClaimMark, Goto, TypeOK, CountersOK
    <2>4. Holds(t)' => Claimed(mine[t])'
      BY <1>5, <2>1, <2>3 DEF ClaimMark, locals, Holds, Claimed
    <2>5. /\ \A s \in Threads : mine[s] \in 0..MaxDone
          /\ \A i \in 1..Len(lines) : lines[i].done \in 0..MaxDone
      <3> DEFINE Line == [done : 0..MaxDone, at : Nat]
      <3>1. lines \in Seq(Line)
        BY DEF TypeOK
      <3>2. \A i \in 1..Len(lines) : lines[i] \in Line
        <4> HIDE DEF Line
        <4> QED BY <3>1
      <3>3. QED
        BY <3>2 DEF TypeOK, CountersOK
    <2>6. /\ \A s \in Threads \ {t} : Holds(s)' => Holds(s) /\ Claimed(mine[s])
          /\ \A s \in Threads : pc'[s] = "cas" => pc[s] = "cas"
          /\ \A s \in Threads : pc'[s] \in {"store", "log"} => pc[s] \in {"store", "log"}
      BY <1>5 DEF ClaimMark, Goto, TypeOK, ClaimInv, Holds
    <2>7. UNCHANGED <<mine, mark, now, lines, lastLines>>
      BY <1>5 DEF ClaimMark, locals
    <2>8. \A d \in 0..MaxDone : Claimed(d) => StepOf(d) # StepOf(mine[t])
      <3> SUFFICES ASSUME NEW d \in 0..MaxDone, Claimed(d), StepOf(d) = StepOf(mine[t])
                   PROVE  FALSE
        OBVIOUS
      <3>1. /\ Total > 0 /\ d \in Nat
        BY BoundsAssumption, TotalAssumption DEF Claimed
      <3>2. QED
        BY <2>2, <3>1, StepOfBounds
    <2>9. QED
      BY <2>2, <2>4, <2>5, <2>6, <2>7, <2>8 DEF ClaimInv
  <1>6. ASSUME NEW t \in Threads, LoseMark(t) PROVE ClaimInv'
    BY <1>6 DEF LoseMark, TypeOK, ClaimInv, Holds, Claimed, nextMark, Goto, locals
  <1>7. ASSUME NEW t \in Threads, ReadClock(t) PROVE ClaimInv'
    BY <1>7 DEF ReadClock, TypeOK, ClaimInv, Holds, Claimed, nextMark, Goto, views
  <1>8. ASSUME NEW t \in Threads, CheckInterval(t) PROVE ClaimInv'
    <2>1. PICK i \in 1..Len(lastLines) :
            Goto(t, "gate", IF now[t] - lastLines[i] < MinInterval THEN "idle" ELSE "store")
      BY <1>8, LoadableInRange DEF CheckInterval
    <2>2. lastLines[i] \in Int /\ lastLines[i] >= 0 /\ now[t] \in Nat
      BY DEF TypeOK, CountersOK, LastLinesOK, ClaimInv
    <2>3. pc'[t] = "store" => now[t] >= MinInterval
      BY <2>1, <2>2, IntervalAssumption DEF Goto, TypeOK
    <2>4. UNCHANGED <<marks, mine, mark, now, lines, lastLines>>
      BY <1>8 DEF CheckInterval, locals
    <2>5. \A s \in Threads :
            /\ Holds(s)' => Holds(s)
            /\ pc'[s] = "cas" => pc[s] = "cas"
            /\ pc'[s] \in {"store", "log"} =>
                 pc[s] \in {"store", "log"} \/ (s = t /\ pc'[t] = "store")
      BY <2>1 DEF Goto, TypeOK, Holds
    <2>6. QED
      BY <2>3, <2>4, <2>5 DEF ClaimInv, Claimed, nextMark
  <1>9. ASSUME NEW t \in Threads, StoreLine(t) PROVE ClaimInv'
    <2>1. \A i \in 1..Len(lastLines') : lastLines'[i] >= 0
      BY <1>9 DEF StoreLine, TypeOK, CountersOK, LastLinesOK, ClaimInv
    <2>2. QED
      BY <1>9, <2>1 DEF StoreLine, TypeOK, ClaimInv, Holds, Claimed, nextMark, Goto, locals
  <1>10. ASSUME NEW t \in Threads, LogLine(t) PROVE ClaimInv'
    BY <1>10 DEF LogLine, TypeOK, ClaimInv, Holds, Claimed, nextMark, Goto, locals, views
  <1>11. CASE Tick
    BY <1>11 DEF Tick, TypeOK, ClaimInv, Holds, Claimed, nextMark, locals, views
  <1>12. CASE UNCHANGED vars
    BY <1>12 DEF vars, TypeOK, ClaimInv, Holds, Claimed, nextMark, locals, views
  <1>13. QED
    BY <1>1, <1>2, <1>3, <1>4, <1>5, <1>6, <1>7, <1>8, <1>9, <1>10, <1>11, <1>12
       DEF Next, Continue

\* Threads between their compare-exchange and their log line hold distinct steps.
THEOREM ClaimsAreDistinct == Spec => []ClaimInv
  BY InitType, NextType, InitClaims, NextClaims, PTL DEF Spec

-----------------------------------------------------------------------------
(* What is printed *)

\* No two printed lines belong to the same step, for any number of racing threads and
\* any staleness of the relaxed loads.
THEOREM LinesInDistinctSteps == Spec => []OneLinePerStep
  <1>1. Init => OneLinePerStep
    BY DEF Init, OneLinePerStep
  <1>2. TypeOK /\ ClaimInv /\ OneLinePerStep /\ [Next]_vars => OneLinePerStep'
    <2> SUFFICES ASSUME TypeOK, ClaimInv, OneLinePerStep, [Next]_vars PROVE OneLinePerStep'
      OBVIOUS
    <2>1. ASSUME NEW t \in Threads, LogLine(t) PROVE OneLinePerStep'
      <3> DEFINE line == [done |-> mine[t], at |-> now[t]]
      <3>1. \A i \in 1..Len(lines) : StepOf(lines[i].done) # StepOf(line.done)
        BY <2>1 DEF LogLine, Goto, ClaimInv, Holds
      <3>2. /\ Len(lines) \in Nat /\ Len(lines') = Len(lines) + 1
            /\ lines'[Len(lines) + 1] = line
            /\ \A i \in 1..Len(lines) : lines'[i] = lines[i]
        BY <2>1 DEF LogLine, TypeOK
      <3>3. \A i \in 1..Len(lines') : i \in 1..Len(lines) \/ i = Len(lines) + 1
        BY <3>2
      <3>4. QED
        <4> HIDE DEF line
        <4> QED BY <3>1, <3>2, <3>3 DEF OneLinePerStep
    <2>2. CASE UNCHANGED lines
      BY <2>2 DEF OneLinePerStep
    <2>3. QED
      BY <2>1, <2>2 DEF Next, Continue, vars, Advance, Update, CheckMark, LoadMark, ClaimMark,
         LoseMark, ReadClock, CheckInterval, StoreLine, Tick
  <1>3. QED
    BY <1>1, <1>2, TypeCorrect, ClaimsAreDistinct, PTL DEF Spec

\* Nothing is printed within minInterval of construction, and never for a finished loop.
THEOREM LinesWaitForInterval == Spec => []NoEarlyNoFinalLine
  <1>1. Init => NoEarlyNoFinalLine
    BY DEF Init, NoEarlyNoFinalLine
  <1>2. TypeOK /\ ClaimInv /\ NoEarlyNoFinalLine /\ [Next]_vars => NoEarlyNoFinalLine'
    <2> SUFFICES ASSUME TypeOK, ClaimInv, NoEarlyNoFinalLine, [Next]_vars
                 PROVE  NoEarlyNoFinalLine'
      OBVIOUS
    <2>1. ASSUME NEW t \in Threads, LogLine(t) PROVE NoEarlyNoFinalLine'
      <3>1. mine[t] < Total /\ now[t] >= MinInterval
        BY <2>1 DEF LogLine, Goto, ClaimInv, Holds, Claimed
      <3>2. \A i \in 1..Len(lines') :
              \/ lines'[i] = lines[i] /\ i \in 1..Len(lines)
              \/ lines'[i] = [done |-> mine[t], at |-> now[t]]
        BY <2>1 DEF LogLine, TypeOK
      <3>3. QED
        BY <3>1, <3>2 DEF NoEarlyNoFinalLine
    <2>2. CASE UNCHANGED lines
      BY <2>2 DEF NoEarlyNoFinalLine
    <2>3. QED
      BY <2>1, <2>2 DEF Next, Continue, vars, Advance, Update, CheckMark, LoadMark, ClaimMark,
         LoseMark, ReadClock, CheckInterval, StoreLine, Tick
  <1>3. QED
    BY <1>1, <1>2, TypeCorrect, ClaimsAreDistinct, PTL DEF Spec

\* The mark only moves forward, past the count of whoever moves it.
THEOREM MarkIsMonotone == Spec => MarkMovesForward
  <1>1. TypeOK /\ ClaimInv /\ [Next]_vars => [marks' # marks => nextMark' > nextMark]_vars
    <2> SUFFICES ASSUME TypeOK, ClaimInv, [Next]_vars, marks' # marks
                 PROVE  nextMark' > nextMark
      OBVIOUS
    <2>1. PICK t \in Threads : ClaimMark(t)
      BY DEF Next, Continue, vars, Advance, Update, CheckMark, LoadMark,
         LoseMark, ReadClock, CheckInterval, StoreLine, LogLine, Tick
    <2>2. mine[t] \in Nat
      BY BoundsAssumption DEF TypeOK, CountersOK
    <2>3. QED
      BY <2>1, <2>2, ClaimMovesMark
  <1>2. QED
    BY <1>1, TypeCorrect, ClaimsAreDistinct, PTL DEF Spec, MarkMovesForward

-----------------------------------------------------------------------------
(* One thread *)

\* What a single caller can rely on: it sees the last mark and the last line whatever
\* Relaxed says, it works from the count it left in done_, and no mark it has reached is
\* unclaimed once it has passed the compare-exchange.  The last line's time is kept from
\* just before the line is printed.
SerialThread(t) ==
  /\ viewMark[t] = Len(marks) /\ viewLine[t] = Len(lastLines)
  /\ pc[t] # "idle" => mine[t] = done
  /\ pc[t] = "cas" => mark[t] = nextMark
  /\ pc[t] \notin {"check", "load", "cas"} => done < nextMark

PacedThread(t) ==
  /\ pc[t] # "log" => \A i \in 1..Len(lines) : lines[i].at <= lastLine
  /\ pc[t] = "store" => now[t] - lastLine >= MinInterval
  /\ pc[t] = "log" =>
       /\ lastLine = now[t]
       /\ \A i \in 1..Len(lines) : now[t] - lines[i].at >= MinInterval

SerialInv ==
  /\ \A t \in Threads : SerialThread(t) /\ PacedThread(t)
  /\ Threads = {} => done < nextMark
  /\ Paced

\* With one caller a relaxed load has one value to return.
LEMMA SerialLoads ==
  ASSUME TypeOK, NEW t \in Threads, SerialThread(t)
  PROVE  /\ Loadable(viewMark[t], marks) = {Len(marks)}
         /\ Loadable(viewLine[t], lastLines) = {Len(lastLines)}
  <1>1. Len(marks) \in Nat /\ Len(lastLines) \in Nat
    BY DEF TypeOK, MarksOK, LastLinesOK
  <1>2. QED
    BY <1>1 DEF SerialThread, Loadable

LEMMA LinesType ==
  ASSUME TypeOK
  PROVE  /\ Len(lines) \in Nat /\ \A i \in 1..Len(lines) : lines[i].at \in Nat
         /\ nextMark \in Nat /\ lastLine \in Int
         /\ \A t \in Threads : now[t] \in Nat /\ mine[t] \in 0..MaxDone /\ mine[t] \in Nat
         /\ done \in Nat
  <1> DEFINE Line == [done : 0..MaxDone, at : Nat]
  <1>1. lines \in Seq(Line)
    BY DEF TypeOK
  <1>2. Len(lines) \in Nat /\ \A i \in 1..Len(lines) : lines[i] \in Line
    <2> HIDE DEF Line
    <2> QED BY <1>1
  <1>3. nextMark \in Nat
    BY DEF TypeOK, MarksOK, nextMark
  <1>4. lastLine \in Int
    BY DEF TypeOK, LastLinesOK, lastLine
  <1>5. QED
    BY <1>2, <1>3, <1>4, BoundsAssumption DEF TypeOK, CountersOK

\* A step of the only caller that neither moves the mark nor touches the lines.
LEMMA QuietStep ==
  ASSUME SerialInv, NEW t \in Threads, UNCHANGED <<marks, lastLines, lines, now>>,
         \A s \in Threads : s = t, SerialThread(t)', pc[t] \notin {"store", "log"},
         pc'[t] # "log", pc'[t] = "store" => now[t] - lastLine >= MinInterval
  PROVE  SerialInv'
  <1>1. lastLine' = lastLine /\ PacedThread(t)
    BY DEF lastLine, SerialInv
  <1>2. PacedThread(t)'
    BY <1>1 DEF PacedThread
  <1>3. QED
    BY <1>1, <1>2 DEF SerialInv, Paced

LEMMA InitSerial == Init => SerialInv
  <1> SUFFICES ASSUME Init PROVE SerialInv
    OBVIOUS
  <1>1. nextMark = MarkAfter(0) /\ 0 < MarkAfter(0) /\ done = 0
    BY MarkAfterAhead, BoundsAssumption DEF Init, nextMark
  <1>2. QED
    BY <1>1 DEF Init, SerialInv, SerialThread, PacedThread, Paced

LEMMA NextSerial == Serial /\ TypeOK /\ SerialInv /\ [Next]_vars => SerialInv'
  <1> SUFFICES ASSUME Serial, TypeOK, SerialInv, [Next]_vars PROVE SerialInv'
    OBVIOUS
  <1>1. CASE Tick \/ UNCHANGED vars
    BY <1>1 DEF Tick, vars, locals, views, SerialInv, SerialThread, PacedThread, Paced, nextMark, lastLine
  <1>2. CASE \E t \in Threads : Advance(t) \/ Update(t) \/ Continue(t)
    <2>1. PICK t \in Threads : Advance(t) \/ Update(t) \/ Continue(t)
      BY <1>2
    <2>2. \A s \in Threads : s = t
      BY SerialAssumption
    <2>3. SerialThread(t) /\ PacedThread(t) /\ t \in DOMAIN pc /\ Paced
      BY DEF SerialInv, TypeOK
    <2>4. /\ Loadable(viewMark[t], marks) = {Len(marks)}
          /\ Loadable(viewLine[t], lastLines) = {Len(lastLines)}
      BY <2>3, SerialLoads
    <2>5. /\ t \in DOMAIN mine /\ t \in DOMAIN mark /\ t \in DOMAIN now
          /\ t \in DOMAIN viewMark /\ t \in DOMAIN viewLine
      BY DEF TypeOK, CountersOK, MarksOK, LastLinesOK
    <2>6. /\ nextMark \in Nat /\ lastLine \in Int
          /\ now[t] \in Nat /\ mine[t] \in 0..MaxDone /\ mine[t] \in Nat
          /\ Len(lines) \in Nat /\ \A i \in 1..Len(lines) : lines[i].at \in Nat
      BY LinesType
    <2>7. CASE Advance(t) \/ Update(t)
      <3>1. /\ pc[t] = "idle" /\ pc'[t] = "check" /\ mine'[t] = done'
            /\ UNCHANGED <<marks, lastLines, lines, now, views>>
        BY <2>3, <2>5, <2>7 DEF Advance, Update, Goto
      <3>2. SerialThread(t)'
        BY <2>3, <3>1 DEF SerialThread, views
      <3>3. QED
        BY <2>2, <3>1, <3>2, QuietStep
    <2>8. CASE CheckMark(t)
      <3>1. /\ viewMark'[t] = Len(marks) /\ viewLine' = viewLine
            /\ pc[t] = "check" /\ pc'[t] = IF mine[t] >= nextMark THEN "load" ELSE "idle"
            /\ UNCHANGED <<done, mine, marks, lastLines, lines, now>>
        BY <2>3, <2>4, <2>5, <2>8 DEF CheckMark, Goto, locals, nextMark
      <3>2. SerialThread(t)'
        BY <2>3, <2>6, <3>1 DEF SerialThread, nextMark
      <3>3. QED
        BY <2>2, <3>1, <3>2, QuietStep
    <2>9. CASE LoadMark(t)
      <3>1. /\ viewMark'[t] = Len(marks) /\ viewLine' = viewLine /\ mark'[t] = nextMark
            /\ pc[t] = "load" /\ pc'[t] = IF mine[t] < nextMark THEN "idle" ELSE "cas"
            /\ UNCHANGED <<done, mine, marks, lastLines, lines, now>>
        BY <2>3, <2>4, <2>5, <2>9 DEF LoadMark, Goto, nextMark
      <3>2. SerialThread(t)'
        BY <2>3, <2>6, <3>1 DEF SerialThread, nextMark
      <3>3. QED
        BY <2>2, <3>1, <3>2, QuietStep
    <2>10. CASE ClaimMark(t)
      <3>1. /\ viewMark'[t] = Len(marks') /\ viewLine' = viewLine
            /\ pc[t] = "cas" /\ pc'[t] \in {"idle", "clock"}
            /\ nextMark' = MarkAfter(mine[t])
            /\ UNCHANGED <<done, mine, lastLines, lines, now>>
        BY <2>3, <2>5, <2>10 DEF ClaimMark, Goto, locals, nextMark, TypeOK, MarksOK
      <3>2. mine[t] < nextMark'
        BY <2>6, <3>1, MarkAfterAhead
      <3>3. SerialThread(t)'
        BY <2>3, <3>1, <3>2 DEF SerialThread
      <3>4. PacedThread(t)' /\ Paced'
        BY <2>3, <3>1 DEF PacedThread, Paced, lastLine
      <3>5. QED
        BY <2>2, <3>3, <3>4 DEF SerialInv
    <2>11. CASE LoseMark(t)
      BY <2>3, <2>11 DEF LoseMark, Goto, SerialThread
    <2>12. CASE ReadClock(t)
      <3>1. /\ pc[t] = "clock" /\ pc'[t] = "gate"
            /\ UNCHANGED <<done, mine, marks, lastLines, lines, views>>
        BY <2>3, <2>12 DEF ReadClock, Goto
      <3>2. SerialThread(t)' /\ PacedThread(t)' /\ Paced'
        BY <2>3, <3>1 DEF SerialThread, PacedThread, Paced, nextMark, lastLine, views
      <3>3. QED
        BY <2>2, <3>2 DEF SerialInv
    <2>13. CASE CheckInterval(t)
      <3>1. /\ viewLine'[t] = Len(lastLines) /\ viewMark' = viewMark
            /\ pc[t] = "gate" /\ pc'[t] = IF now[t] - lastLine < MinInterval THEN "idle" ELSE "store"
            /\ UNCHANGED <<done, mine, marks, lastLines, lines, now>>
        BY <2>3, <2>4, <2>5, <2>13 DEF CheckInterval, Goto, locals, lastLine
      <3>2. SerialThread(t)'
        BY <2>3, <3>1 DEF SerialThread, nextMark
      <3>3. pc'[t] = "store" => now[t] - lastLine >= MinInterval
        BY <2>6, <3>1, IntervalAssumption
      <3>4. QED
        BY <2>2, <3>1, <3>2, <3>3, QuietStep
    <2>14. CASE StoreLine(t)
      <3>1. /\ viewLine'[t] = Len(lastLines') /\ viewMark' = viewMark
            /\ pc[t] = "store" /\ pc'[t] = "log" /\ lastLine' = now[t]
            /\ UNCHANGED <<done, mine, marks, lines, now>>
        BY <2>3, <2>5, <2>14 DEF StoreLine, Goto, locals, lastLine, TypeOK, LastLinesOK
      <3>2. SerialThread(t)'
        BY <2>3, <3>1 DEF SerialThread, nextMark
      <3>3. \A i \in 1..Len(lines) : now[t] - lines[i].at >= MinInterval
        BY <2>3, <2>6, <3>1, IntervalAssumption DEF PacedThread
      <3>4. PacedThread(t)' /\ Paced'
        BY <2>3, <3>1, <3>3 DEF PacedThread, Paced
      <3>5. QED
        BY <2>2, <3>2, <3>4 DEF SerialInv
    <2>15. CASE LogLine(t)
      <3> DEFINE line == [done |-> mine[t], at |-> now[t]]
      <3>1. /\ pc[t] = "log" /\ pc'[t] = "idle" /\ lines' = Append(lines, line)
            /\ UNCHANGED <<done, marks, lastLines, locals, views>>
        BY <2>3, <2>15 DEF LogLine, Goto
      <3>2. SerialThread(t)'
        BY <2>3, <3>1 DEF SerialThread, nextMark, locals, views
      <3>3. /\ Len(lines') = Len(lines) + 1 /\ lines'[Len(lines) + 1].at = now[t]
            /\ \A i \in 1..Len(lines) : lines'[i] = lines[i]
        BY <3>1 DEF TypeOK
      <3>4. \A i \in 1..Len(lines') : i \in 1..Len(lines) \/ i = Len(lines) + 1
        BY <2>6, <3>3
      <3>5. lastLine' = now[t] /\ \A i \in 1..Len(lines) : now[t] - lines[i].at >= MinInterval
        BY <2>3, <3>1 DEF PacedThread, lastLine
      <3>6. \A i \in 1..Len(lines') : lines'[i].at <= lastLine'
        BY <2>6, <3>3, <3>4, <3>5, IntervalAssumption
      <3>7. PacedThread(t)'
        BY <3>1, <3>6 DEF PacedThread
      <3>8. Paced'
        <4> SUFFICES ASSUME NEW i \in 1..Len(lines'), NEW j \in 1..Len(lines'), i < j
                     PROVE  lines'[j].at - lines'[i].at >= MinInterval
          BY DEF Paced
        <4>1. i \in 1..Len(lines) /\ lines'[i] = lines[i]
          BY <2>6, <3>3, <3>4
        <4>2. CASE j \in 1..Len(lines)
          BY <2>3, <3>3, <4>1, <4>2 DEF Paced
        <4>3. CASE j = Len(lines) + 1
          BY <3>3, <3>5, <4>1, <4>3
        <4>4. QED
          BY <3>4, <4>2, <4>3
      <3>9. QED
        BY <2>2, <3>2, <3>7, <3>8 DEF SerialInv
    <2>16. QED
      BY <2>1, <2>7, <2>8, <2>9, <2>10, <2>11, <2>12, <2>13, <2>14, <2>15 DEF Continue
  <1>3. QED
    BY <1>1, <1>2 DEF Next

LEMMA SerialInvHolds == Serial => (Spec => []SerialInv)
  <1>1. CASE Serial
    <2>1. TypeOK /\ SerialInv /\ [Next]_vars => SerialInv'
      BY <1>1, NextSerial
    <2>2. QED
      BY <2>1, InitSerial, TypeCorrect, PTL DEF Spec
  <1>2. QED
    BY <1>1

\* In a serial loop two printed lines read clocks at least minInterval apart, for any
\* total, step, interval and order of advance() and update().
THEOREM SerialLoopIsPaced == Serial => (Spec => []Paced)
  <1>1. SerialInv => Paced
    BY DEF SerialInv
  <1>2. QED
    BY <1>1, SerialInvHolds, PTL

\* Between the calls of a serial loop no step that the work has reached is unclaimed.
THEOREM SerialLoopClaimsItsSteps == Serial => (Spec => []SerialMarkAhead)
  <1>1. SerialInv => SerialMarkAhead
    BY DEF SerialInv, SerialThread, SerialMarkAhead
  <1>2. QED
    BY <1>1, SerialInvHolds, PTL
=============================================================================
