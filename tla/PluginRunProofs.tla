---------------------------- MODULE PluginRunProofs ----------------------------
(***************************************************************************)
(* What a plugin run leaves behind, for any command line, dumps, machine   *)
(* and analysis: an exit code that tells the truth, outputs in order, and  *)
(* pools whose objects are destroyed once.                                 *)
(*                                                                         *)
(* The three phases after the analysis look at what it returned.           *)
(* ControlInv ties the result to the failures until then, FilesInv the     *)
(* files to the number written and to the result.                          *)
(***************************************************************************)
EXTENDS PluginRun, PropertyStorageProofs

-----------------------------------------------------------------------------
(* A pool by itself: it destroys what was built and nothing else, whatever *)
(* the size of a page and the number of pages, and wherever construction   *)
(* fails.                                                                  *)

\* The count of slots on the last page says all there is to know: PoolDestroysOnce with the
\* types is inductive.
PoolInv == PoolTypeOK /\ PoolDestroysOnce

Made == {"object", "abandoned"}

LEMMA RawPageType == RawPage \in [1..PageSize -> Holdings]
  BY DEF RawPage, Holdings

\* The next slot of the last page is raw, and is the only one that changes.
LEMMA SlotOnLastPageKeeps ==
  ASSUME PoolInv, NEW made \in Made, SlotOnLastPage(made)
  PROVE  PoolInv'
  <1> DEFINE n == Len(pages)
             page == [pages[n] EXCEPT ![lastPageSize + 1] = made]
  <1>1. n \in Nat \ {0} /\ pages \in Seq([1..PageSize -> Holdings]) /\ lastPageSize \in 0..PageSize
    BY DEF PoolInv, PoolTypeOK, SlotOnLastPage
  <1>2. lastPageSize + 1 \in 1..PageSize
    BY <1>1, PageAssumption DEF SlotOnLastPage
  <1>3. pages[n] \in [1..PageSize -> Holdings] /\ made \in Holdings
    BY <1>1 DEF Made, Holdings
  <1>4. page \in [1..PageSize -> Holdings]
    BY <1>3
  <1>5. pages' = [pages EXCEPT ![n] = page]
    BY DEF SlotOnLastPage
  <1>6. pages' \in Seq([1..PageSize -> Holdings]) /\ Len(pages') = n
    BY <1>1, <1>4, <1>5
  <1>7. PoolTypeOK'
    BY <1>1, <1>2, <1>6 DEF PoolInv, PoolTypeOK, SlotOnLastPage
  <1>8. PoolDestroysOnce'
    <2> SUFFICES ASSUME NEW k \in DOMAIN pages', NEW i \in 1..PageSize
                 PROVE  IsTaken(k, i)' <=> pages'[k][i] # "raw"
      BY DEF PoolDestroysOnce
    <2>1. k \in 1..n
      BY <1>6
    <2>2. IsTaken(k, i) <=> pages[k][i] # "raw"
      BY <1>1, <2>1 DEF PoolInv, PoolDestroysOnce
    <2>3. CASE k # n
      BY <1>1, <1>5, <1>6, <2>1, <2>2, <2>3 DEF IsTaken
    <2>4. CASE k = n
      <3>1. pages'[k] = page
        BY <1>1, <1>5, <2>1, <2>4
      <3>2. IsTaken(k, i)' <=> i <= lastPageSize + 1
        BY <1>6, <2>4 DEF IsTaken, SlotOnLastPage
      <3>3. CASE i = lastPageSize + 1
        <4>1. page[i] = made
          BY <1>2, <1>3, <3>3
        <4>2. made # "raw"
          BY DEF Made
        <4>3. IsTaken(k, i)'
          BY <1>1, <3>2, <3>3
        <4>4. QED
          BY <3>1, <4>1, <4>2, <4>3
      <3>4. CASE i # lastPageSize + 1
        BY <1>1, <1>3, <2>2, <2>4, <3>1, <3>2, <3>4 DEF IsTaken
      <3>5. QED
        BY <3>3, <3>4
    <2>5. QED
      BY <2>3, <2>4
  <1>9. QED
    BY <1>7, <1>8 DEF PoolInv

\* A new page comes when all others are full.
LEMMA SlotOnNewPageKeeps ==
  ASSUME PoolInv, NEW made \in Made, SlotOnNewPage(made)
  PROVE  PoolInv'
  <1> DEFINE n == Len(pages)
             page == [RawPage EXCEPT ![1] = made]
  <1>1. /\ pages \in Seq([1..PageSize -> Holdings]) /\ lastPageSize = PageSize
        /\ pages' = Append(pages, page) /\ lastPageSize' = 1 /\ leaked' = leaked
    BY DEF PoolInv, PoolTypeOK, SlotOnNewPage
  <1>2. page \in [1..PageSize -> Holdings]
    BY RawPageType DEF Made, Holdings
  <1>3. pages' \in Seq([1..PageSize -> Holdings]) /\ Len(pages') = n + 1 /\ n \in Nat
    <2> HIDE DEF page
    <2> QED BY <1>1, <1>2
  <1>4. PoolTypeOK'
    BY <1>1, <1>3, PageAssumption DEF PoolInv, PoolTypeOK
  <1>5. PoolDestroysOnce'
    <2> SUFFICES ASSUME NEW k \in DOMAIN pages', NEW i \in 1..PageSize
                 PROVE  IsTaken(k, i)' <=> pages'[k][i] # "raw"
      BY DEF PoolDestroysOnce
    <2>1. k \in 1..(n + 1)
      BY <1>3
    <2>2. CASE k # n + 1
      <3>1. k \in 1..n /\ pages'[k] = pages[k]
        <4> HIDE DEF page
        <4> QED BY <1>1, <1>2, <1>3, <2>1, <2>2
      <3>2. pages[k][i] # "raw"
        BY <1>1, <3>1 DEF PoolInv, PoolDestroysOnce, IsTaken
      <3>3. IsTaken(k, i)'
        BY <1>3, <2>2 DEF IsTaken
      <3>4. QED
        BY <3>1, <3>2, <3>3
    <2>3. CASE k = n + 1
      <3>1. pages'[k] = page
        <4> HIDE DEF page
        <4> QED BY <1>1, <1>2, <1>3, <2>3
      <3>2. IsTaken(k, i)' <=> i = 1
        BY <1>1, <1>3, <2>3 DEF IsTaken
      <3>3. page[i] # "raw" <=> i = 1
        BY PageAssumption DEF RawPage, Made
      <3>4. QED
        BY <3>1, <3>2, <3>3
    <2>4. QED
      BY <2>2, <2>3
  <1>6. QED
    BY <1>4, <1>5 DEF PoolInv

\* What is left after clear() is raw, and counted as such.
LEMMA ClearPoolKeeps ==
  ASSUME PoolInv, NEW keepFirstPage \in BOOLEAN, ClearPool(keepFirstPage)
  PROVE  PoolInv'
  <1>1. CASE keepFirstPage /\ pages # <<>>
    <2>1. pages' = <<RawPage>> /\ lastPageSize' = 0 /\ leaked' = leaked
      BY <1>1 DEF ClearPool
    <2>2. pages' \in Seq([1..PageSize -> Holdings]) /\ Len(pages') = 1 /\ pages'[1] = RawPage
      <3>1. RawPage \in [1..PageSize -> Holdings]
        BY RawPageType
      <3>2. QED
        BY <2>1, <3>1
    <2>3. PoolTypeOK'
      BY <2>1, <2>2, PageAssumption DEF PoolInv, PoolTypeOK
    <2>4. PoolDestroysOnce'
      <3> SUFFICES ASSUME NEW k \in DOMAIN pages', NEW i \in 1..PageSize
                   PROVE  IsTaken(k, i)' <=> pages'[k][i] # "raw"
        BY DEF PoolDestroysOnce
      <3>1. k = 1
        BY <2>2
      <3>2. ~IsTaken(k, i)'
        BY <2>1, <2>2, <3>1 DEF IsTaken
      <3>3. pages'[k][i] = "raw"
        BY <2>2, <3>1 DEF RawPage
      <3>4. QED
        BY <3>2, <3>3
    <2>5. QED
      BY <2>3, <2>4 DEF PoolInv
  <1>2. CASE ~(keepFirstPage /\ pages # <<>>)
    <2>1. pages' = <<>> /\ lastPageSize' = PageSize /\ leaked' = leaked
      BY <1>2 DEF ClearPool
    <2>2. PoolTypeOK'
      BY <2>1, PageAssumption DEF PoolInv, PoolTypeOK
    <2>3. PoolDestroysOnce'
      BY <2>1 DEF PoolDestroysOnce
    <2>4. QED
      BY <2>2, <2>3 DEF PoolInv
  <1>3. QED
    BY <1>1, <1>2

LEMMA PoolInvInductive == PoolInv /\ [PoolNext]_poolVars => PoolInv'
  <1> SUFFICES ASSUME PoolInv, [PoolNext]_poolVars PROVE PoolInv'
    OBVIOUS
  <1>1. CASE Construct
    BY <1>1, SlotOnLastPageKeeps, SlotOnNewPageKeeps DEF Construct, Made
  <1>2. CASE ConstructorThrows
    BY <1>2, SlotOnLastPageKeeps, SlotOnNewPageKeeps DEF ConstructorThrows, Made
  <1>3. CASE NoPage \/ UNCHANGED poolVars
    BY <1>3 DEF NoPage, poolVars, PoolInv, PoolTypeOK, PoolDestroysOnce, IsTaken
  <1>4. CASE PageForgotten
    BY <1>4 DEF PageForgotten, PoolInv, PoolTypeOK, PoolDestroysOnce, IsTaken
  <1>5. CASE \E keep \in BOOLEAN : ClearPool(keep)
    BY <1>5, ClearPoolKeeps
  <1>6. QED
    BY <1>1, <1>2, <1>3, <1>4, <1>5 DEF PoolNext, ConstructFails

LEMMA PoolInvHolds == PoolSpec => []PoolInv
  <1>1. PoolInit => PoolInv
    BY PageAssumption DEF PoolInit, PoolInv, PoolTypeOK, PoolDestroysOnce
  <1>2. QED
    BY <1>1, PoolInvInductive, PTL DEF PoolSpec

(* Types, and a last page that has room unless a new one is due. *)
THEOREM PoolTypeCorrect == PoolSpec => []PoolTypeOK
  BY PoolInvHolds, PTL DEF PoolInv

(* For any size of pages: clear() runs the destructor of every object, once, and of no     *)
(* memory but that which a throwing constructor has touched.                               *)
THEOREM DestroysOnce == PoolSpec => []PoolDestroysOnce
  BY PoolInvHolds, PTL DEF PoolInv

-----------------------------------------------------------------------------
(* The run *)

Working   == Phases \ {"unwinding", "report", "ended"}
Finishing == {"unwinding", "report"}

ResultAgrees ==
  \/ result = "object" /\ failures = {}
  \/ result = "malformed" /\ failures = {"result"}
  \/ result \in {"failed", "threw"} /\ failures # {}

ControlInv ==
  /\ phase \in Phases
  /\ phase \in Working => failures = {} /\ reported = FALSE /\ exitCode = 0 /\ result = "none"
  /\ phase \in Finishing => reported = FALSE /\ exitCode = 0 /\ ResultAgrees
  /\ phase = "ended" => ExitAgrees /\ (result = "threw" => exitCode # 0)

Holds == {"none", "old", "new", "partial"}

FilesInv ==
  /\ invocation \in Invocations
  /\ written \in 0..Len(Asked) /\ files \in [Range(Asked) -> Holds]
  /\ \A n \in DOMAIN Asked :
       /\ files[Asked[n]] = "new" <=> n <= written
       /\ files[Asked[n]] = "partial" => n = written + 1 /\ result = "threw"
  /\ phase \notin Working /\ result = "object" => written = Len(Asked)

control == <<phase, failures, reported, exitCode, result>>

-----------------------------------------------------------------------------
(* What an action does to the control of the run, seen from outside *)

\* On to another phase
Proceeds == phase \in Working /\ phase' \in Working /\ UNCHANGED <<failures, reported, exitCode, result, outputs, invocation>>

\* Out, before the analysis
Leaves(code, failed) ==
  phase \in Working /\ Exit(code, failed) /\ (code = 0 <=> failed = {}) /\ code \in {0, 1}
    /\ UNCHANGED <<result, outputs, invocation>>

\* Out of the analysis, with nothing written by the step
Concludes ==
  /\ phase \in Working /\ UNCHANGED <<outputs, invocation, reported, exitCode>> /\ phase' = "unwinding"
  /\ \/ result' \in {"failed", "threw"} /\ failures' # {}
     \/ result' = "malformed" /\ failures' = failures \cup {"result"}
     \/ result' = "object" /\ failures' = failures /\ written = Len(Asked)

Outward == Proceeds \/ Concludes \/ \E code \in {0, 1}, failed \in SUBSET {"usage", "frame", "reference"} : Leaves(code, failed)

LEMMA LeavingIsOutward ==
  ASSUME NEW code \in {0, 1}, NEW failed \in SUBSET {"usage", "frame", "reference"}, Leaves(code, failed)
  PROVE  Outward
  BY DEF Outward

LEMMA EarlyActions ==
  ASSUME Start \/ HandleIntrospection \/ ApplyResourceBudget \/ ParseFrame \/ ReadReference \/ FramesReady
  PROVE  Outward /\ UNCHANGED poolVars
  <1>1. CASE Start
    <2>1. phase = "start" /\ UNCHANGED <<invocation, outputs, result>> /\ UNCHANGED poolVars
      BY <1>1 DEF Start, Rest, analysis
    <2>2. CASE invocation.argv = <<>>
      <3>1. Exit(1, {"usage"})
        BY <1>1, <2>2 DEF Start
      <3>2. Leaves(1, {"usage"})
        BY <2>1, <3>1 DEF Leaves, Working, Phases
      <3>3. QED
        BY <2>1, <3>2, LeavingIsOutward
    <2>3. CASE invocation.argv # <<>>
      <3>1. phase' = "introspection" /\ UNCHANGED <<failures, reported, exitCode>>
        BY <1>1, <2>3 DEF Start
      <3>2. QED
        BY <2>1, <3>1 DEF Outward, Proceeds, Working, Phases
    <2>4. QED
      BY <2>2, <2>3
  <1>2. CASE HandleIntrospection
    <2>1. phase = "introspection" /\ UNCHANGED <<invocation, outputs, result>> /\ UNCHANGED poolVars
      BY <1>2 DEF HandleIntrospection, Rest, analysis
    <2>2. Exit(0, {}) \/ Exit(1, {"usage"}) \/ Continue("budget")
      BY <1>2 DEF HandleIntrospection
    <2>3. Leaves(0, {}) \/ Leaves(1, {"usage"}) \/ Proceeds
      BY <2>1, <2>2 DEF Leaves, Proceeds, Continue, Working, Phases
    <2>4. QED
      BY <2>1, <2>3, LeavingIsOutward DEF Outward
  <1>3. CASE ApplyResourceBudget
    BY <1>3 DEF ApplyResourceBudget, Outward, Proceeds, Working, Phases, Continue, analysis
  <1>4. CASE ParseFrame
    <2>1. phase = "frame" /\ UNCHANGED <<invocation, outputs, result>> /\ UNCHANGED poolVars
      BY <1>4 DEF ParseFrame, Unread, analysis
    <2>2. Exit(1, {"frame"}) \/ Continue("frame")
      BY <1>4 DEF ParseFrame
    <2>3. Leaves(1, {"frame"}) \/ Proceeds
      BY <2>1, <2>2 DEF Leaves, Proceeds, Continue, Working, Phases
    <2>4. QED
      BY <2>1, <2>3, LeavingIsOutward DEF Outward
  <1>5. CASE ReadReference
    <2>1. phase = "frame" /\ UNCHANGED <<invocation, outputs, result>> /\ UNCHANGED poolVars
      BY <1>5 DEF ReadReference, AllRead, Unread, analysis
    <2>2. Exit(1, {"reference"}) \/ Continue("frame")
      BY <1>5 DEF ReadReference
    <2>3. Leaves(1, {"reference"}) \/ Proceeds
      BY <2>1, <2>2 DEF Leaves, Proceeds, Continue, Working, Phases
    <2>4. QED
      BY <2>1, <2>3, LeavingIsOutward DEF Outward
  <1>6. CASE FramesReady
    BY <1>6 DEF FramesReady, AllRead, Outward, Proceeds, Working, Phases, Continue
  <1>7. QED
    BY <1>1, <1>2, <1>3, <1>4, <1>5, <1>6

LEMMA AnalysisActions ==
  ASSUME ReadOptions \/ PrepareAnalysisInput \/ UseProperties \/ UsePool \/ Fails \/ BeginOutputs \/ StagingFails \/ Return
  PROVE  Outward
  <1> USE DEF Outward, Proceeds, Concludes, Working, Phases, Returns, Given, outputs
  <1>1. CASE ReadOptions
    BY <1>1 DEF ReadOptions
  <1>2. CASE PrepareAnalysisInput
    BY <1>2 DEF PrepareAnalysisInput
  <1>3. CASE UseProperties
    BY <1>3 DEF UseProperties, Analysing
  <1>4. CASE UsePool
    BY <1>4 DEF UsePool, Analysing
  <1>5. CASE Fails
    BY <1>5 DEF Fails, Analysing
  <1>6. CASE BeginOutputs
    BY <1>6 DEF BeginOutputs
  <1>7. CASE StagingFails
    BY <1>7 DEF StagingFails
  <1>8. CASE Return
    BY <1>8 DEF Return
  <1>9. QED
    BY <1>1, <1>2, <1>3, <1>4, <1>5, <1>6, <1>7, <1>8

-----------------------------------------------------------------------------
(* The exit code *)

LEMMA CodesDiffer == 0 # 1 /\ 0 # Aborted /\ 1 # Aborted
  BY DEF Aborted

LEMMA OutwardControl == ControlInv /\ Outward => ControlInv'
  <1> SUFFICES ASSUME ControlInv, Outward PROVE ControlInv'
    OBVIOUS
  <1>1. /\ phase \in Working
        /\ failures = {} /\ reported = FALSE /\ exitCode = 0 /\ result = "none"
    BY DEF Outward, Proceeds, Concludes, Leaves, ControlInv
  <1>2. CASE Proceeds
    BY <1>1, <1>2 DEF Proceeds, ControlInv, Working, Finishing, Phases
  <1>3. CASE Concludes
    BY <1>1, <1>3 DEF Concludes, ControlInv, ResultAgrees, Working, Finishing, Phases
  <1>4. ASSUME NEW code \in {0, 1}, NEW failed \in SUBSET {"usage", "frame", "reference"}, Leaves(code, failed)
        PROVE  ControlInv'
    <2>1. phase' = "ended" /\ exitCode' = code /\ failures' = failed /\ reported' = (failed # {}) /\ result' = "none"
      BY <1>1, <1>4 DEF Leaves, Exit
    <2>2. (code = 0 <=> failed = {}) /\ code \in {0, 1}
      BY <1>4 DEF Leaves
    <2>3. (exitCode' = 0 <=> failures' = {}) /\ exitCode' # Aborted
      BY <2>1, <2>2 DEF Aborted
    <2>4. exitCode' = 1 <=> reported'
      <3>1. code = 1 <=> failed # {}
        BY <2>2, CodesDiffer, Zenon
      <3>2. QED
        BY <2>1, <3>1, Zenon
    <2>5. ExitAgrees'
      BY <2>3, <2>4 DEF ExitAgrees
    <2>6. QED
      BY <2>1, <2>5 DEF ControlInv, Working, Finishing, Phases
  <1>5. QED
    BY <1>2, <1>3, <1>4 DEF Outward

LEMMA WriteOutputControl == ControlInv /\ WriteOutput => ControlInv'
  BY DEF WriteOutput, Given, ControlInv, ExitAgrees, ResultAgrees, Working, Finishing, Phases

LEMMA CopyFailsControl ==
  ASSUME NEW left \in {"none", "partial"}, ControlInv, CopyFails(left)
  PROVE  ControlInv'
  <1>1. /\ phase = "outputs" /\ phase' = "unwinding" /\ result' = "threw"
        /\ failures' = failures \cup {"output"} /\ reported' = reported /\ exitCode' = exitCode
    BY DEF CopyFails, Returns
  <1>2. QED
    BY <1>1 DEF ControlInv, ResultAgrees, Working, Finishing, Phases

LEMMA UnwindControl == ControlInv /\ Unwind => ControlInv'
  <1> SUFFICES ASSUME ControlInv, Unwind PROVE ControlInv'
    OBVIOUS
  <1>1. /\ phase = "unwinding" /\ phase' = "report" /\ UNCHANGED <<failures, reported, exitCode, result>>
    BY DEF Unwind, Given
  <1>2. ResultAgrees /\ reported = FALSE /\ exitCode = 0
    BY <1>1 DEF ControlInv, Finishing
  <1>3. ResultAgrees'
    BY <1>1, <1>2 DEF ResultAgrees
  <1>4. QED
    BY <1>1, <1>2, <1>3 DEF ControlInv, Working, Finishing, Phases

LEMMA ReportFailureControl == ControlInv /\ ReportFailure => ControlInv'
  <1> SUFFICES ASSUME ControlInv, ReportFailure PROVE ControlInv'
    OBVIOUS
  <1>1. /\ phase' = "ended" /\ result' = result /\ failures' = failures
        /\ reported' = Failure
    BY DEF ReportFailure
  <1>2. /\ exitCode' = 0 <=> result = "object"
        /\ exitCode' = 1 <=> Failure
        /\ exitCode' = Aborted <=> result = "malformed"
    <2>1. exitCode' = IF result = "malformed" THEN Aborted ELSE IF Failure THEN 1 ELSE 0
      BY DEF ReportFailure
    <2>2. ResultAgrees
      BY DEF ReportFailure, ControlInv, Finishing
    <2>3. QED
      BY <2>1, <2>2, CodesDiffer, Zenon DEF Failure, ResultAgrees
  <1>3. /\ failures = {} <=> result = "object"
        /\ result = "malformed" => failures = {"result"}
    BY DEF ResultAgrees, ReportFailure, ControlInv, Finishing
  <1>4. ExitAgrees' /\ (result' = "threw" => exitCode' # 0)
    BY <1>1, <1>2, <1>3, Zenon DEF ExitAgrees
  <1>5. QED
    BY <1>1, <1>4 DEF ControlInv, Working, Finishing, Phases, ExitAgrees

LEMMA ControlStutters == ControlInv /\ UNCHANGED control => ControlInv'
  <1> SUFFICES ASSUME ControlInv, UNCHANGED control PROVE ControlInv'
    OBVIOUS
  <1>1. /\ phase' = phase /\ failures' = failures /\ reported' = reported
        /\ exitCode' = exitCode /\ result' = result
    BY DEF control
  <1>2. (ExitAgrees' <=> ExitAgrees) /\ (ResultAgrees' <=> ResultAgrees)
    BY <1>1 DEF ExitAgrees, ResultAgrees
  <1>3. QED
    BY <1>1, <1>2 DEF ControlInv

LEMMA ControlInductive == ControlInv /\ [Next]_vars => ControlInv'
  <1> SUFFICES ASSUME ControlInv, [Next]_vars PROVE ControlInv'
    OBVIOUS
  <1>1. CASE \/ Start \/ HandleIntrospection \/ ApplyResourceBudget \/ ParseFrame \/ ReadReference \/ FramesReady
    BY <1>1, EarlyActions, OutwardControl
  <1>2. CASE \/ ReadOptions \/ PrepareAnalysisInput \/ UseProperties \/ UsePool \/ Fails \/ BeginOutputs
             \/ StagingFails \/ Return
    BY <1>2, AnalysisActions, OutwardControl
  <1>3. CASE WriteOutput
    BY <1>3, WriteOutputControl
  <1>4. CASE \E left \in {"none", "partial"} : CopyFails(left)
    BY <1>4, CopyFailsControl
  <1>5. CASE Unwind
    BY <1>5, UnwindControl
  <1>6. CASE ReportFailure
    BY <1>6, ReportFailureControl
  <1>7. CASE Ended \/ UNCHANGED vars
    BY <1>7, ControlStutters DEF Ended, vars, outcome, control
  <1>8. QED
    BY <1>1, <1>2, <1>3, <1>4, <1>5, <1>6, <1>7 DEF Next

LEMMA ControlInvHolds == Spec => []ControlInv
  <1>1. Init => ControlInv
    BY DEF Init, ControlInv, Working, Finishing, Phases
  <1>2. QED
    BY <1>1, ControlInductive, PTL DEF Spec

(* For any command line, dumps, machine and analysis, whatever fails and wherever: the    *)
(* exit code is zero exactly if nothing has failed, and one exactly if the user was told. *)
THEOREM ExitCodeAgrees == Spec => []ExitAgrees
  <1>1. ControlInv => ExitAgrees
    BY DEF ControlInv, ExitAgrees
  <1>2. QED
    BY <1>1, ControlInvHolds, PTL

-----------------------------------------------------------------------------
(* The files *)

LEMMA AskedOnce ==
  ASSUME invocation \in Invocations
  PROVE  Len(Asked) \in Nat /\ DOMAIN Asked = 1..Len(Asked)
           /\ \A m, n \in DOMAIN Asked : Asked[m] = Asked[n] => m = n
  BY InvocationsAssumption DEF Asked, IsInjective

\* A step that writes nothing keeps the files, as long as it does not hide a damaged one.
LEMMA FilesKept ==
  ASSUME FilesInv, UNCHANGED <<outputs, invocation>>,
         result = "threw" => result' = "threw",
         phase' \notin Working /\ result' = "object" => written = Len(Asked)
  PROVE  FilesInv'
  <1>1. written' = written /\ files' = files /\ invocation' = invocation /\ Asked' = Asked
    BY DEF outputs, Asked
  <1>2. \A n \in DOMAIN Asked :
          /\ files[Asked[n]] = "new" <=> n <= written
          /\ files[Asked[n]] = "partial" => n = written + 1 /\ result' = "threw"
    BY DEF FilesInv
  <1>3. QED
    BY <1>1, <1>2 DEF FilesInv

LEMMA OutwardFiles == FilesInv /\ ControlInv /\ Outward => FilesInv'
  <1> SUFFICES ASSUME FilesInv, ControlInv, Outward PROVE FilesInv'
    OBVIOUS
  <1>1. UNCHANGED <<outputs, invocation>> /\ result = "none"
    BY DEF Outward, Proceeds, Concludes, Leaves, ControlInv
  <1>2. phase' \notin Working /\ result' = "object" => written = Len(Asked)
    <2>1. CASE Proceeds \/ \E code \in {0, 1}, failed \in SUBSET {"usage", "frame", "reference"} : Leaves(code, failed)
      BY <1>1, <2>1 DEF Proceeds, Leaves
    <2>2. CASE Concludes
      BY <2>2 DEF Concludes
    <2>3. QED
      BY <2>1, <2>2 DEF Outward
  <1>3. QED
    BY <1>1, <1>2, FilesKept

LEMMA WriteOutputFiles == FilesInv /\ ControlInv /\ WriteOutput => FilesInv'
  <1> SUFFICES ASSUME FilesInv, ControlInv, WriteOutput PROVE FilesInv'
    OBVIOUS
  <1> DEFINE next == written + 1
  <1>1. /\ phase \in Working /\ phase' = phase /\ invocation' = invocation /\ Asked' = Asked
        /\ result = "none" /\ result' = result
        /\ written' = next /\ files' = [files EXCEPT ![Asked[next]] = "new"]
    BY DEF WriteOutput, Given, ControlInv, Working, Phases, Asked
  <1>2. written \in Nat /\ Len(Asked) \in Nat /\ next \in 1..Len(Asked) /\ DOMAIN Asked = 1..Len(Asked)
    <2>1. Len(Asked) \in Nat /\ DOMAIN Asked = 1..Len(Asked)
      BY AskedOnce DEF FilesInv
    <2>2. written \in 0..Len(Asked) /\ written < Len(Asked)
      BY DEF FilesInv, WriteOutput
    <2>3. QED
      BY <2>1, <2>2
  <1>3. files' \in [Range(Asked) -> Holds]
    BY <1>1, <1>2 DEF FilesInv, Holds
  <1>4. ASSUME NEW n \in DOMAIN Asked
        PROVE  (files'[Asked[n]] = "new" <=> n <= next) /\ files'[Asked[n]] # "partial"
    <2>1. Asked[n] \in Range(Asked) /\ Asked[next] \in Range(Asked)
      BY <1>2, <1>4 DEF Range
    <2>2. CASE n = next
      BY <1>1, <1>2, <2>1, <2>2 DEF FilesInv
    <2>3. CASE n # next
      <3>1. Asked[n] # Asked[next]
        BY <1>2, <2>3, AskedOnce DEF FilesInv
      <3>2. files'[Asked[n]] = files[Asked[n]]
        BY <1>1, <2>1, <3>1 DEF FilesInv
      <3>3. (files[Asked[n]] = "new" <=> n <= written) /\ files[Asked[n]] # "partial"
        BY <1>1, <1>4 DEF FilesInv
      <3>4. QED
        BY <1>2, <2>3, <3>2, <3>3
    <2>4. QED
      BY <2>2, <2>3
  <1>5. QED
    BY <1>1, <1>2, <1>3, <1>4 DEF FilesInv

LEMMA CopyFailsFiles ==
  ASSUME NEW left \in {"none", "partial"}, FilesInv, ControlInv, CopyFails(left)
  PROVE  FilesInv'
  <1> DEFINE next == written + 1
  <1>1. /\ invocation' = invocation /\ Asked' = Asked /\ result = "none" /\ result' = "threw"
        /\ written' = written /\ files' = [files EXCEPT ![Asked[next]] = left]
    BY DEF CopyFails, Returns, ControlInv, Working, Phases, Asked
  <1>2. written \in Nat /\ Len(Asked) \in Nat /\ next \in 1..Len(Asked) /\ DOMAIN Asked = 1..Len(Asked)
    <2>1. Len(Asked) \in Nat /\ DOMAIN Asked = 1..Len(Asked)
      BY AskedOnce DEF FilesInv
    <2>2. written \in 0..Len(Asked) /\ written < Len(Asked)
      BY DEF FilesInv, CopyFails
    <2>3. QED
      BY <2>1, <2>2
  <1>3. files' \in [Range(Asked) -> Holds]
    BY <1>1, <1>2 DEF FilesInv, Holds
  <1>4. ASSUME NEW n \in DOMAIN Asked
        PROVE  (files'[Asked[n]] = "new" <=> n <= written) /\ (files'[Asked[n]] = "partial" => n = next)
    <2>1. Asked[n] \in Range(Asked) /\ Asked[next] \in Range(Asked)
      BY <1>2, <1>4 DEF Range
    <2>2. CASE n = next
      BY <1>1, <1>2, <2>1, <2>2 DEF FilesInv
    <2>3. CASE n # next
      <3>1. Asked[n] # Asked[next]
        BY <1>2, <2>3, AskedOnce DEF FilesInv
      <3>2. files'[Asked[n]] = files[Asked[n]]
        BY <1>1, <2>1, <3>1 DEF FilesInv
      <3>3. (files[Asked[n]] = "new" <=> n <= written) /\ files[Asked[n]] # "partial"
        BY <1>1, <1>4 DEF FilesInv
      <3>4. QED
        BY <3>2, <3>3
    <2>4. QED
      BY <2>2, <2>3
  <1>5. QED
    BY <1>1, <1>2, <1>3, <1>4 DEF FilesInv

LEMMA FilesInductive == FilesInv /\ ControlInv /\ [Next]_vars => FilesInv'
  <1> SUFFICES ASSUME FilesInv, ControlInv, [Next]_vars PROVE FilesInv'
    OBVIOUS
  <1>1. CASE \/ Start \/ HandleIntrospection \/ ApplyResourceBudget \/ ParseFrame \/ ReadReference \/ FramesReady
    BY <1>1, EarlyActions, OutwardFiles
  <1>2. CASE \/ ReadOptions \/ PrepareAnalysisInput \/ UseProperties \/ UsePool \/ Fails \/ BeginOutputs
             \/ StagingFails \/ Return
    BY <1>2, AnalysisActions, OutwardFiles
  <1>3. CASE WriteOutput
    BY <1>3, WriteOutputFiles
  <1>4. CASE \E left \in {"none", "partial"} : CopyFails(left)
    BY <1>4, CopyFailsFiles
  <1>5. CASE Unwind \/ ReportFailure
    <2>1. phase \notin Working /\ UNCHANGED <<outputs, invocation>> /\ result' = result
      BY <1>5 DEF Unwind, ReportFailure, Given, Working, Phases
    <2>2. result = "object" => written = Len(Asked)
      BY <2>1 DEF FilesInv
    <2>3. QED
      BY <2>1, <2>2, FilesKept
  <1>6. CASE Ended \/ UNCHANGED vars
    <2>1. UNCHANGED <<outputs, invocation, result, phase>>
      BY <1>6 DEF Ended, vars, outcome
    <2>2. phase' \notin Working /\ result' = "object" => written = Len(Asked)
      BY <2>1 DEF FilesInv
    <2>3. QED
      BY <2>1, <2>2, FilesKept
  <1>7. QED
    BY <1>1, <1>2, <1>3, <1>4, <1>5, <1>6 DEF Next

LEMMA FilesInvHolds == Spec => []FilesInv
  <1>1. Init => FilesInv
    <2> SUFFICES ASSUME Init PROVE FilesInv
      OBVIOUS
    <2>1. PICK before \in {"none", "old"} : files = [f \in Range(Asked) |-> before]
      BY DEF Init
    <2>2. written = 0 /\ invocation \in Invocations /\ phase = "start" /\ result = "none"
      BY DEF Init
    <2>3. Len(Asked) \in Nat /\ DOMAIN Asked = 1..Len(Asked)
      BY <2>2, AskedOnce
    <2>4. \A n \in DOMAIN Asked : files[Asked[n]] = before
      BY <2>1 DEF Range
    <2>5. QED
      BY <2>1, <2>2, <2>3, <2>4 DEF FilesInv, Holds
  <1>2. QED
    BY <1>1, FilesInductive, ControlInvHolds, PTL DEF Spec

(* However the run ends, what it wrote is the first outputs asked for, at most the next     *)
(* one is damaged, and then the exit code says so; a run that ends well has written all.    *)
THEOREM OutputsInOrder == Spec => []OutputsComplete
  <1>1. FilesInv /\ ControlInv => OutputsComplete
    <2> SUFFICES ASSUME FilesInv, ControlInv PROVE OutputsComplete
      OBVIOUS
    <2>1. phase = "ended" /\ result = "threw" => exitCode # 0
      BY DEF ControlInv
    <2>2. QED
      BY <2>1 DEF FilesInv, OutputsComplete, Working
  <1>2. QED
    BY <1>1, FilesInvHolds, ControlInvHolds, PTL

-----------------------------------------------------------------------------
(* The pools of the analysis *)

(* Whatever the analysis does, and however the run unwinds, it uses its pool as a pool is   *)
(* used: the run implements the pool's specification.                                       *)
THEOREM PoolOfRun == Spec => PoolSpec
  <1>1. Init => PoolInit
    BY DEF Init
  <1>2. [Next]_vars => [PoolNext]_poolVars
    <2> SUFFICES ASSUME [Next]_vars PROVE [PoolNext]_poolVars
      OBVIOUS
    <2>1. CASE \/ Start \/ HandleIntrospection \/ ApplyResourceBudget \/ ParseFrame \/ ReadReference \/ FramesReady
      BY <2>1, EarlyActions
    <2>2. CASE ReadOptions \/ BeginOutputs \/ StagingFails \/ Return
      BY <2>2 DEF ReadOptions, BeginOutputs, StagingFails, Return, analysis
    <2>3. CASE PrepareAnalysisInput \/ UseProperties
      BY <2>3 DEF PrepareAnalysisInput, UseProperties
    <2>4. CASE UsePool \/ Fails
      BY <2>4 DEF UsePool, Fails, PoolNext
    <2>5. CASE WriteOutput \/ \E left \in {"none", "partial"} : CopyFails(left)
      BY <2>5 DEF WriteOutput, CopyFails, analysis
    <2>6. CASE Unwind
      BY <2>6 DEF Unwind, PoolNext
    <2>7. CASE ReportFailure \/ Ended \/ UNCHANGED vars
      BY <2>7 DEF ReportFailure, Ended, vars, analysis
    <2>8. QED
      BY <2>1, <2>2, <2>3, <2>4, <2>5, <2>6, <2>7 DEF Next
  <1>3. QED
    BY <1>1, <1>2, PTL DEF Spec, PoolSpec

(* In every run clear() and the end of the analysis destroy each object of a pool once.     *)
THEOREM RunDestroysOnce == Spec => []PoolDestroysOnce
  BY PoolOfRun, DestroysOnce, PTL

-----------------------------------------------------------------------------
(* The frames and the budget *)

Begun  == {"start", "introspection", "budget"}
Loaded == {"options", "input", "analysis", "outputs", "unwinding", "report"}

\* The frames read so far are those listed, in their order; the reference comes after them.
FramesInv ==
  /\ invocation \in Invocations
  /\ frames \in Seq(Range(Dumps)) /\ refFrame \in Seq(Range(Dumps))
  /\ Len(frames) <= Len(FrameFiles)
  /\ \A n \in DOMAIN frames : frames[n] = Dumps[FrameFiles[n]]
  /\ phase \in Begun => frames = <<>> /\ refFrame = <<>>
  /\ refFrame # <<>> =>
       ReferenceAsked /\ Len(frames) = Len(FrameFiles) /\ refFrame[1].natoms = frames[1].natoms
  /\ phase \in Loaded =>
       /\ Len(frames) = Len(FrameFiles) /\ primaryIndex = PrimaryOf(Len(frames))
       /\ ReferenceAsked => refFrame # <<>>

BudgetInv ==
  /\ arena \in NoArena..Machine.nodes - 1 /\ workers \in Nat
  /\ arena # NoArena => GetString("--numa", "off") = "auto"
  /\ phase \in Begun => arena = NoArena
  /\ phase \in {"frame"} \cup Loaded => workers # 0

FilesAreListed == Len(FrameFiles) \in Nat \ {0} /\ DOMAIN FrameFiles = 1..Len(FrameFiles)

\* At least one file is read: a list of none stands for the file named first.
LEMMA FilesListed == FilesAreListed
  <1>1. ASSUME NEW raw
        PROVE  /\ Len(Split(raw)) \in Nat /\ DOMAIN Split(raw) = 1..Len(Split(raw))
               /\ Split(raw) # <<>> => Len(Split(raw)) # 0
    <2>1. CASE raw \in DOMAIN Lists
      <3>1. Split(raw) = Lists[raw] /\ Lists[raw] \in Seq(STRING)
        BY <2>1, WordsAssumption DEF Split
      <3>2. QED
        BY <3>1
    <2>2. CASE raw \notin DOMAIN Lists
      <3>1. Split(raw) \in {<<>>, <<raw>>}
        BY <2>2 DEF Split
      <3>2. QED
        BY <3>1
    <2>3. QED
      BY <2>1, <2>2
  <1>2. FrameFiles = <<filename>> \/ (FrameFiles = Split(GetString("--frames", Unset)) /\ FrameFiles # <<>>)
    BY DEF FrameFiles
  <1>3. CASE FrameFiles = <<filename>>
    BY <1>3 DEF FilesAreListed
  <1>4. CASE FrameFiles = Split(GetString("--frames", Unset)) /\ FrameFiles # <<>>
    <2>1. /\ Len(Split(GetString("--frames", Unset))) \in Nat \ {0}
          /\ DOMAIN Split(GetString("--frames", Unset)) = 1..Len(Split(GetString("--frames", Unset)))
      BY <1>1, <1>4
    <2>2. QED
      BY <1>4, <2>1 DEF FilesAreListed
  <1>5. QED
    BY <1>2, <1>3, <1>4

LEMMA PrimaryExists ==
  ASSUME NEW n \in Nat \ {0}
  PROVE  /\ PrimaryOf(n) \in 1..n
         /\ ~invocation.multiFrame => PrimaryOf(n) = 1
         /\ invocation.multiFrame /\ GetInt("--primary", 0) \in 0..n - 1 => PrimaryOf(n) = GetInt("--primary", 0) + 1
  <1>1. GetInt("--primary", 0) \in Int
    BY WordsAssumption DEF GetInt
  <1>2. QED
    BY <1>1 DEF PrimaryOf, Greatest

FrameTyped == primaryIndex \in DOMAIN frames /\ Frame \in [natoms : Nat, rows : Nat, cellIsValid : BOOLEAN]

LEMMA FrameIsDump == FramesInv /\ phase \in Loaded => FrameTyped
  <1> SUFFICES ASSUME FramesInv, phase \in Loaded PROVE FrameTyped
    OBVIOUS
  <1>1. primaryIndex \in 1..Len(frames)
    BY FilesListed, PrimaryExists DEF FramesInv, FilesAreListed
  <1>2. Frame \in Range(Dumps)
    BY <1>1 DEF FramesInv, Frame
  <1>3. QED
    BY <1>1, <1>2, DumpsAssumption DEF FramesInv, Range, FrameTyped

LEMMA InputKept ==
  ASSUME FramesInv, BudgetInv, UNCHANGED <<invocation, opts, filename, budget, input>>,
         phase' \in Begun => phase \in Begun,
         phase' \in Loaded => phase \in Loaded,
         phase' = "frame" => phase \in {"frame"} \cup Loaded
  PROVE  FramesInv' /\ BudgetInv'
  <1>1. /\ invocation' = invocation /\ opts' = opts /\ filename' = filename /\ frames' = frames
        /\ refFrame' = refFrame /\ primaryIndex' = primaryIndex /\ workers' = workers /\ arena' = arena
    BY DEF budget, input
  <1>2. /\ FrameFiles' = FrameFiles /\ ReferenceAsked' = ReferenceAsked
        /\ PrimaryOf(Len(frames))' = PrimaryOf(Len(frames))
        /\ GetString("--numa", "off")' = GetString("--numa", "off")
    BY <1>1 DEF FrameFiles, Split, ReferenceAsked, ReferenceFile, PrimaryOf, GetString, GetInt, Has
  <1>3. FramesInv'
    BY <1>1, <1>2 DEF FramesInv
  <1>4. BudgetInv'
    BY <1>1, <1>2 DEF BudgetInv
  <1>5. QED
    BY <1>3, <1>4

LEMMA StartInput == FramesInv /\ BudgetInv /\ Start => FramesInv' /\ BudgetInv'
  <1> SUFFICES ASSUME FramesInv, BudgetInv, Start PROVE FramesInv' /\ BudgetInv'
    OBVIOUS
  <1>1. /\ phase = "start" /\ phase' \in {"introspection", "ended"}
        /\ UNCHANGED <<invocation, workers, arena, frames, refFrame>>
    BY DEF Start, Exit, Rest, budget, input
  <1>2. frames = <<>> /\ refFrame = <<>> /\ arena = NoArena
    BY <1>1 DEF FramesInv, BudgetInv, Begun
  <1>3. FilesAreListed'
    BY FilesListed, PTL
  <1>4. FramesInv'
    BY <1>1, <1>2, <1>3 DEF FramesInv, FilesAreListed, Begun, Loaded
  <1>5. BudgetInv'
    BY <1>1, <1>2 DEF BudgetInv, Begun, Loaded
  <1>6. QED
    BY <1>4, <1>5

LEMMA IntrospectionInput == FramesInv /\ BudgetInv /\ HandleIntrospection => FramesInv' /\ BudgetInv'
  <1> SUFFICES ASSUME FramesInv, BudgetInv, HandleIntrospection PROVE FramesInv' /\ BudgetInv'
    OBVIOUS
  <1>1. /\ phase = "introspection" /\ phase' \in {"budget", "ended"}
        /\ UNCHANGED <<invocation, opts, filename, budget, input>>
    BY DEF HandleIntrospection, Exit, Continue, Rest, arguments
  <1>2. QED
    BY <1>1, InputKept DEF Begun, Loaded

LEMMA BudgetInput == FramesInv /\ BudgetInv /\ ApplyResourceBudget => FramesInv' /\ BudgetInv'
  <1> SUFFICES ASSUME FramesInv, BudgetInv, ApplyResourceBudget PROVE FramesInv' /\ BudgetInv'
    OBVIOUS
  <1>1. /\ phase = "budget" /\ phase' = "frame"
        /\ invocation' = invocation /\ opts' = opts /\ filename' = filename /\ frames' = frames
        /\ refFrame' = refFrame /\ primaryIndex' = primaryIndex
    BY DEF ApplyResourceBudget, Continue, arguments, input
  <1>2. frames = <<>> /\ refFrame = <<>>
    BY <1>1 DEF FramesInv, Begun
  <1>3. FilesAreListed'
    BY FilesListed, PTL
  <1>4. FramesInv'
    BY <1>1, <1>2, <1>3 DEF FramesInv, FilesAreListed, Begun, Loaded
  <1>5. workers' \in Nat \ {0}
    <2>1. Machine.cores \in Nat
      BY MachineAssumption
    <2>2. GetInt("--threads", Greatest(1, Machine.cores)) \in Int
      BY <2>1, WordsAssumption DEF GetInt, Greatest
    <2>3. QED
      BY <2>1, <2>2 DEF ApplyResourceBudget, ThreadBudget, Greatest
  <1>6. arena' \in NoArena..Machine.nodes - 1
    <2>1. Machine.nodes \in Nat /\ Machine.pid \in Nat
      BY MachineAssumption
    <2>2. BoundNode \in NoArena..Machine.nodes - 1
      BY <2>1 DEF BoundNode, NoArena
    <2>3. QED
      BY <2>1, <2>2 DEF ApplyResourceBudget, NoArena
  <1>7. arena' # NoArena => GetString("--numa", "off")' = "auto"
    BY <1>1 DEF ApplyResourceBudget, GetString, Has
  <1>8. BudgetInv'
    BY <1>1, <1>5, <1>6, <1>7 DEF BudgetInv, Begun, Loaded
  <1>9. QED
    BY <1>4, <1>8

LEMMA ParseFrameInput == FramesInv /\ BudgetInv /\ ParseFrame => FramesInv' /\ BudgetInv'
  <1> SUFFICES ASSUME FramesInv, BudgetInv, ParseFrame PROVE FramesInv' /\ BudgetInv'
    OBVIOUS
  <1> DEFINE next == Len(frames) + 1
             file == FrameFiles[next]
  <1>1. /\ phase = "frame" /\ Len(frames) < Len(FrameFiles)
        /\ invocation' = invocation /\ opts' = opts /\ filename' = filename
        /\ refFrame' = refFrame /\ primaryIndex' = primaryIndex /\ UNCHANGED budget
    BY DEF ParseFrame, Unread, arguments
  <1>2. CASE file \notin DOMAIN Dumps
    <2>1. phase' = "ended" /\ frames' = frames
      BY <1>2 DEF ParseFrame, Exit
    <2>2. UNCHANGED <<invocation, opts, filename, budget, input>>
      BY <1>1, <2>1 DEF input
    <2>3. QED
      BY <2>1, <2>2, InputKept DEF Begun, Loaded
  <1>3. CASE file \in DOMAIN Dumps
    <2>1. phase' = "frame" /\ frames' = Append(frames, Dumps[file])
      BY <1>3 DEF ParseFrame, Continue
    <2>2. FrameFiles' = FrameFiles /\ ReferenceAsked' = ReferenceAsked
      BY <1>1 DEF FrameFiles, Split, ReferenceAsked, ReferenceFile, GetString, Has
    <2>3. refFrame = <<>>
      BY <1>1, FilesListed DEF FramesInv, FilesAreListed
    <2>4. frames \in Seq(Range(Dumps)) /\ Dumps[file] \in Range(Dumps) /\ Len(FrameFiles) \in Nat
      BY <1>3, FilesListed DEF FramesInv, Range, FilesAreListed
    <2>5. frames' \in Seq(Range(Dumps)) /\ Len(frames') <= Len(FrameFiles)
      BY <1>1, <2>1, <2>4
    <2>6. \A n \in DOMAIN frames' : frames'[n] = Dumps[FrameFiles[n]]
      <3>1. SUFFICES ASSUME NEW n \in 1..Len(frames) + 1
                     PROVE  Append(frames, Dumps[file])[n] = Dumps[FrameFiles[n]]
        BY <2>1, <2>4
      <3>2. CASE n = next
        BY <2>4, <3>2
      <3>3. CASE n # next
        <4>1. n \in DOMAIN frames /\ Append(frames, Dumps[file])[n] = frames[n]
          BY <2>4, <3>3
        <4>2. QED
          BY <4>1 DEF FramesInv
      <3>4. QED
        BY <3>2, <3>3
    <2>7. FramesInv'
      BY <1>1, <2>1, <2>2, <2>3, <2>5, <2>6 DEF FramesInv, Begun, Loaded
    <2>8. BudgetInv'
      BY <1>1, <2>1 DEF BudgetInv, Begun, Loaded, budget, GetString, Has
    <2>9. QED
      BY <2>7, <2>8
  <1>4. QED
    BY <1>2, <1>3

LEMMA ReferenceInput == FramesInv /\ BudgetInv /\ ReadReference => FramesInv' /\ BudgetInv'
  <1> SUFFICES ASSUME FramesInv, BudgetInv, ReadReference PROVE FramesInv' /\ BudgetInv'
    OBVIOUS
  <1> DEFINE reference == Dumps[ReferenceFile]
  <1>1. /\ phase = "frame" /\ Len(frames) = Len(FrameFiles) /\ ReferenceAsked /\ refFrame = <<>>
        /\ invocation' = invocation /\ opts' = opts /\ filename' = filename
        /\ frames' = frames /\ primaryIndex' = primaryIndex /\ UNCHANGED budget
    BY DEF ReadReference, AllRead, Unread, arguments
  <1>2. CASE ReferenceFile \in DOMAIN Dumps /\ ReferenceFits(reference)
    <2>1. phase' = "frame" /\ refFrame' = <<reference>>
      BY <1>2 DEF ReadReference, Continue
    <2>2. FrameFiles' = FrameFiles /\ ReferenceAsked' = ReferenceAsked
      BY <1>1 DEF FrameFiles, Split, ReferenceAsked, ReferenceFile, GetString, Has
    <2>3. reference \in Range(Dumps) /\ reference.natoms = frames[1].natoms
      BY <1>2 DEF ReferenceFits, Range
    <2>4. refFrame' \in Seq(Range(Dumps)) /\ refFrame'[1] = reference
      BY <2>1, <2>3
    <2>5. FramesInv'
      BY <1>1, <2>1, <2>2, <2>3, <2>4 DEF FramesInv, Begun, Loaded
    <2>6. BudgetInv'
      BY <1>1, <2>1 DEF BudgetInv, Begun, Loaded, budget, GetString, Has
    <2>7. QED
      BY <2>5, <2>6
  <1>3. CASE ~(ReferenceFile \in DOMAIN Dumps /\ ReferenceFits(reference))
    <2>1. phase' = "ended" /\ refFrame' = refFrame
      BY <1>3 DEF ReadReference, Exit
    <2>2. UNCHANGED <<invocation, opts, filename, budget, input>>
      BY <1>1, <2>1 DEF input
    <2>3. QED
      BY <2>1, <2>2, InputKept DEF Begun, Loaded
  <1>4. QED
    BY <1>2, <1>3

LEMMA ReadyInput == FramesInv /\ BudgetInv /\ FramesReady => FramesInv' /\ BudgetInv'
  <1> SUFFICES ASSUME FramesInv, BudgetInv, FramesReady PROVE FramesInv' /\ BudgetInv'
    OBVIOUS
  <1>1. /\ phase = "frame" /\ phase' = "options" /\ Len(frames) = Len(FrameFiles)
        /\ ReferenceAsked => refFrame # <<>>
        /\ primaryIndex' = PrimaryOf(Len(frames))
        /\ invocation' = invocation /\ opts' = opts /\ filename' = filename
        /\ frames' = frames /\ refFrame' = refFrame /\ UNCHANGED budget
    BY DEF FramesReady, AllRead, Continue
  <1>2. /\ FrameFiles' = FrameFiles /\ ReferenceAsked' = ReferenceAsked
        /\ PrimaryOf(Len(frames))' = PrimaryOf(Len(frames))
    BY <1>1 DEF FrameFiles, Split, ReferenceAsked, ReferenceFile, PrimaryOf, GetString, GetInt, Has
  <1>3. FramesInv'
    BY <1>1, <1>2 DEF FramesInv, Begun, Loaded
  <1>4. BudgetInv'
    BY <1>1 DEF BudgetInv, Begun, Loaded, budget, GetString, Has
  <1>5. QED
    BY <1>3, <1>4

\* Once the frames are ready, nobody changes what was asked for.
LEMMA LateActions ==
  ASSUME \/ ReadOptions \/ PrepareAnalysisInput \/ UseProperties \/ UsePool \/ Fails \/ BeginOutputs
         \/ WriteOutput \/ StagingFails \/ Return \/ (\E left \in {"none", "partial"} : CopyFails(left))
         \/ Unwind \/ ReportFailure
  PROVE  /\ phase \in Loaded /\ phase' \in Loaded \cup {"ended"}
         /\ UNCHANGED <<invocation, arguments, budget, input>>
  <1> USE DEF Given, Returns, Analysing, Loaded
  <1>1. CASE ReadOptions
    BY <1>1 DEF ReadOptions
  <1>2. CASE PrepareAnalysisInput
    BY <1>2 DEF PrepareAnalysisInput
  <1>3. CASE UseProperties \/ UsePool \/ Fails
    BY <1>3 DEF UseProperties, UsePool, Fails
  <1>4. CASE BeginOutputs \/ WriteOutput \/ StagingFails \/ Return
    BY <1>4 DEF BeginOutputs, WriteOutput, StagingFails, Return
  <1>5. CASE \E left \in {"none", "partial"} : CopyFails(left)
    BY <1>5 DEF CopyFails
  <1>6. CASE Unwind \/ ReportFailure
    BY <1>6 DEF Unwind, ReportFailure
  <1>7. QED
    BY <1>1, <1>2, <1>3, <1>4, <1>5, <1>6

LEMMA InputInductive == FramesInv /\ BudgetInv /\ [Next]_vars => FramesInv' /\ BudgetInv'
  <1> SUFFICES ASSUME FramesInv, BudgetInv, [Next]_vars PROVE FramesInv' /\ BudgetInv'
    OBVIOUS
  <1>1. CASE \/ Start \/ HandleIntrospection \/ ApplyResourceBudget \/ ParseFrame \/ ReadReference \/ FramesReady
    BY <1>1, StartInput, IntrospectionInput, BudgetInput, ParseFrameInput, ReferenceInput, ReadyInput
  <1>2. CASE \/ ReadOptions \/ PrepareAnalysisInput \/ UseProperties \/ UsePool \/ Fails \/ BeginOutputs
             \/ WriteOutput \/ StagingFails \/ Return \/ (\E left \in {"none", "partial"} : CopyFails(left))
             \/ Unwind \/ ReportFailure
    <2>1. phase \in Loaded /\ phase' \in Loaded \cup {"ended"} /\ UNCHANGED <<invocation, arguments, budget, input>>
      BY <1>2, LateActions
    <2>2. QED
      BY <2>1, InputKept DEF Begun, Loaded, arguments
  <1>3. CASE Ended \/ UNCHANGED vars
    <2>1. UNCHANGED <<invocation, phase, opts, filename, budget, input>>
      BY <1>3 DEF Ended, vars, arguments
    <2>2. QED
      BY <2>1, InputKept
  <1>4. QED
    BY <1>1, <1>2, <1>3 DEF Next

LEMMA InputInvHolds == Spec => [](FramesInv /\ BudgetInv)
  <1>1. Init => FramesInv /\ BudgetInv
    <2> SUFFICES ASSUME Init PROVE FramesInv /\ BudgetInv
      OBVIOUS
    <2>1. /\ invocation \in Invocations /\ phase = "start" /\ workers = 0 /\ arena = NoArena
          /\ frames = <<>> /\ refFrame = <<>>
      BY DEF Init
    <2>2. FramesInv
      BY <2>1, FilesListed DEF FramesInv, FilesAreListed, Begun, Loaded
    <2>3. BudgetInv
      BY <2>1, MachineAssumption DEF BudgetInv, NoArena, Begun, Loaded
    <2>4. QED
      BY <2>2, <2>3
  <1>2. QED
    BY <1>1, InputInductive, PTL DEF Spec

-----------------------------------------------------------------------------
(* The properties of the analysis *)

\* They hold their data, on a frame of as many rows as the primary one.
StoredInv ==
  \E rows \in Nat :
    /\ StorageInv(rows)
    /\ phase \in Begun \cup {"frame"} => rows = 0
    /\ phase \in Loaded => rows = Frame.rows

LEMMA StoredFrameReady ==
  ASSUME FramesInv, BudgetInv, StoredInv, FramesReady
  PROVE  StoredInv'
  <1>1. phase = "frame" /\ phase' = "options"
    BY DEF FramesReady, AllRead, Continue
  <1>2. StorageInv(0)
    BY <1>1 DEF StoredInv
  <1>3. PICK rows \in Nat : rows = frames'[primaryIndex'].rows
    <2>1. FramesInv' /\ (phase \in Loaded)'
      BY <1>1, ReadyInput DEF Loaded
    <2>2. FrameTyped'
      BY <2>1, FrameIsDump, PTL
    <2>3. QED
      BY <2>2 DEF Frame, FrameTyped
  <1>4. FrameLoaded([c \in DOMAIN Columns |-> rows])
    BY <1>3 DEF FramesReady
  <1>5. StorageInv(rows)'
    BY <1>2, <1>4, LoadKeeps
  <1>6. QED
    BY <1>1, <1>3, <1>5 DEF StoredInv, Frame, Begun, Loaded

\* The step keeps the storage as it is.
LEMMA StoredKept ==
  ASSUME StoredInv, UNCHANGED storageVars,
         phase' \in Begun \cup {"frame"} => phase \in Begun \cup {"frame"},
         phase' \in Loaded => phase \in Loaded /\ Frame' = Frame
  PROVE  StoredInv'
  BY StorageStutters DEF StoredInv

\* A step of the analysis keeps the storage, and the frame stays the one it was.
LEMMA StoredLate ==
  ASSUME StoredInv, NEW rows \in Nat, rows = Frame.rows, StorageInv(rows)', phase \in Loaded, phase' \in Loaded \cup {"ended"},
         UNCHANGED input
  PROVE  StoredInv'
  BY DEF StoredInv, Frame, input, Begun, Loaded

LEMMA PrepareStored ==
  ASSUME FramesInv, StoredInv, PrepareAnalysisInput
  PROVE  StoredInv'
  <1>1. phase = "input" /\ phase \in Loaded /\ phase' \in Loaded \cup {"ended"} /\ UNCHANGED input
    BY LateActions DEF PrepareAnalysisInput
  <1>2. Frame \in [natoms : Nat, rows : Nat, cellIsValid : BOOLEAN]
    BY <1>1, FrameIsDump DEF FrameTyped
  <1>3. PICK rows \in Nat : rows = Frame.rows /\ StorageInv(rows)
    BY <1>1 DEF StoredInv
  <1>4. CASE InputIsValid
    <2>1. PICK x \in Properties : Bind(x, "positions", Frame.natoms)
      BY <1>4 DEF PrepareAnalysisInput
    <2>2. Frame.natoms \in Nat /\ Frame.natoms <= rows
      BY <1>2, <1>3, <1>4 DEF InputIsValid
    <2>3. StorageInv(rows)'
      BY <1>3, <2>1, <2>2, BindKeeps, PositionsAssumption
    <2>4. QED
      BY <1>1, <1>3, <2>3, StoredLate
  <1>5. CASE ~InputIsValid
    <2>1. UNCHANGED storageVars
      BY <1>5 DEF PrepareAnalysisInput
    <2>2. QED
      BY <1>1, <1>3, <2>1, StorageStutters, StoredLate
  <1>6. QED
    BY <1>4, <1>5

LEMMA UseStored ==
  ASSUME FramesInv, StoredInv, UseProperties
  PROVE  StoredInv'
  <1>1. phase \in Loaded /\ phase' \in Loaded \cup {"ended"} /\ UNCHANGED input
    BY LateActions
  <1>2. Frame \in [natoms : Nat, rows : Nat, cellIsValid : BOOLEAN]
    BY <1>1, FrameIsDump DEF FrameTyped
  <1>3. PICK rows \in Nat : rows = Frame.rows /\ StorageInv(rows)
    BY <1>1 DEF StoredInv
  <1>4. PICK x \in Properties :
          \/ \E n \in Counts, c \in DOMAIN Columns : NewProperty(x, n, Columns[c].type, Columns[c].comps, 0)
          \/ \E y \in Properties \ {x} : CopyProperty(x, y)
          \/ \E n \in Counts, preserveData \in BOOLEAN : Resize(x, n, preserveData)
          \/ \E c \in DOMAIN Columns : FromFrame(x, c)
          \/ \E row \in Components(props[x]) : Put(x, row[1], row[2])
    BY DEF UseProperties
  <1>5. ASSUME NEW n \in Counts, NEW c \in DOMAIN Columns, NewProperty(x, n, Columns[c].type, Columns[c].comps, 0)
        PROVE  StorageInv(rows)'
    <2>1. n \in Nat /\ Columns[c].type \in Types /\ Columns[c].comps \in Nat
      BY CountsAssumption, ColumnSizes
    <2>2. QED
      BY <1>3, <1>5, <2>1, NewKeeps
  <1>6. ASSUME NEW y \in Properties, CopyProperty(x, y)
        PROVE  StorageInv(rows)'
    BY <1>3, <1>6, CopyKeeps
  <1>7. ASSUME NEW n \in Counts, NEW preserveData \in BOOLEAN, Resize(x, n, preserveData)
        PROVE  StorageInv(rows)'
    BY <1>3, <1>7, ResizeKeeps, CountsAssumption
  <1>8. ASSUME NEW c \in DOMAIN Columns, FromFrame(x, c)
        PROVE  StorageInv(rows)'
    <2>1. Frame.natoms \in Nat /\ Frame.natoms <= rows
      BY <1>2, <1>3, <1>8 DEF FromFrame, HasColumn
    <2>2. CASE Bind(x, c, Frame.natoms)
      BY <1>3, <2>1, <2>2, BindKeeps
    <2>3. CASE FillFrom(x, c)
      BY <1>3, <2>3, FillKeeps
    <2>4. QED
      BY <1>8, <2>2, <2>3 DEF FromFrame
  <1>9. ASSUME NEW row \in Components(props[x]), Put(x, row[1], row[2])
        PROVE  StorageInv(rows)'
    <2>1. row[1] \in 0..props[x].n - 1 /\ row[2] \in 0..props[x].comps - 1
      BY DEF Components
    <2>2. QED
      BY <1>3, <1>9, <2>1, PutKeeps
  <1>10. StorageInv(rows)'
    BY <1>4, <1>5, <1>6, <1>7, <1>8, <1>9
  <1>11. QED
    BY <1>1, <1>3, <1>10, StoredLate

LEMMA FailsStored ==
  ASSUME StoredInv, Fails
  PROVE  StoredInv'
  <1>1. phase \in Loaded /\ phase' \in Loaded \cup {"ended"} /\ UNCHANGED input
    BY LateActions
  <1>2. PICK rows \in Nat : rows = Frame.rows /\ StorageInv(rows)
    BY <1>1 DEF StoredInv
  <1>3. CASE UNCHANGED storageVars
    BY <1>1, <1>2, <1>3, StorageStutters, StoredLate
  <1>4. ASSUME NEW x \in Properties, NEW n \in Counts, BindRefused(x, "Void", n, 0)
        PROVE  StoredInv'
    <2>1. "Void" \in Types
      BY DEF Types
    <2>2. StorageInv(rows)'
      BY <1>2, <1>4, <2>1, BindRefusedKeeps
    <2>3. QED
      BY <1>1, <1>2, <2>2, StoredLate
  <1>5. QED
    BY <1>3, <1>4 DEF Fails

LEMMA UnwindStored ==
  ASSUME StoredInv, Unwind
  PROVE  StoredInv'
  <1>1. phase \in Loaded /\ phase' \in Loaded \cup {"ended"} /\ UNCHANGED input
    BY LateActions
  <1>2. PICK rows \in Nat : rows = Frame.rows /\ StorageInv(rows)
    BY <1>1 DEF StoredInv
  <1>3. StorageInv(rows)'
    BY <1>2, DestructionKeeps DEF Unwind
  <1>4. QED
    BY <1>1, <1>2, <1>3, StoredLate

LEMMA StoredInductive == FramesInv /\ BudgetInv /\ StoredInv /\ [Next]_vars => StoredInv'
  <1> SUFFICES ASSUME FramesInv, BudgetInv, StoredInv, [Next]_vars PROVE StoredInv'
    OBVIOUS
  <1>1. CASE Start \/ HandleIntrospection \/ ApplyResourceBudget \/ ParseFrame \/ ReadReference
    <2>1. phase \in Begun \cup {"frame"} /\ phase' \in Begun \cup {"frame", "ended"}
      BY <1>1 DEF Start, HandleIntrospection, ApplyResourceBudget, ParseFrame, ReadReference, AllRead, Exit, Continue,
                  Begun
    <2>2. UNCHANGED storageVars
      BY <1>1 DEF Start, HandleIntrospection, ApplyResourceBudget, ParseFrame, ReadReference, Rest, Unread, analysis
    <2>3. QED
      BY <2>1, <2>2, StoredKept DEF Begun, Loaded
  <1>2. CASE FramesReady
    BY <1>2, StoredFrameReady
  <1>3. CASE PrepareAnalysisInput
    BY <1>3, PrepareStored
  <1>4. CASE UseProperties
    BY <1>4, UseStored
  <1>5. CASE Fails
    BY <1>5, FailsStored
  <1>6. CASE Unwind
    BY <1>6, UnwindStored
  <1>7. CASE \/ ReadOptions \/ UsePool \/ BeginOutputs \/ WriteOutput \/ StagingFails \/ Return
             \/ (\E left \in {"none", "partial"} : CopyFails(left)) \/ ReportFailure
    <2>1. phase \in Loaded /\ phase' \in Loaded \cup {"ended"} /\ UNCHANGED input
      BY <1>7, LateActions
    <2>2. UNCHANGED storageVars
      BY <1>7 DEF ReadOptions, UsePool, BeginOutputs, WriteOutput, StagingFails, Return, CopyFails, ReportFailure, analysis
    <2>3. QED
      BY <2>1, <2>2, StoredKept DEF Begun, Loaded, Frame, input
  <1>8. CASE Ended \/ UNCHANGED vars
    <2>1. UNCHANGED storageVars /\ UNCHANGED input /\ phase' = phase
      BY <1>8 DEF Ended, vars, analysis
    <2>2. QED
      BY <2>1, StoredKept DEF Frame, input
  <1>9. QED
    BY <1>1, <1>2, <1>3, <1>4, <1>5, <1>6, <1>7, <1>8 DEF Next

LEMMA StoredInvHolds == Spec => []StoredInv
  <1>1. Init => StoredInv
    BY StorageInvInit DEF Init, StoredInv, Loaded
  <1>2. QED
    BY <1>1, StoredInductive, InputInvHolds, PTL DEF Spec

(* Whatever an analysis does with properties of its own and with columns of the frame, each *)
(* of their components reads as the value put there last, inside the buffer.                *)
THEOREM RunReadsItsData == Spec => []PropertiesReadTheirData
  <1>1. StoredInv => PropertiesReadTheirData
    BY StorageReads DEF StoredInv
  <1>2. QED
    BY <1>1, StoredInvHolds, PTL

-----------------------------------------------------------------------------
(* What the analysis begins with *)

\* Until the analysis has done something, the positions it was lent are there.
LentInv ==
  /\ steps \in Nat /\ exitCode \in {0, 1, Aborted}
  /\ phase \in {"analysis", "outputs"} /\ steps = 0 =>
       \E x \in Properties : props[x].n = Frame.natoms /\ props[x].ext = "positions"

LEMMA LentInductive == FramesInv /\ StoredInv /\ LentInv /\ [Next]_vars => LentInv'
  <1> SUFFICES ASSUME FramesInv, StoredInv, LentInv, [Next]_vars PROVE LentInv'
    OBVIOUS
  <1>1. ASSUME steps' = steps, exitCode' = exitCode, phase' \notin {"analysis", "outputs"}
        PROVE  LentInv'
    BY <1>1 DEF LentInv
  <1>2. CASE \/ Start \/ HandleIntrospection \/ ApplyResourceBudget \/ ParseFrame \/ ReadReference \/ FramesReady
    <2>1. steps' = steps
      BY <1>2 DEF Start, HandleIntrospection, ApplyResourceBudget, ParseFrame, ReadReference, FramesReady,
                  Rest, Unread, analysis
    <2>2. exitCode' = exitCode \/ exitCode' \in {0, 1}
      BY <1>2 DEF Start, HandleIntrospection, ApplyResourceBudget, ParseFrame, ReadReference, FramesReady,
                  Exit, Continue
    <2>3. phase' \notin {"analysis", "outputs"}
      BY <1>2 DEF Start, HandleIntrospection, ApplyResourceBudget, ParseFrame, ReadReference, FramesReady,
                  Exit, Continue
    <2>4. QED
      BY <2>1, <2>2, <2>3 DEF LentInv
  <1>3. CASE ReadOptions \/ StagingFails \/ Return \/ Unwind \/ \E left \in {"none", "partial"} : CopyFails(left)
    <2>1. steps' = steps /\ exitCode' = exitCode /\ phase' \notin {"analysis", "outputs"}
      BY <1>3 DEF ReadOptions, StagingFails, Return, Unwind, CopyFails, Returns, Given, analysis
    <2>2. QED
      BY <1>1, <2>1
  <1>4. CASE PrepareAnalysisInput
    <2>1. steps' = steps /\ exitCode' = exitCode /\ UNCHANGED input
      BY <1>4 DEF PrepareAnalysisInput, Returns, Given
    <2>2. CASE ~InputIsValid
      BY <1>1, <1>4, <2>1, <2>2 DEF PrepareAnalysisInput, Returns
    <2>3. CASE InputIsValid
      <3>1. PICK x \in Properties : Bind(x, "positions", Frame.natoms)
        BY <1>4, <2>3 DEF PrepareAnalysisInput
      <3>2. DOMAIN props = Properties
        BY DEF StoredInv, StorageInv
      <3>3. props'[x].n = Frame.natoms /\ props'[x].ext = "positions"
        BY <3>1, <3>2 DEF Bind, Become
      <3>4. Frame' = Frame
        BY <2>1 DEF Frame, input
      <3>5. QED
        BY <2>1, <3>3, <3>4 DEF LentInv
    <2>4. QED
      BY <2>2, <2>3
  <1>5. CASE UseProperties \/ UsePool
    <2>1. steps' = steps + 1 /\ exitCode' = exitCode
      BY <1>5 DEF UseProperties, UsePool, Analysing, Given
    <2>2. steps' \in Nat \ {0}
      BY <2>1 DEF LentInv
    <2>3. QED
      BY <2>1, <2>2 DEF LentInv
  <1>6. CASE Fails
    <2>1. steps' = steps + 1 /\ exitCode' = exitCode /\ phase' = "unwinding"
      BY <1>6 DEF Fails, Analysing, Returns
    <2>2. QED
      BY <2>1 DEF LentInv
  <1>7. CASE BeginOutputs \/ WriteOutput \/ Ended \/ UNCHANGED vars
    <2>1. UNCHANGED <<steps, exitCode, props, Frame>> /\ (phase' = phase \/ phase = "analysis")
      BY <1>7 DEF BeginOutputs, WriteOutput, Ended, vars, Given, analysis, storageVars, input, outcome, Frame
    <2>2. QED
      BY <2>1 DEF LentInv
  <1>8. CASE ReportFailure
    <2>1. steps' = steps /\ exitCode' \in {0, 1, Aborted} /\ phase' = "ended"
      BY <1>8 DEF ReportFailure, analysis
    <2>2. QED
      BY <2>1 DEF LentInv
  <1>9. QED
    BY <1>2, <1>3, <1>4, <1>5, <1>6, <1>7, <1>8 DEF Next

LEMMA LentInvHolds == Spec => []LentInv
  <1>1. Init => LentInv
    BY DEF Init, LentInv
  <1>2. QED
    BY <1>1, LentInductive, InputInvHolds, StoredInvHolds, PTL DEF Spec

\* An int that holds the number it is given
LEMMA IntHolds ==
  ASSUME NEW n \in Nat, n < Widths.int \div 2
  PROVE  AsInt(n) = n
  <1>1. Widths.int \in Nat \ {0}
    BY MachineAssumption
  <1>2. PICK half \in Nat : half = Widths.int \div 2 /\ half + half <= Widths.int
    BY <1>1
  <1>3. n + half \in 0..Widths.int - 1
    BY <1>1, <1>2
  <1>4. (n + half) % Widths.int = n + half
    BY <1>1, <1>3
  <1>5. QED
    BY <1>2, <1>4 DEF AsInt

LEMMA BudgetFits == BudgetInv /\ invocation \in Invocations /\ workers # 0 => BudgetInBounds
  <1> SUFFICES ASSUME BudgetInv, invocation \in Invocations, workers # 0, MemoryThreads < Widths.int \div 2
               PROVE  DuckdbThreads \in 1..workers
    BY DEF BudgetInBounds
  <1>1. /\ Widths.size \in Nat \ {0} /\ Widths.mebi \in Nat \ {0} /\ Widths.scanMib \in Nat \ {0}
        /\ Widths.capMib \in Nat \ {0} /\ Widths.assumedMib \in Nat \ {0} /\ Machine.memory \in Nat
    BY MachineAssumption
  <1>2. DuckdbMemoryLimit \in Int
    <2>1. invocation.memoryMb \in Int
      BY InvocationsAssumption
    <2>2. PICK override \in Int : override = MemoryOverride * Widths.mebi
      BY <1>1, <2>1 DEF MemoryOverride, Greatest
    <2>3. AsSize(MemoryOverride * Widths.mebi) \in Int
      BY <1>1, <2>2 DEF AsSize
    <2>4. Machine.memory \div 4 \in Int /\ Widths.assumedMib * Widths.mebi \in Int /\ Widths.capMib * Widths.mebi \in Int
      BY <1>1
    <2>5. QED
      BY <2>3, <2>4 DEF DuckdbMemoryLimit, Least
  <1>3. MemoryThreads \in Nat \ {0}
    <2>1. PICK mib \in Int : mib = DuckdbMemoryLimit \div Widths.mebi
      BY <1>1, <1>2
    <2>2. mib \div Widths.scanMib \in Int
      BY <1>1, <2>1
    <2>3. QED
      BY <2>1, <2>2 DEF MemoryThreads, Greatest
  <1>4. AsInt(MemoryThreads) = MemoryThreads
    BY <1>3, IntHolds
  <1>5. workers \in Nat \ {0}
    BY DEF BudgetInv
  <1>6. QED
    BY <1>3, <1>4, <1>5 DEF DuckdbThreads, Least, Greatest

(* When an analysis begins, it sees the frames listed, in their order, the primary frame    *)
(* and the reference that were asked for, the positions of every atom, and a budget within  *)
(* its types: for any command line, dumps and machine.                                      *)
THEOREM SeesWhatWasAsked == Spec => []RunSeesWhatWasAsked
  <1>1. FramesInv /\ BudgetInv /\ LentInv => RunSeesWhatWasAsked
    <2> SUFFICES ASSUME FramesInv, BudgetInv, LentInv, phase \in {"analysis", "outputs"}
                 PROVE  RunSeesWhatWasAsked
      BY DEF RunSeesWhatWasAsked
    <2>1. phase \in Loaded
      BY DEF Loaded
    <2>2. /\ Len(frames) = Len(FrameFiles) /\ primaryIndex = PrimaryOf(Len(frames))
          /\ ReferenceAsked => refFrame # <<>>
      BY <2>1 DEF FramesInv
    <2>3. Len(FrameFiles) \in Nat \ {0} /\ DOMAIN FrameFiles = 1..Len(FrameFiles)
      BY FilesListed DEF FilesAreListed
    <2>4. frames = [n \in DOMAIN FrameFiles |-> Dumps[FrameFiles[n]]]
      <3>1. frames = [n \in 1..Len(frames) |-> frames[n]]
        BY DEF FramesInv
      <3>2. \A n \in 1..Len(frames) : frames[n] = Dumps[FrameFiles[n]]
        BY DEF FramesInv
      <3>3. QED
        BY <2>2, <2>3, <3>1, <3>2
    <2>5. invocation.multiFrame /\ GetInt("--primary", 0) \in 0..Len(frames) - 1
            => primaryIndex = GetInt("--primary", 0) + 1
      BY <2>2, <2>3, PrimaryExists
    <2>6. ReferenceAsked => refFrame # <<>> /\ refFrame[1].natoms = Frame.natoms
      <3>1. SUFFICES ASSUME ReferenceAsked PROVE refFrame # <<>> /\ refFrame[1].natoms = Frame.natoms
        OBVIOUS
      <3>2. primaryIndex = 1
        BY <2>2, <2>3, <3>1, PrimaryExists DEF ReferenceAsked
      <3>3. QED
        BY <2>2, <3>1, <3>2 DEF FramesInv, Frame
    <2>7. ~ReferenceAsked => refFrame = <<>>
      BY DEF FramesInv
    <2>8. steps = 0 => \E x \in Properties : props[x].n = Frame.natoms /\ props[x].ext = "positions"
      BY DEF LentInv
    <2>9. arena # NoArena => GetString("--numa", "off") = "auto" /\ arena < Machine.nodes
      BY MachineAssumption DEF BudgetInv, NoArena
    <2>10. BudgetInBounds
      BY <2>1, BudgetFits DEF BudgetInv, FramesInv
    <2>11. QED
      BY <2>4, <2>5, <2>6, <2>7, <2>8, <2>9, <2>10 DEF RunSeesWhatWasAsked
  <1>2. QED
    BY <1>1, InputInvHolds, LentInvHolds, PTL

(* Types of every variable of a run, of its properties and of its pool                      *)
THEOREM TypeCorrect == Spec => []TypeOK
  <1>1. ControlInv /\ FilesInv /\ FramesInv /\ BudgetInv /\ StoredInv /\ LentInv /\ PoolTypeOK => TypeOK
    <2> SUFFICES ASSUME ControlInv, FilesInv, FramesInv, BudgetInv, StoredInv, LentInv, PoolTypeOK PROVE TypeOK
      OBVIOUS
    <2>1. StorageTypeOK
      BY StorageIsTyped DEF StoredInv
    <2>2. QED
      BY <2>1 DEF TypeOK, ControlInv, FilesInv, FramesInv, BudgetInv, LentInv
  <1>2. QED
    BY <1>1, ControlInvHolds, FilesInvHolds, InputInvHolds, StoredInvHolds, LentInvHolds, PoolOfRun, PoolTypeCorrect, PTL
===============================================================================
