------------------------- MODULE BatchRetrievalProofs -------------------------
(***************************************************************************)
(* Proofs about the batch command for any plan and any calendar: the       *)
(* manifest of a sequence of runs, stopped and resumed anywhere, and the   *)
(* windows into which the plan cuts a range of dates.                      *)
(***************************************************************************)
EXTENDS BatchCommand, FiniteSetTheorems, SequenceTheorems, TLAPS

\* A result "succeeded" that is not in the manifest yet is of a window whose
\* records are in the database.
ResultSound ==
    (pc = "result" /\ result = "succeeded") =>
        \A w \in Windows : IsNext(w, todo) => w \in loaded

\* What a run has still to do is not final in the manifest.
TodoOpen == ~Idle => todo \cap Completed = {}

\* What a run does not have to do any more has an outcome in the manifest.
DoneAccounted ==
    /\ pc \in {"open", "plan"} => todo = plan
    /\ pc \in {"loop", "result"} =>
          \A w \in plan \ todo : events[w] \ {"planned"} # {}

\* The inductive invariant.
IInv ==
    /\ TypeOK
    /\ ManifestTruthful
    /\ ResultSound
    /\ TodoOpen
    /\ DoneAccounted
    /\ RunAccounted

-----------------------------------------------------------------------------

\* Only one window is the next one.
LEMMA NextUnique ==
    ASSUME TypeOK, NEW v \in Windows, NEW w \in Windows,
           IsNext(v, todo), IsNext(w, todo)
    PROVE  v = w
  BY WindowsAssumption DEF IsNext

\* Without a manifest the invariant holds, whatever is in the database.
LEMMA InitIInv == Init => IInv
  <1> SUFFICES ASSUME Init PROVE IInv
    OBVIOUS
  <1>1. TypeOK
    BY DEF Init, TypeOK, Options, Outcomes
  <1>2. Completed = {}
    BY DEF Init, Completed
  <1>3. ManifestTruthful /\ ResultSound /\ TodoOpen
    BY <1>2 DEF Init, ManifestTruthful, ResultSound, TodoOpen
  <1>4. DoneAccounted /\ RunAccounted
    BY DEF Init, DoneAccounted, RunAccounted
  <1>5. QED
    BY <1>1, <1>3, <1>4 DEF IInv

-----------------------------------------------------------------------------
(* One lemma for each kind of step.                                        *)

\* A new run begins with an empty manifest and has all its plan to do.
LEMMA StartNewIInv ==
    ASSUME IInv, NEW o \in Options, StartNew(o)
    PROVE  IInv'
  BY DEF IInv, StartNew, TypeOK, ManifestTruthful, ResultSound, TodoOpen,
         DoneAccounted, RunAccounted, Completed, Idle

\* A resumed run leaves out exactly the windows that the manifest has as final.
LEMMA ResumeIInv ==
    ASSUME IInv, NEW o \in Options, Resume(o)
    PROVE  IInv'
  <1>1. Completed' = Completed /\ ResumedPlan \subseteq Windows
    BY DEF Resume, Completed, ResumedPlan
  <1>2. TypeOK'
    BY <1>1 DEF IInv, TypeOK, Resume
  <1>3. ManifestTruthful' /\ ResultSound' /\ TodoOpen'
    BY <1>1 DEF IInv, Resume, ManifestTruthful, ResultSound, TodoOpen
  <1>4. DoneAccounted'
    BY DEF Resume, DoneAccounted, Completed, Finals
  <1>5. RunAccounted'
    BY DEF Resume, RunAccounted
  <1>6. QED
    BY <1>2, <1>3, <1>4, <1>5 DEF IInv

\* Planning adds planned events alone.
LEMMA PlanIInv ==
    ASSUME IInv,
           WriteStart \/ EndPlanning \/ \E w \in Windows : WritePlanned(w)
    PROVE  IInv'
  <1>1. Completed' = Completed
    BY DEF IInv, TypeOK, WriteStart, EndPlanning, WritePlanned, AppendEvent,
           Completed, Finals
  <1>2. TypeOK'
    BY DEF IInv, TypeOK, WriteStart, EndPlanning, WritePlanned, AppendEvent
  <1>3. ManifestTruthful' /\ ResultSound' /\ TodoOpen'
    BY <1>1 DEF IInv, WriteStart, EndPlanning, WritePlanned, ManifestTruthful,
                ResultSound, TodoOpen, Idle
  <1>4. DoneAccounted' /\ RunAccounted'
    BY DEF IInv, WriteStart, EndPlanning, WritePlanned, DoneAccounted, RunAccounted
  <1>5. QED
    BY <1>2, <1>3, <1>4 DEF IInv

\* A window is skipped when its records are in the database.
LEMMA SkipWindowIInv ==
    ASSUME IInv, NEW w \in Windows, SkipWindow(w)
    PROVE  IInv'
  <1>1. TypeOK'
    BY DEF IInv, TypeOK, SkipWindow, AppendEvent
  <1>2. Completed' = Completed \cup {w}
    BY DEF IInv, TypeOK, SkipWindow, AppendEvent, Completed, Finals
  <1>3. ManifestTruthful' /\ ResultSound' /\ TodoOpen'
    BY <1>2 DEF IInv, SkipWindow, ManifestTruthful, ResultSound, TodoOpen, Idle
  <1>4. DoneAccounted' /\ RunAccounted'
    BY DEF IInv, TypeOK, SkipWindow, AppendEvent, DoneAccounted, RunAccounted
  <1>5. QED
    BY <1>1, <1>2, <1>3, <1>4 DEF IInv

\* A job that succeeds has its window's records in the database.
LEMMA RunWindowIInv ==
    ASSUME IInv, NEW w \in Windows, RunWindow(w)
    PROVE  IInv'
  <1>1. TypeOK'
    BY DEF IInv, TypeOK, RunWindow, JobOutcome, Outcomes
  <1>2. loaded \subseteq loaded' /\ Completed' = Completed
    BY DEF RunWindow, JobOutcome, Completed
  <1>3. ManifestTruthful' /\ TodoOpen'
    BY <1>2 DEF IInv, RunWindow, ManifestTruthful, TodoOpen, Idle
  <1>4. ResultSound'
    <2>1. ASSUME result' = "succeeded", NEW v \in Windows, IsNext(v, todo)
          PROVE  v \in loaded'
      BY <2>1, NextUnique DEF IInv, RunWindow, JobOutcome
    <2>2. QED
      BY <2>1 DEF ResultSound, RunWindow, IsNext
  <1>5. DoneAccounted' /\ RunAccounted'
    BY DEF IInv, RunWindow, DoneAccounted, RunAccounted
  <1>6. QED
    BY <1>1, <1>3, <1>4, <1>5 DEF IInv

\* The outcome of a window goes to the manifest and the window off the list.
LEMMA RecordWindowIInv ==
    ASSUME IInv, NEW w \in Windows, RecordWindow(w)
    PROVE  IInv'
  <1>1. TypeOK'
    BY DEF IInv, TypeOK, RecordWindow, AppendEvent
  <1>2. Completed' \subseteq Completed \cup {w}
    BY DEF IInv, TypeOK, RecordWindow, AppendEvent, Completed
  <1>3. w \in Completed' => w \in Completed \/ result = "succeeded"
    BY DEF IInv, TypeOK, RecordWindow, AppendEvent, Completed, Finals, Outcomes
  <1>4. ManifestTruthful'
    BY <1>2, <1>3 DEF IInv, RecordWindow, ManifestTruthful, ResultSound
  <1>5. ResultSound' /\ TodoOpen'
    BY <1>2 DEF IInv, RecordWindow, ResultSound, TodoOpen, Idle
  <1>6. DoneAccounted' /\ RunAccounted'
    BY DEF IInv, TypeOK, RecordWindow, AppendEvent, DoneAccounted, RunAccounted,
           Outcomes
  <1>7. QED
    BY <1>1, <1>4, <1>5, <1>6 DEF IInv

\* A run ends: all its windows are accounted for, or it is cut off.
LEMMA EndIInv ==
    ASSUME IInv, LookupFails \/ Complete \/ Stop \/ StopInAppend
    PROVE  IInv'
  <1>1. Completed' = Completed
    BY DEF LookupFails, Complete, Stop, StopInAppend, Completed
  <1>2. TypeOK'
    BY DEF IInv, TypeOK, LookupFails, Complete, Stop, StopInAppend
  <1>3. ManifestTruthful' /\ ResultSound' /\ TodoOpen'
    BY <1>1 DEF IInv, LookupFails, Complete, Stop, StopInAppend, ManifestTruthful,
                ResultSound, TodoOpen, Idle
  <1>4. DoneAccounted' /\ RunAccounted'
    BY DEF IInv, LookupFails, Complete, Stop, StopInAppend, DoneAccounted,
           RunAccounted
  <1>5. QED
    BY <1>2, <1>3, <1>4 DEF IInv

\* Records that a browser job imports are never taken away.
LEMMA ImportElsewhereIInv ==
    ASSUME IInv, NEW w \in Windows, ImportElsewhere(w)
    PROVE  IInv'
  BY DEF IInv, ImportElsewhere, TypeOK, ManifestTruthful, ResultSound, TodoOpen,
         DoneAccounted, RunAccounted, Completed, Idle, IsNext

\* Every step preserves the invariant.
LEMMA NextIInv == IInv /\ [Next]_vars => IInv'
  <1> SUFFICES ASSUME IInv, [Next]_vars PROVE IInv'
    OBVIOUS
  <1>1. CASE Next
    BY <1>1, StartNewIInv, ResumeIInv, PlanIInv, SkipWindowIInv, RunWindowIInv,
       RecordWindowIInv, EndIInv, ImportElsewhereIInv DEF Next, Work
  <1>2. CASE UNCHANGED vars
    BY <1>2 DEF vars, IInv, TypeOK, ManifestTruthful, ResultSound, TodoOpen,
                DoneAccounted, RunAccounted, Completed, Idle, IsNext
  <1>3. QED
    BY <1>1, <1>2

\* The invariant holds in every reachable state.
THEOREM Invariance == Spec => []IInv
  BY InitIInv, NextIInv, PTL DEF Spec

\* Type correctness of the manifest and of the run.
THEOREM TypeCorrect == Spec => []TypeOK
  <1>1. IInv => TypeOK
    BY DEF IInv
  <1>2. QED
    BY Invariance, <1>1, PTL

\* A window that the manifest calls succeeded or skipped has its records in the
\* database, in any sequence of runs, stops and resumes.
THEOREM ManifestIsTruthful == Spec => []ManifestTruthful
  <1>1. IInv => ManifestTruthful
    BY DEF IInv
  <1>2. QED
    BY Invariance, <1>1, PTL

\* An applied run that comes to its end has an outcome for every planned window.
THEOREM RunIsAccounted == Spec => []RunAccounted
  <1>1. IInv => RunAccounted
    BY DEF IInv
  <1>2. QED
    BY Invariance, <1>1, PTL

\* No run starts a job for a window that the manifest has as final.
THEOREM FinalNotRepeated == Spec => DoneNotRepeated
  <1>1. ASSUME IInv, [Next]_vars
        PROVE  [(pc = "loop" /\ pc' = "result") =>
                  \A w \in Windows : IsNext(w, todo) => w \notin Completed]_vars
    BY <1>1 DEF IInv, TodoOpen, Idle, IsNext
  <1>2. QED
    BY Invariance, <1>1, PTL DEF Spec, DoneNotRepeated

-----------------------------------------------------------------------------
(* What RunEnds rests on besides fairness: a run always has a next step,   *)
(* and every step brings it nearer to its end.                             *)

\* A job that has ended is of a window that is still on the list.
ResultPending == pc = "result" => todo # {}

\* The window leaves the list only when its outcome is recorded.
LEMMA NextResultPending == ResultPending /\ [Next]_vars => ResultPending'
  BY DEF ResultPending, Next, vars, StartNew, Resume, Work, WriteStart, EndPlanning,
         LookupFails, Complete, WritePlanned, SkipWindow, RunWindow, RecordWindow,
         IsNext, Stop, StopInAppend, ImportElsewhere

\* The guards of the actions of Work; what else they say is assignments.
CanWork ==
    \/ pc = "open"
    \/ pc = "plan" /\ (Unplanned = {} \/ \E w \in Windows : IsNext(w, Unplanned))
    \/ /\ pc = "loop"
       /\ \/ todo = {}
          \/ ~options.force /\ poisoned
          \/ \E w \in Windows :
                /\ IsNext(w, todo)
                /\ \/ ~options.force /\ ~poisoned /\ w \in loaded
                   \/ options.force \/ (~poisoned /\ w \notin loaded)
    \/ pc = "result" /\ \E w \in Windows : IsNext(w, todo)

\* No run comes to a standstill, also on a connection whose transaction has failed.
NeverStuck == ~Idle => CanWork

\* A set of windows that is not empty has a first one.
LEMMA HasNext ==
    ASSUME NEW S \in SUBSET Windows, S # {}
    PROVE  \E w \in Windows : IsNext(w, S)
  <1> DEFINE starts == {0..k : k \in S}
             order == StrictSubsetOrdering(Nat)
  <1>1. S \in SUBSET Nat
    BY WindowsAssumption
  <1>2. starts \subseteq FiniteSubsetsOf(Nat) /\ starts # {}
    <2>1. \A k \in S : 0..k \in FiniteSubsetsOf(Nat)
      BY <1>1, FS_Interval DEF FiniteSubsetsOf
    <2>2. QED
      BY <2>1
  <1>3. IsWellFoundedOn(order, FiniteSubsetsOf(Nat))
    BY FS_StrictSubsetOrderingWellFounded
  <1>4. PICK T \in starts : \A U \in starts : <<U, T>> \notin order
    <2> HIDE DEF starts, order
    <2>1. QED
      BY <1>2, <1>3, WFMin
  <1>5. PICK n \in S : T = 0..n
    BY <1>4
  <1>6. ASSUME NEW m \in S, ~(n <= m)
        PROVE  FALSE
    <2>1. 0..m \in SUBSET Nat /\ T \in SUBSET Nat
      BY <1>1, <1>5
    <2>2. 0..m \subseteq T /\ n \in T /\ n \notin 0..m
      BY <1>1, <1>5, <1>6
    <2>3. <<0..m, T>> \in order
      BY <2>1, <2>2 DEF StrictSubsetOrdering
    <2>4. QED
      BY <1>4, <2>3
  <1>7. QED
    BY <1>6 DEF IsNext

\* Whatever has failed, a started run has a step to take.
THEOREM RunsAreNeverStuck == Spec => []NeverStuck
  <1>1. Init => ResultPending
    BY DEF Init, ResultPending
  <1>2. TypeOK /\ ResultPending => NeverStuck
    <2> SUFFICES ASSUME TypeOK, ResultPending, ~Idle PROVE CanWork
      BY DEF NeverStuck
    <2>1. todo \in SUBSET Windows /\ Unplanned \in SUBSET Windows
      BY DEF TypeOK, Unplanned
    <2>2. /\ todo # {} => \E w \in Windows : IsNext(w, todo)
          /\ Unplanned # {} => \E w \in Windows : IsNext(w, Unplanned)
      BY <2>1, HasNext
    <2>3. QED
      BY <2>2 DEF TypeOK, Options, Idle, ResultPending, CanWork
  <1>3. QED
    BY TypeCorrect, <1>1, NextResultPending, <1>2, PTL DEF Spec

\* Steps that a run has at most to take: one for each event of the plan and two for
\* each window.
RunLeft ==
    CASE pc = "open" -> Cardinality(Unplanned) + 2 * Cardinality(todo) + 3
      [] pc = "plan" -> Cardinality(Unplanned) + 2 * Cardinality(todo) + 2
      [] pc = "loop" -> 2 * Cardinality(todo) + 1
      [] pc = "result" -> 2 * Cardinality(todo)
      [] OTHER -> 0

\* A step of the run brings it nearer to its end; nothing else but the start of the
\* next run takes it back.
RunApproach ==
    /\ RunLeft \in Nat
    /\ Work => RunLeft' < RunLeft
    /\ ~Idle => RunLeft' <= RunLeft

\* One window less.
LEMMA OneLess ==
    ASSUME NEW S \in SUBSET Windows, NEW w \in S
    PROVE  /\ Cardinality(S) \in Nat
           /\ Cardinality(S \ {w}) = Cardinality(S) - 1
  <1>1. IsFiniteSet(S)
    BY WindowsAssumption, FS_Subset
  <1>2. QED
    BY <1>1, FS_CardinalityType, FS_RemoveElement

\* A step of the run, by its place in the run.
LEMMA WorkApproaches ==
    ASSUME TypeOK, Work
    PROVE  RunLeft' < RunLeft /\ RunLeft' <= RunLeft /\ ~Idle
  <1> DEFINE u == Cardinality(Unplanned)
             t == Cardinality(todo)
  <1>1. todo \in SUBSET Windows /\ Unplanned \in SUBSET Windows
    BY DEF TypeOK, Unplanned
  <1>2. u \in Nat /\ t \in Nat
    BY <1>1, WindowsAssumption, FS_Subset, FS_CardinalityType
  <1>3. CASE WriteStart
    <2>1. Unplanned' = Unplanned /\ todo' = todo /\ pc = "open" /\ pc' = "plan"
      BY <1>3 DEF WriteStart, Unplanned
    <2>2. RunLeft = u + 2 * t + 3 /\ RunLeft' = u + 2 * t + 2
      BY <2>1 DEF RunLeft
    <2>3. QED
      BY <1>2, <2>1, <2>2 DEF Idle
  <1>4. CASE EndPlanning
    <2>1. todo' = todo /\ pc = "plan" /\ pc' \in {"loop", "done"}
      BY <1>4 DEF EndPlanning
    <2>2. RunLeft = u + 2 * t + 2 /\ (RunLeft' = 2 * t + 1 \/ RunLeft' = 0)
      BY <2>1 DEF RunLeft
    <2>3. QED
      BY <1>2, <2>1, <2>2 DEF Idle
  <1>5. CASE LookupFails \/ Complete
    <2>1. pc = "loop" /\ pc' \in {"error", "done"}
      BY <1>5 DEF LookupFails, Complete
    <2>2. RunLeft = 2 * t + 1 /\ RunLeft' = 0
      BY <2>1 DEF RunLeft
    <2>3. QED
      BY <1>2, <2>1, <2>2 DEF Idle
  <1>6. ASSUME NEW w \in Windows, WritePlanned(w)
        PROVE  RunLeft' < RunLeft /\ RunLeft' <= RunLeft /\ ~Idle
    <2>1. /\ w \in Unplanned /\ todo' = todo /\ pc = "plan" /\ pc' = "plan"
          /\ plan' = plan /\ events' = [events EXCEPT ![w] = @ \cup {"planned"}]
      BY <1>6 DEF WritePlanned, IsNext, AppendEvent
    <2>2. Unplanned' = Unplanned \ {w}
      BY <2>1 DEF Unplanned, TypeOK
    <2>3. Cardinality(Unplanned \ {w}) = u - 1
      BY <1>1, <2>1, OneLess
    <2>4. RunLeft = u + 2 * t + 2 /\ RunLeft' = (u - 1) + 2 * t + 2
      BY <2>1, <2>2, <2>3 DEF RunLeft
    <2>5. QED
      BY <1>2, <2>1, <2>4 DEF Idle
  <1>7. ASSUME NEW w \in Windows, SkipWindow(w) \/ RecordWindow(w)
        PROVE  RunLeft' < RunLeft /\ RunLeft' <= RunLeft /\ ~Idle
    <2>1. /\ w \in todo /\ todo' = todo \ {w}
          /\ pc \in {"loop", "result"} /\ pc' = "loop"
      BY <1>7 DEF SkipWindow, RecordWindow, IsNext
    <2>2. Cardinality(todo \ {w}) = t - 1
      BY <1>1, <2>1, OneLess
    <2>3. RunLeft \in {2 * t + 1, 2 * t} /\ RunLeft' = 2 * (t - 1) + 1
      BY <2>1, <2>2 DEF RunLeft
    <2>4. QED
      BY <1>2, <2>1, <2>3 DEF Idle
  <1>8. ASSUME NEW w \in Windows, RunWindow(w)
        PROVE  RunLeft' < RunLeft /\ RunLeft' <= RunLeft /\ ~Idle
    <2>1. todo' = todo /\ pc = "loop" /\ pc' = "result"
      BY <1>8 DEF RunWindow
    <2>2. RunLeft = 2 * t + 1 /\ RunLeft' = 2 * t
      BY <2>1 DEF RunLeft
    <2>3. QED
      BY <1>2, <2>1, <2>2 DEF Idle
  <1>9. QED
    BY <1>3, <1>4, <1>5, <1>6, <1>7, <1>8 DEF Work

\* A run of a plan of n windows ends after at most 3 * n + 3 steps.
THEOREM RunApproachesItsEnd == Spec => [][RunApproach]_vars
  <1>1. ASSUME TypeOK, Next
        PROVE  RunApproach
    <2>1. todo \in SUBSET Windows /\ Unplanned \in SUBSET Windows
      BY <1>1 DEF TypeOK, Unplanned
    <2>2. Cardinality(Unplanned) \in Nat /\ Cardinality(todo) \in Nat
      BY <2>1, WindowsAssumption, FS_Subset, FS_CardinalityType
    <2>3. RunLeft \in Nat
      BY <2>2 DEF RunLeft
    <2>4. CASE Work
      BY <1>1, <2>3, <2>4, WorkApproaches DEF RunApproach
    <2>5. CASE ~Work /\ Idle
      BY <2>3, <2>5 DEF RunApproach
    <2>6. CASE ~Work /\ (Stop \/ StopInAppend)
      <3>1. RunLeft' = 0
        BY <2>6 DEF Stop, StopInAppend, RunLeft
      <3>2. QED
        BY <2>3, <2>6, <3>1 DEF RunApproach
    <2>7. CASE ~Work /\ \E w \in Windows : ImportElsewhere(w)
      <3>1. RunLeft' = RunLeft
        BY <2>7 DEF ImportElsewhere, RunLeft, Unplanned
      <3>2. QED
        BY <2>3, <2>7, <3>1 DEF RunApproach
    <2>8. QED
      BY <1>1, <2>4, <2>5, <2>6, <2>7 DEF Next, StartNew, Resume
  <1>2. TypeOK /\ [Next]_vars => [RunApproach]_vars
    BY <1>1
  <1>3. QED
    BY TypeCorrect, <1>2, PTL DEF Spec

-----------------------------------------------------------------------------
(* The windows of the plan: module DateWindows.                            *)

\* The first day without a window is at most one past the range.
SplitBound == start <= end /\ current <= end + 1

\* The inductive invariant of the loop.
SplitInv ==
    /\ SplitTypeOK
    /\ SplitBound
    /\ Tiled
    /\ OverflowOnlyAtEnd

\* The loop starts with no window and the whole range.
LEMMA SplitInitInv ==
    ASSUME SplitInit
    PROVE  SplitInv
  <1>1. SplitTypeOK /\ SplitBound
    BY EmptySeq DEF SplitInit, SplitTypeOK, Days, SplitBound
  <1>2. Tiled /\ OverflowOnlyAtEnd
    BY EmptySeq DEF SplitInit, Tiled, OverflowOnlyAtEnd
  <1>3. QED
    BY <1>1, <1>2 DEF SplitInv

\* The end of the next window lies in the range and within the limit.
LEMMA WindowEndBounds ==
    ASSUME SplitTypeOK,
           current <= end
    PROVE  /\ WindowEnd \in Days
           /\ current <= WindowEnd
           /\ WindowEnd <= end
           /\ WindowEnd - current < MaxInclusiveDays
  BY DaysAssumption DEF WindowEnd, Earlier, SplitTypeOK, Days

\* Another window follows the last one.
LEMMA AppendWindowInv ==
    ASSUME SplitInv, AppendWindow
    PROVE  SplitInv'
  <1> DEFINE w == [start_date |-> current, end_date |-> WindowEnd]
             n == Len(windows)
  <1>1. /\ start \in Days /\ end \in Days /\ current \in Days
        /\ windows \in Seq(DateWindow)
    BY DaysAssumption DEF SplitInv, SplitTypeOK, AppendWindow, Days
  <1>2. /\ WindowEnd \in Days
        /\ current <= WindowEnd
        /\ WindowEnd <= end
        /\ WindowEnd - current < MaxInclusiveDays
    BY WindowEndBounds DEF SplitInv, AppendWindow
  <1>3. w \in DateWindow
    BY <1>1, <1>2 DEF DateWindow
  <1>4. /\ windows' \in Seq(DateWindow)
        /\ windows' # <<>>
        /\ n \in Nat /\ Len(windows') = n + 1
        /\ \A i \in 1..n : windows'[i] = windows[i]
        /\ windows'[n + 1] = w
    BY <1>1, <1>3, AppendProperties, LenProperties DEF AppendWindow
  <1>5. SplitTypeOK'
    BY <1>1, <1>2, <1>4, DaysAssumption DEF SplitInv, SplitTypeOK, AppendWindow, Days
  <1>6. SplitBound'
    BY <1>1, <1>2 DEF SplitInv, SplitBound, AppendWindow, Days
  <1>7. Tiled'
    <2>1. SUFFICES ASSUME step' # "overflow"
                   PROVE  Tiled'
      BY DEF Tiled
    <2>2. step = "loop" /\ step' = "loop" /\ current' = WindowEnd + 1
      BY <2>1 DEF AppendWindow
    <2>3. /\ \A i \in 1..n :
                /\ windows[i].start_date <= windows[i].end_date
                /\ windows[i].end_date - windows[i].start_date < MaxInclusiveDays
          /\ \A i \in 1..(n - 1) :
                windows[i + 1].start_date = windows[i].end_date + 1
          /\ windows # <<>> => /\ windows[1].start_date = start
                               /\ windows[n].end_date = current - 1
          /\ windows = <<>> => current = start
      BY <2>2 DEF SplitInv, Tiled
    <2>4. windows # <<>> => n \in 1..n
      BY <1>1, EmptySeq
    <2>5. \A i \in 1..Len(windows') :
             /\ windows'[i].start_date <= windows'[i].end_date
             /\ windows'[i].end_date - windows'[i].start_date < MaxInclusiveDays
      BY <1>2, <1>4, <2>3
    <2>6. \A i \in 1..(Len(windows') - 1) :
             windows'[i + 1].start_date = windows'[i].end_date + 1
      <3>1. SUFFICES ASSUME NEW i \in 1..n
                     PROVE  windows'[i + 1].start_date = windows'[i].end_date + 1
        BY <1>4
      <3>2. CASE i < n
        BY <1>4, <2>3, <3>2
      <3>3. CASE i = n
        <4>1. windows # <<>>
          BY <1>4, <3>3
        <4>2. windows[n].end_date = current - 1
          BY <2>3, <4>1
        <4>3. QED
          BY <1>1, <1>4, <3>3, <4>2 DEF Days
      <3>4. QED
        BY <1>4, <3>2, <3>3
    <2>7. windows'[1].start_date = start
      BY <1>4, <2>3, <2>4
    <2>8. windows'[Len(windows')].end_date = current' - 1
      BY <1>2, <1>4, <2>2 DEF Days
    <2>9. start' = start /\ step' # "done"
      BY <2>2 DEF AppendWindow
    <2>10. QED
      BY <1>4, <2>5, <2>6, <2>7, <2>8, <2>9 DEF Tiled
  <1>8. OverflowOnlyAtEnd'
    BY <1>1, <1>2, DaysAssumption DEF AppendWindow, OverflowOnlyAtEnd, Days
  <1>9. QED
    BY <1>5, <1>6, <1>7, <1>8 DEF SplitInv

\* Every step of the loop preserves its invariant.
LEMMA SplitNextInv ==
    ASSUME SplitInv, [SplitNext]_loopVars
    PROVE  SplitInv'
  <1>1. CASE Overflow
    <2>1. SplitTypeOK' /\ SplitBound'
      BY <1>1 DEF SplitInv, SplitTypeOK, SplitBound, Overflow
    <2>2. Tiled' /\ OverflowOnlyAtEnd'
      BY <1>1, DaysAssumption DEF SplitInv, SplitTypeOK, Days, Overflow, Tiled,
                  OverflowOnlyAtEnd
    <2>3. QED
      BY <2>1, <2>2 DEF SplitInv
  <1>2. CASE Return
    <2>1. current = end + 1 /\ windows # <<>>
      BY <1>2 DEF SplitInv, SplitBound, SplitTypeOK, Days, Tiled,
                  Return
    <2>2. SplitTypeOK' /\ SplitBound'
      BY <1>2 DEF SplitInv, SplitTypeOK, SplitBound, Return
    <2>3. Tiled' /\ OverflowOnlyAtEnd'
      BY <1>2, <2>1, DaysAssumption DEF SplitInv, SplitTypeOK, Days, Return, Tiled,
                                        OverflowOnlyAtEnd
    <2>4. QED
      BY <2>2, <2>3 DEF SplitInv
  <1>3. CASE UNCHANGED loopVars
    BY <1>3 DEF loopVars, SplitInv, SplitBound, SplitTypeOK, Tiled,
                OverflowOnlyAtEnd
  <1>4. QED
    BY <1>1, <1>2, <1>3, AppendWindowInv DEF SplitNext

\* The loop's invariant holds throughout, for any calendar and any limit.
THEOREM SplitInvariance == SplitSpec => []SplitInv
  BY SplitInitInv, SplitNextInv, PTL DEF SplitSpec

\* The windows tile the range, and none is longer than a job may ask for.
THEOREM RangeTiled == SplitSpec => []Tiled
  <1>1. SplitInv => Tiled
    BY DEF SplitInv
  <1>2. QED
    BY SplitInvariance, <1>1, PTL

\* A range is refused only if it ends on the last day of the calendar or a full window
\* from its last day would leave the calendar; a range that ends on the last day is
\* refused.
THEOREM RefusedOnlyAtEnd == SplitSpec => []OverflowOnlyAtEnd
  <1>1. SplitInv => OverflowOnlyAtEnd
    BY DEF SplitInv
  <1>2. QED
    BY SplitInvariance, <1>1, PTL

-----------------------------------------------------------------------------
(* The command as a whole: module BatchCommand.                            *)

\* The command does to the manifest what its runs do, and nothing while it cuts a
\* range: what is proved of BatchRetrieval's Spec holds of the command.
THEOREM CommandRunsBatches == CommandSpec => Spec
  <1>1. CommandInit => Init
    BY DEF CommandInit
  <1>2. [CommandNext]_<<vars, loopVars>> => [Next]_vars
    BY DEF CommandNext, Split, AskAgain, RunBatch
  <1>3. QED
    BY <1>1, <1>2, PTL DEF CommandSpec, Spec

\* Whatever range is asked for after a refused one, its windows tile it, and a run
\* leaves them alone.
THEOREM CommandSplits == CommandSpec => [](Tiled /\ OverflowOnlyAtEnd)
  <1>1. CommandInit => SplitInv
    BY SplitInitInv DEF CommandInit
  <1>2. SplitInv /\ [CommandNext]_<<vars, loopVars>> => SplitInv'
    <2>1. ASSUME SplitInv, AskAgain
          PROVE  SplitInv'
      <3>1. SplitTypeOK' /\ SplitBound'
        BY <2>1, EmptySeq DEF AskAgain, SplitTypeOK, SplitBound, Days
      <3>2. Tiled' /\ OverflowOnlyAtEnd'
        BY <2>1, EmptySeq DEF AskAgain, Tiled, OverflowOnlyAtEnd
      <3>3. QED
        BY <3>1, <3>2 DEF SplitInv
    <2>2. QED
      BY <2>1, SplitNextInv DEF CommandNext, Split, RunBatch
  <1>3. SplitInv => Tiled /\ OverflowOnlyAtEnd
    BY DEF SplitInv
  <1>4. QED
    BY <1>1, <1>2, <1>3, PTL DEF CommandSpec
=============================================================================
