---------------------------- MODULE BatchRetrieval ----------------------------
(***************************************************************************)
(* The operator's batch command hosted_app/batch_complaint_retrieval.py.   *)
(* A run plans facility and date windows, writes the plan and then the     *)
(* outcome of each window to an append-only manifest, and runs one         *)
(* retrieval job per window, all on one database connection. A later       *)
(* --resume run takes plan and outcomes from the manifest. The process may *)
(* stop between any two steps and within an append.                        *)
(***************************************************************************)
EXTENDS Naturals, FiniteSets

CONSTANT Windows    \* what build_plan yields, numbered in the order of the plan

ASSUME WindowsAssumption == Windows \subseteq Nat /\ IsFiniteSet(Windows)

VARIABLES
    file,       \* the manifest: missing, empty, with at least one event, with a
                \* last line that lacks its end, or with a line that is no JSON
    events,     \* states of the window events in the manifest, by window
    loaded,     \* windows that already_loaded_match finds in the database
    pc,         \* where the run is, or how the last one ended
    options,    \* --apply and --force of the run
    plan,       \* planned_windows of the run
    todo,       \* remaining windows of the run
    result,     \* outcome of the window whose job has ended
    poisoned    \* the connection's transaction has failed

vars == <<file, events, loaded, pc, options, plan, todo, result, poisoned>>

Finals == {"succeeded", "skipped"}
Outcomes == {"succeeded", "warning", "failed"}
Options == [apply : BOOLEAN, force : BOOLEAN]

TypeOK ==
    /\ file \in {"missing", "empty", "entries", "unended", "torn"}
    /\ events \in [Windows -> SUBSET (Outcomes \cup {"planned", "skipped"})]
    /\ loaded \in SUBSET Windows
    /\ pc \in {"off", "open", "plan", "loop", "result", "done", "error"}
    /\ options \in Options
    /\ plan \in SUBSET Windows
    /\ todo \in SUBSET Windows
    /\ result \in Outcomes
    /\ poisoned \in BOOLEAN

Init ==
    /\ file = "missing"
    /\ events = [w \in Windows |-> {}]
    /\ loaded \in SUBSET Windows
    /\ pc = "off"
    /\ options = [apply |-> FALSE, force |-> FALSE]
    /\ plan = {}
    /\ todo = {}
    /\ result = "failed"
    /\ poisoned = FALSE

-----------------------------------------------------------------------------

Idle == pc \in {"off", "done", "error"}

IsNext(w, S) == w \in S /\ \A v \in S : w <= v

\* _append_manifest_event
AppendEvent(w, state) == events' = [events EXCEPT ![w] = @ \cup {state}]

\* Fault: the manifest of an earlier run stays.
StartNewAppends(o) ==
    /\ Idle
    /\ file' = "empty"
    /\ pc' = "open"
    /\ options' = o
    /\ plan' = Windows
    /\ todo' = Windows
    /\ poisoned' = FALSE
    /\ UNCHANGED <<events, loaded, result>>

\* Without --resume the manifest is emptied first. The plan is not stored
\* before its first window event.
StartNew(o) ==
    /\ Idle
    /\ file' = "empty"
    /\ events' = [w \in Windows |-> {}]
    /\ pc' = "open"
    /\ options' = o
    /\ plan' = Windows
    /\ todo' = Windows
    /\ poisoned' = FALSE
    /\ UNCHANGED <<loaded, result>>

WriteStart ==
    /\ pc = "open"
    /\ file' = "entries"
    /\ pc' = "plan"
    /\ UNCHANGED <<events, loaded, options, plan, todo, result, poisoned>>

Unplanned == {w \in plan : "planned" \notin events[w]}

WritePlanned(w) ==
    /\ pc = "plan"
    /\ IsNext(w, Unplanned)
    /\ AppendEvent(w, "planned")
    /\ UNCHANGED <<file, loaded, pc, options, plan, todo, result, poisoned>>

\* The plan is written. A dry run ends here.
EndPlanning ==
    /\ pc = "plan"
    /\ Unplanned = {}
    /\ pc' = IF options.apply THEN "loop" ELSE "done"
    /\ UNCHANGED <<file, events, loaded, options, plan, todo, result, poisoned>>

\* _resume_completed_keys
Completed == {w \in Windows : events[w] \cap Finals # {}}

\* _planned_windows_from_manifest; a manifest without events is planned anew,
\* though a resumed run writes no plan.
ResumedPlan ==
    IF file = "empty" THEN Windows
    ELSE {w \in Windows : "planned" \in events[w]}

\* A manifest with a line that is no JSON is refused. The first event of the run
\* is appended to a line that lacks its end, and no later resume can read it.
Resume(o) ==
    /\ Idle
    /\ file \notin {"missing", "torn"}
    /\ file' = IF file = "unended" THEN "torn" ELSE "entries"
    /\ options' = o
    /\ plan' = ResumedPlan
    /\ todo' = ResumedPlan \ Completed
    /\ pc' = IF o.apply THEN "loop" ELSE "done"
    /\ poisoned' = FALSE
    /\ UNCHANGED <<events, loaded, result>>

SkipWindow(w) ==
    /\ pc = "loop"
    /\ IsNext(w, todo)
    /\ ~options.force /\ ~poisoned
    /\ w \in loaded
    /\ AppendEvent(w, "skipped")
    /\ todo' = todo \ {w}
    /\ UNCHANGED <<file, loaded, pc, options, plan, result, poisoned>>

\* already_loaded_match raises on a connection whose transaction has failed,
\* and main ends the run.
LookupFails ==
    /\ pc = "loop"
    /\ todo # {}
    /\ ~options.force /\ poisoned
    /\ pc' = "error"
    /\ UNCHANGED <<file, events, loaded, options, plan, todo, result, poisoned>>

\* Fault: a job that imported nothing counts as succeeded.
EmptyJobSucceeds(w) ==
    /\ result' \in Outcomes
    /\ UNCHANGED <<loaded, poisoned>>

\* Fault: the state of the job is stored as it is.
JobStateStored(w) ==
    /\ result' = "completed_with_warnings"
    /\ UNCHANGED <<loaded, poisoned>>

\* What a job leaves behind: an import, an import or none with warnings, a
\* failure that was handled, or a database error after which nothing rolls the
\* transaction back (the commit itself may have taken effect). A job without
\* an import always has a warning. On a failed transaction every job fails.
JobOutcome(w) ==
    \/ /\ ~poisoned
       /\ result' = "succeeded"
       /\ loaded' = loaded \cup {w}
       /\ UNCHANGED poisoned
    \/ /\ ~poisoned
       /\ result' = "warning"
       /\ loaded' \in {loaded, loaded \cup {w}}
       /\ UNCHANGED poisoned
    \/ /\ result' = "failed"
       /\ UNCHANGED <<loaded, poisoned>>
    \/ /\ ~poisoned
       /\ result' = "failed"
       /\ loaded' \in {loaded, loaded \cup {w}}
       /\ poisoned' = TRUE

\* _run_window_safely
RunWindow(w) ==
    /\ pc = "loop"
    /\ IsNext(w, todo)
    /\ options.force \/ (~poisoned /\ w \notin loaded)
    /\ JobOutcome(w)
    /\ pc' = "result"
    /\ UNCHANGED <<file, events, options, plan, todo>>

\* Fault: a window that did not succeed leaves no event.
RecordSuccessOnly(w) ==
    /\ pc = "result"
    /\ IsNext(w, todo)
    /\ IF result = "succeeded" THEN AppendEvent(w, result) ELSE UNCHANGED events
    /\ todo' = todo \ {w}
    /\ pc' = "loop"
    /\ UNCHANGED <<file, loaded, options, plan, result, poisoned>>

\* Fault: the loop does not advance.
RecordWithoutAdvance(w) ==
    /\ pc = "result"
    /\ IsNext(w, todo)
    /\ AppendEvent(w, result)
    /\ pc' = "loop"
    /\ UNCHANGED <<file, loaded, options, plan, todo, result, poisoned>>

RecordWindow(w) ==
    /\ pc = "result"
    /\ IsNext(w, todo)
    /\ AppendEvent(w, result)
    /\ todo' = todo \ {w}
    /\ pc' = "loop"
    /\ UNCHANGED <<file, loaded, options, plan, result, poisoned>>

Complete ==
    /\ pc = "loop"
    /\ todo = {}
    /\ pc' = "done"
    /\ UNCHANGED <<file, events, loaded, options, plan, todo, result, poisoned>>

\* The process is stopped, cannot write the manifest, or finds retrieval
\* unconfigured.
Stop ==
    /\ ~Idle
    /\ pc' = "off"
    /\ UNCHANGED <<file, events, loaded, options, plan, todo, result, poisoned>>

\* The process or its host fails in the middle of an append: a part of the event
\* is in the file, or all of it but the end of the line.
StopInAppend ==
    /\ ~Idle
    /\ pc' = "off"
    /\ file' \in IF file = "entries" THEN {"torn", "unended"} ELSE {"torn"}
    /\ UNCHANGED <<events, loaded, options, plan, todo, result, poisoned>>

\* A browser job imports records of the window meanwhile.
ImportElsewhere(w) ==
    /\ loaded' = loaded \cup {w}
    /\ UNCHANGED <<file, events, pc, options, plan, todo, result, poisoned>>

Work ==
    \/ WriteStart
    \/ EndPlanning
    \/ LookupFails
    \/ Complete
    \/ \E w \in Windows : \/ WritePlanned(w)
                          \/ SkipWindow(w)
                          \/ RunWindow(w)
                          \/ RecordWindow(w)

Next ==
    \/ \E o \in Options : StartNew(o) \/ Resume(o)
    \/ Work
    \/ Stop
    \/ StopInAppend
    \/ \E w \in Windows : ImportElsewhere(w)

Spec == Init /\ [][Next]_vars

\* A started run goes on by itself.
FairSpec == Spec /\ WF_vars(Work)

-----------------------------------------------------------------------------
(* Properties.                                                             *)

\* The manifest calls a window succeeded or skipped, so that no resume looks at
\* it again, only if its records are in the database, however runs are stopped
\* and resumed.
ManifestTruthful == Completed \subseteq loaded

\* A resumed run, forced or not, starts no job for a window that the manifest
\* has as succeeded or skipped.
DoneNotRepeated ==
    [][(pc = "loop" /\ pc' = "result") =>
          \A w \in Windows : IsNext(w, todo) => w \notin Completed]_vars

\* An applied run that comes to its end has left an outcome in the manifest for
\* every window of its plan, its own or an earlier one.
RunAccounted ==
    (pc = "done" /\ options.apply) =>
        \A w \in plan : events[w] \ {"planned"} # {}

\* A started run ends.
RunEnds == ~Idle ~> Idle
=============================================================================
