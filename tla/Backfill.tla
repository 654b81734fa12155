------------------------------- MODULE Backfill -------------------------------
(***************************************************************************)
(* The resumable apply of hosted_app/ccld_backfill.py. A run works through *)
(* a frozen selection of facilities, commits each one to the database and  *)
(* then replaces the checkpoint file. The process may stop between any two *)
(* of these steps; writing the file may fail; a commit may succeed without *)
(* the client learning of it. Retrieval jobs refresh the same rows; no     *)
(* lock spans the SELECT of an upsert and its UPDATE.                      *)
(*                                                                         *)
(* Dry runs roll everything back and write no checkpoint.                  *)
(***************************************************************************)
EXTENDS SourceRecords, FiniteSets

CONSTANTS
    Facilities,     \* public facility numbers, in the order of the selection
    Operations,     \* the values of --operation that apply accepts
    Observed,       \* what the source of an operation says of each facility
    Stored,         \* facility rows before the first run
    BackfillBatch,  \* import_batch_id derived from the artifact's content
    OtherBatch,     \* import_batch_id of a retrieval job
    MaxFacilities,  \* --max-facilities
    MaxAttempts,    \* bound of the model on recorded failures per facility
    MaxRefreshes    \* bound of the model on refreshes by retrieval jobs

ASSUME BackfillAssumption ==
    /\ Facilities \subseteq Keys
    /\ Facilities \subseteq Nat
    /\ Operations \subseteq {"facility-reference", "preserved-artifacts"}
    /\ Observed \in [Operations -> [Facilities -> Values \cup {Blank}]]
    /\ Stored \in [Facilities -> Record]
    /\ {BackfillBatch, OtherBatch} \subseteq Batches
    /\ MaxFacilities \in Nat \ {0}
    /\ MaxAttempts \in Nat
    /\ MaxRefreshes \in Nat

VARIABLES
    record,     \* committed facility rows
    available,  \* facilities with exactly one row, the rest being ambiguous
    file,       \* the checkpoint file
    mem,        \* the checkpoint in the memory of the run
    pc,         \* where the run is, "off" when there is none
    todo,       \* facilities of the run still to be examined
    run,        \* facilities this run was to examine
    rows,       \* the field in the rows that the run selected when it started
    committed,  \* facilities committed since the selection was frozen
    settled,    \* those of them whose rows nobody else changed since
    base,       \* what the SELECT of the run's upsert returned
    other,      \* what the SELECT of a retrieval job's upsert returned, with the
                \* facility, while the job has not written it
    refreshes   \* refreshes that jobs have begun

vars == <<record, available, file, mem, pc, todo, run, rows, committed, settled,
          base, other, refreshes>>

\* What a refresh replaces in source_traceability: the conflicts listed under
\* hosted_refresh, and source_artifact_identity, a fingerprint of the imported
\* content (None stands for the identities of other imports).
Trace == [refresh : SUBSET (Values \X Values),
          artifact : (Operations \X (Values \cup {Blank})
                         \X SUBSET (Values \X Values)) \cup {None}]

FacilityRow == [main : Record, trace : Trace]

ASSUME NoneIsNoFacilityRow == None \notin FacilityRow

\* failed counts attempts; 0 stands for no entry.
Checkpoint == [operation : Operations, selected : SUBSET Facilities,
               completed : SUBSET Facilities, failed : [Facilities -> 0..MaxAttempts]]

ASSUME NoneIsNoCheckpoint == None \notin Checkpoint

TypeOK ==
    /\ record \in [Facilities -> FacilityRow]
    /\ available \in SUBSET Facilities
    /\ file \in Checkpoint \cup {None}
    /\ mem \in Checkpoint \cup {None}
    /\ pc \in {"off", "next", "write", "committed", "failed"}
    /\ todo \in SUBSET Facilities
    /\ run \in SUBSET Facilities
    /\ rows \in [Facilities -> Values \cup {Blank}]
    /\ committed \in SUBSET Facilities
    /\ settled \in SUBSET committed
    /\ base \in FacilityRow \cup {None}
    /\ other \in [key : Facilities, base : FacilityRow] \cup {None}
    /\ refreshes \in 0..MaxRefreshes

\* _selected_facilities reads the rows once, at the start of a run.
SelectedRows == [f \in Facilities |-> record[f].main.value]

Init ==
    /\ record = [f \in Facilities |->
                    [main |-> Stored[f],
                     trace |-> [refresh |-> {}, artifact |-> None]]]
    /\ available \in SUBSET Facilities
    /\ file = None
    /\ mem = None
    /\ pc = "off"
    /\ todo = {}
    /\ run = {}
    /\ rows = SelectedRows
    /\ committed = {}
    /\ settled = {}
    /\ base = None
    /\ other = None
    /\ refreshes = 0

-----------------------------------------------------------------------------

\* The first n of S in the order of the selection.
FirstOf(S, n) == {f \in S : Cardinality({g \in S : g < f}) < n}

IsCurrent(f) == f \in todo /\ \A g \in todo : f <= g

\* Fault: the map of failed attempts is left out.
NewCheckpointWithoutFailures(op) ==
    [operation |-> op, selected |-> available, completed |-> {}]

NewCheckpoint(op) ==
    [operation |-> op, selected |-> available, completed |-> {},
     failed |-> [f \in Facilities |-> 0]]

\* A first run, or --restart, freezes the selection and writes the checkpoint
\* before any facility. A write that fails ends the run.
StartNew(op) ==
    /\ pc = "off"
    /\ pc' = "next"
    /\ mem' = NewCheckpoint(op)
    /\ file' = NewCheckpoint(op)
    /\ todo' = FirstOf(available, MaxFacilities)
    /\ run' = todo'
    /\ rows' = SelectedRows
    /\ committed' = {}
    /\ settled' = {}
    /\ UNCHANGED <<record, available, base, other, refreshes>>

\* A later run of the same operation resumes, unless a frozen facility is gone
\* or ambiguous by now.
Resume ==
    /\ pc = "off"
    /\ file # None
    /\ file.selected \subseteq available
    /\ pc' = "next"
    /\ mem' = file
    /\ todo' = FirstOf(file.selected \ file.completed, MaxFacilities)
    /\ run' = todo'
    /\ rows' = SelectedRows
    /\ UNCHANGED <<record, available, file, committed, settled, base, other,
                   refreshes>>

\* What _process_facility imports: the facility of the preserved report, or the
\* row as the run selected it with the values of the reference put over it.
Projected(f) ==
    LET op == mem.operation
    IN IF op = "facility-reference" /\ Observed[op][f] = Blank
       THEN rows[f] ELSE Observed[op][f]

HasReference(f) ==
    /\ mem.operation = "facility-reference"
    /\ Observed["facility-reference"][f] # Blank

\* prepare_ccld_hosted_source_records: the value that the reference is put over,
\* if it is another one.
ReferenceConflicts(f) ==
    IF HasReference(f) /\ rows[f] \notin {Blank, Projected(f)}
    THEN {<<rows[f], Projected(f)>>} ELSE {}

\* The import merges with the selected row and replaces hosted_refresh if there is
\* a reference value. A preserved report that brings nothing new keeps the identity
\* (_stabilize_equivalent_artifact_provenance).
Refreshed(f) ==
    LET main == Prepared(base.main, [key |-> f, value |-> Projected(f)],
                         BackfillBatch, TRUE)
    IN [main |-> main,
        trace |->
            [refresh |-> IF HasReference(f) THEN ReferenceConflicts(f)
                         ELSE base.trace.refresh,
             artifact |->
                 IF mem.operation = "preserved-artifacts" /\ main = base.main
                 THEN base.trace.artifact
                 ELSE <<mem.operation, Projected(f), ReferenceConflicts(f)>>]]

\* _upsert_source_record selects the row, ...
ReadFacility(f) ==
    /\ pc = "next"
    /\ IsCurrent(f)
    /\ base' = record[f]
    /\ pc' = "write"
    /\ UNCHANGED <<record, available, file, mem, todo, run, rows, committed, settled,
                   other, refreshes>>

\* ... and updates it unless it finds nothing to change; the commit of savepoint and
\* transaction follows.
StoreFacility(f) ==
    /\ record' = [record EXCEPT ![f] = IF Refreshed(f) = base THEN @ ELSE Refreshed(f)]
    /\ committed' = committed \cup {f}
    /\ settled' = IF base = record[f] THEN settled \cup {f} ELSE settled

Completing(f) ==
    /\ mem' = [mem EXCEPT !.completed = @ \cup {f}, !.failed[f] = 0]
    /\ pc' = "committed"
    /\ base' = None

CommitFacility(f) ==
    /\ pc = "write"
    /\ IsCurrent(f)
    /\ StoreFacility(f)
    /\ Completing(f)
    /\ UNCHANGED <<available, file, todo, run, rows, other, refreshes>>

\* The facility has no preserved report, or no approved reference row: a commit of
\* nothing.
SkipFacility(f) ==
    /\ pc = "next"
    /\ IsCurrent(f)
    /\ Completing(f)
    /\ committed' = committed \cup {f}
    /\ UNCHANGED <<record, available, file, todo, run, rows, settled, other, refreshes>>

\* Fault: a failed facility is completed as well.
FailingCompletes(f) ==
    /\ mem.failed[f] < MaxAttempts
    /\ mem' = [mem EXCEPT !.failed[f] = @ + 1, !.completed = @ \cup {f}]
    /\ pc' = "failed"
    /\ base' = None

\* Fault: the failed attempt is not counted.
FailingUncounted(f) ==
    /\ mem.failed[f] < MaxAttempts
    /\ mem' = mem
    /\ pc' = "failed"
    /\ base' = None

\* The exception handler: rolled back, counted, to be written.
Failing(f) ==
    /\ mem.failed[f] < MaxAttempts
    /\ mem' = [mem EXCEPT !.failed[f] = @ + 1]
    /\ pc' = "failed"
    /\ base' = None

\* An exception in processing, or a commit that took effect and then raised.
FailFacility(f) ==
    /\ pc \in {"next", "write"}
    /\ IsCurrent(f)
    /\ Failing(f)
    /\ \/ UNCHANGED <<record, committed, settled>>
       \/ pc = "write" /\ StoreFacility(f)
    /\ UNCHANGED <<available, file, todo, run, rows, other, refreshes>>

\* Fault: the facility is taken up again.
WriteCheckpointRepeats(f) ==
    /\ pc \in {"committed", "failed"}
    /\ IsCurrent(f)
    /\ file' = mem
    /\ pc' = "next"
    /\ UNCHANGED <<record, available, mem, todo, run, rows, committed, settled, base,
                   other, refreshes>>

\* _write_checkpoint replaces the file; the loop goes on.
WriteCheckpoint(f) ==
    /\ pc \in {"committed", "failed"}
    /\ IsCurrent(f)
    /\ file' = mem
    /\ todo' = todo \ {f}
    /\ pc' = "next"
    /\ UNCHANGED <<record, available, mem, run, rows, committed, settled, base, other,
                   refreshes>>

\* The write after a commit raises inside the try block: the facility is
\* handled as a failed one, though it stays in completed.
WriteAfterCommitFails(f) ==
    /\ pc = "committed"
    /\ IsCurrent(f)
    /\ Failing(f)
    /\ UNCHANGED <<record, available, file, todo, run, rows, committed, settled, other,
                   refreshes>>

Finish ==
    /\ pc = "next"
    /\ todo = {}
    /\ pc' = "off"
    /\ mem' = None
    /\ UNCHANGED <<record, available, file, todo, run, rows, committed, settled, base,
                   other, refreshes>>

\* The process stops, or the write in the exception handler raises.
Stop ==
    /\ pc # "off"
    /\ pc' = "off"
    /\ mem' = None
    /\ todo' = {}
    /\ base' = None
    /\ UNCHANGED <<record, available, file, run, rows, committed, settled, other,
                   refreshes>>

\* Retrieval jobs add facility rows, which makes a number available or, as a
\* second row, ambiguous.
AddFacilityRow(f) ==
    /\ available' = IF f \in available THEN available \ {f}
                    ELSE available \cup {f}
    /\ UNCHANGED <<record, file, mem, pc, todo, run, rows, committed, settled, base,
                   other, refreshes>>

\* A retrieval job refreshes a facility row: it selects the row, ...
ReadElsewhere(f) ==
    /\ refreshes < MaxRefreshes
    /\ refreshes' = refreshes + 1
    /\ other' = [key |-> f, base |-> record[f]]
    /\ UNCHANGED <<record, available, file, mem, pc, todo, run, rows, committed,
                   settled, base>>

\* hosted_refresh of a report with value v: what the row had if no reference is
\* found, and otherwise the value of the report that v was put over.
JobRefreshes(v) ==
    {other.base.trace.refresh, {}}
        \cup {{p} : p \in {q \in Values \X Values : q[1] # v /\ q[2] = v}}

\* ... and commits what it merged with what it selected.
WriteElsewhere(v) ==
    /\ other # None
    /\ \E c \in JobRefreshes(v) :
          record' = [record EXCEPT ![other.key] =
              [main |-> Prepared(other.base.main, [key |-> other.key, value |-> v],
                                 OtherBatch, FALSE),
               trace |-> [refresh |-> c, artifact |-> None]]]
    /\ settled' = settled \ {other.key}
    /\ other' = None
    /\ UNCHANGED <<available, file, mem, pc, todo, run, rows, committed, base,
                   refreshes>>

Work(f) ==
    \/ ReadFacility(f)
    \/ CommitFacility(f)
    \/ SkipFacility(f)
    \/ FailFacility(f)
    \/ WriteCheckpoint(f)
    \/ WriteAfterCommitFails(f)

Next ==
    \/ \E op \in Operations : StartNew(op)
    \/ Resume
    \/ \E f \in Facilities : Work(f) \/ AddFacilityRow(f) \/ ReadElsewhere(f)
    \/ \E v \in Values \cup {Blank} : WriteElsewhere(v)
    \/ Finish
    \/ Stop

Spec == Init /\ [][Next]_vars

\* A run goes on by itself.
FairSpec == Spec /\ WF_vars(Finish \/ \E f \in Facilities : Work(f))

-----------------------------------------------------------------------------
(* Properties.                                                             *)

\* "A completed facility transaction commits before its checkpoint completion
\* is recorded, so interruption ... cannot cause the checkpoint to claim an
\* uncommitted update."
CheckpointTruthful ==
    file # None => file.completed \subseteq committed

\* "Repeating apply with unchanged inputs is idempotent": a facility that was
\* committed and is examined again, after a crash, a lost answer or a failed write
\* of the checkpoint, keeps its row as it is, unless somebody else has changed it.
RepeatIdempotent ==
    [][\A f \in settled \cap settled' : record'[f] = record[f]]_vars

\* What remains of that: such a repeat keeps the canonical value, the import batch
\* and the conflicts on record. Of the rest of the traceability it may empty the
\* list of the conflicts with the reference and change the artifact's identity.
RepeatKeepsValues ==
    [][\A f \in settled \cap settled' :
          /\ record'[f].main = record[f].main
          /\ record'[f].trace.refresh \in {record[f].trace.refresh, {}}]_vars

\* "Differing nonblank governed values ... record the prior value": a run that
\* writes rows selected when it started over what others have refreshed since
\* blanks no value and replaces none without a conflict on record, and loses no
\* conflict recorded before, unless the row was written between the SELECT of the
\* upsert and its UPDATE.
ReplacedValueTraced ==
    [][\A f \in Facilities :
          LET old == record[f].main
              new == record'[f].main
          IN (pc = "write" /\ pc' # "write" /\ base = record[f]) =>
                /\ old.conflicts \subseteq new.conflicts
                /\ old.value # Blank =>
                      \/ new.value = old.value
                      \/ <<old.value, new.value>> \in new.conflicts]_vars

\* A run that goes to its end has accounted for every facility it was to
\* examine: the file has it completed, or counts a failed attempt of it.
RunAccounted ==
    [][(pc = "next" /\ todo = {} /\ pc' = "off") =>
          \A f \in run : f \in file.completed \/ file.failed[f] > 0]_vars

\* A run that is not stopped comes to its end, whatever fails in it.
RunEnds == pc # "off" ~> pc = "off"
===============================================================================
