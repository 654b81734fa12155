# Verification of RecordsTracker

TLA+ models of the parts of RecordsTracker that change stored state: the source
snapshot lifecycle and the projection that shows it, the retrieval jobs with
their raw files, the hosted backfill, the batch retrieval command, the reviewer
forms and the publication of coverage packages. TLC checks small instances;
TLAPS proves every safety property that a passing run checks for all instances.
`PROJECT.json` maps every definition to the lines it models and lists runs, mutants,
findings, hazards and theorems.

All source paths below are relative to `src/ccld_complaints/`.

## 1. The system

| part | state | operations | what is hard |
|---|---|---|---|
| source snapshot lifecycle (`hosted_app/source_snapshot_lifecycle.py`, `connectors/ccld_transparency_api/lifecycle.py`) | snapshots with lifecycle state, rows, disappearances; one pointer row per source family | stage, validate, accept, promote, rollback; three storage scopes | long sequences of legal calls; comparison with a base that is replaced later |
| TransparencyAPI lifecycle commands (`cli/transparencyapi_snapshot_lifecycle.py`) | none of its own; transactions on the tables above | status and the five operations, promote and rollback with expected-pointer guards | overlapping transactions; a row lock that needs a row |
| facility identity projection (`hosted_app/facility_identity_projection.py`) | none; a decision over the active and prior snapshots and three other tables | candidates, precedence, newest observation | what is shown before and after a pointer moves |
| source-derived record store (`hosted_app/seeded_import.py`) | one row per source record key, with values, batch, conflict trace | keyed upsert with null-preserving merge | read, merge, write without a lock |
| retrieval jobs (`hosted_app/ccld_retrieval_jobs.py`, run by the threads of `hosted_app/app.py`) | job rows; imported records | refuse, rate-limit, run, import, commit | concurrent jobs, deadlocks, failed transactions |
| raw report files (`connectors/ccld/facility_reports.py`, `hosted_app/ccld_backfill.py`) | one file per facility and report index | store, extract, verify, re-extract | files shared by jobs and backfills without a lock |
| hosted backfill (`hosted_app/ccld_backfill.py`) | checkpoint file; facility rows | apply, resume, restart | crash between commit and checkpoint, failing writes, lost answers, stale reads |
| identity assignment (same file) | identities of stored allegations and events | match by content, identity, ordinal, order; fresh identities | items that appear, vanish, repeat and move between extractions |
| batch complaint retrieval (`hosted_app/batch_complaint_retrieval.py`) | append-only manifest; one connection for all windows | plan, dry run, apply, force, resume; splitting of date ranges | crash at any step and within a line, one failed window of many, calendar edges |
| reviewer-created state and audit events (`hosted_app/reviewer_created_state*.py`, `audit_events.py`, the forms of `reviewer_ui.py`) | state rows, audit rows; a connection per request or one for all | note, status and combined form | nested savepoints, who commits, the latest status of a page |
| runtime coverage publication (`source_to_screen_audit.py`, `source_to_screen_coverage.py`) | lock file, active directory, archived directories, status file | publish, read | kills between renames, failed undo, readers across a swap |
| source refresh (`hosted_app/ccld_source_refresh.py`) | none | values of an imported facility row | only its result is modelled |
| facility reference preload, import and reload, provenance repair | reference rows, batches | operator runs | single transactions |
| auth, feedback, connectors, pages, reports, local SQLite pipeline, migrations, scripts | see `PROJECT.json` | | mostly stateless or single-user |

How they meet: backfill, retrieval jobs and batch retrieval all write facility
and complaint rows through the record store. Batch retrieval calls the job code
window by window on one connection; browser requests call it from server threads
on connections of their own. Jobs write the raw files that the backfill reads.
The projection reads the snapshots that the pointer names. Reviewer rows refer
to imported records by key. Coverage packages are built from a database read and
then live in the file system only. Everything concurrent meets in PostgreSQL at
READ COMMITTED or in unlocked files.

## 2. Modules

| module | models | extends |
|---|---|---|
| `SnapshotTables` | tables and decisions: what inspection finds in a package against the active snapshot (duplicates, quarantine, drift, disappearances, preserved values), who may be promoted or rolled back | |
| `SnapshotLifecycle` | the five calls, one transaction each | `SnapshotTables` |
| `SnapshotLifecycleProofs` | TLAPS proofs about the lifecycle and the projection | `FacilityProjection` |
| `FacilityProjection` | what is shown of a governed field, as an operator over the state of the lifecycle | `SnapshotLifecycle` |
| `SnapshotOperators` | the command line tool: read and commit of each command as steps of their own, guards, row lock, primary keys, lost connections | `SnapshotTables` |
| `SnapshotOperatorsProofs` | TLAPS proofs | `SnapshotOperators` |
| `SourceRecords` | the row and the merge of an upsert | |
| `RetrievalJobs` | jobs of several actors in one server, with uncommitted drafts, row locks, duplicate keys, deadlock detection, server crash | `SourceRecords` |
| `RetrievalJobsProofs` | TLAPS proofs | `RetrievalJobs` |
| `RawArtifacts` | the raw files between jobs and backfills, and the import of what was extracted from them | |
| `RawArtifactsProofs` | TLAPS proofs | `RawArtifacts` |
| `Backfill` | runs over a frozen selection; checkpoint in memory and in the file; the SELECT of an upsert and its UPDATE as steps of their own, beside those of a retrieval job | `SourceRecords` |
| `StableIdentities` | `_preserve_sequence_stable_identities` between imports and reprocessings | |
| `BackfillProofs` | TLAPS proofs, of the identities too | `Backfill`, `StableIdentities` |
| `BatchRetrieval` | runs over a plan; manifest, loaded windows, the state of the connection | |
| `DateWindows` | `split_date_range` as the loop it is | |
| `BatchCommand` | the command as a whole: the range is split, then the batch runs | `BatchRetrieval`, `DateWindows` |
| `BatchRetrievalProofs` | TLAPS proofs, of the splitting loop and the command too | `BatchCommand` |
| `ReviewerState` | the forms, with connections and savepoints | |
| `ReviewerStateProofs` | TLAPS proofs | `ReviewerState` |
| `AcceptedLog` | abstract: an append-only log of accepted packages | |
| `CoveragePublication` | publishers and readers of the package directory; implements `AcceptedLog` | |
| `CoveragePublicationProofs` | TLAPS proofs; the refinement of `AcceptedLog` | `CoveragePublication` |
| `MC*` | constants for TLC | the module they are named after (`MCSnapshotLifecycle`: `FacilityProjection`, `MCBatchRetrieval`: `BatchCommand`) |

### State and code

`SnapshotLifecycle.state` is `lifecycle_state`; `evidence` holds the columns,
rows and disappearances that staging inserts and nothing updates; `active` and
`prior` are the pointer row. A package is reduced to what the decisions tell
apart: how often each row identity occurs, which rows carry a value, a schema
fingerprint, and one Boolean for the checks that depend on the package alone. A
call that raises or finds its work done changes nothing and is no step.

`FacilityProjection` has no state. An alternative is a source kind, an
observation time and a value, `None` for the states that are not populated; rows
of both TransparencyAPI snapshots are read as observed, as the code does, not as
staging resolved them. `OtherSources` are contents of the reference and
complaint tables, chosen freely in every state; their kinds come after those of
the snapshots in the precedence.

`SnapshotOperators` adds, per operator, the place in the command (`pc`), what it
read (`read`) and what `status` last reported (`seen`), which the operator
passes as the expected pointer. `Begin` and `End` delimit a transaction; `lock`
is the lock of `SELECT ... FOR UPDATE`, which takes nothing when no row exists.

`RetrievalJobs.jobs` and `record` are committed rows. `draft[r]` are rows the
job has written and not committed, `holder` the lock on a row that comes with
it. A job commits once, with its final state, which is why other connections
never see it queued or running. The handlers of exceptions enclose the import and do
not roll back: an exception that the client raises between two records leaves the
transaction open, and the commit that follows shows the rows written so far, with
a job row that says failed or blocked (`FindInvalid`, `FetchFails`). `Fail` is kept apart
from `Step`, the thread's own steps.

`RawArtifacts.file` is what is at `raw_path`: a version of the report, or
`Partial` between the truncation and the end of `write_bytes`. `hash` is the
content whose hash a worker carries (of the bytes in memory for a job, of the row
for a backfill) and `values` the content it extracted from, which is read from
the file. A row has, for each field, the content that its value came from; `Filled`
says which fields a content has values for. `Select` is the SELECT of the import,
whose answer is `existing`; `Import` commits what `Merge` makes of it: the extracted
value, or the one selected where the report has none, under the new hash in
either case. `alone` and `disturbed` are history variables.

`Backfill.file` and `mem` are the checkpoint on disk and in memory; `rows` the
values selected at the start of the run. A row has its record (`main`) and what a
refresh replaces in `source_traceability` (`trace`): the conflicts under
`hosted_refresh` and `source_artifact_identity`, a fingerprint reduced to what it
covers. `base` and `other` are what the SELECTs of the run and of a retrieval job
returned, until each has written. `committed` and `settled` are history variables for the
properties. `BatchRetrieval.events` is the manifest, as the
set of states written for each window: the code never looks at their order; its
last line may be complete, unended or torn. `poisoned` says that the transaction
of the shared connection has failed, after which PostgreSQL refuses every
statement until a rollback. `BatchCommand` lets the batch run only after `split_date_range`
has returned a plan of the size of `Windows`; a refused range is asked for again.

`StableIdentities` has an identity as a prefix format and an ordinal. `Import`
stores items under generated identities, `Reprocess` under the assigned ones;
`semantic` tells allegations, which are compared by content, from events. The code
sorts identities as strings, so that ordinal 10 comes before 2: `Less` is an
arbitrary total order, `MCLess` the one of ordinals with one digit. The four
matching stages are functions from items to stored identities; only the identities
in use (`Used`) are defined by recursion over the items.

`ReviewerState.db` are committed rows, `work` the rows of a connection's open
transaction and `savepoints` its stack. Rows of a connection are told apart by
their places, in the order of creation; a page is a set of places. A request in postgres mode has its own
connection and closes it (`Close`); no code of a form commits it. In fixture demo
mode all use one connection of an in-memory database, one after the other.

`CoveragePublication.active` is the directory `runtime-current`, `archived` the
directory of instances. A package is its report identity, its time, the previous
identity it names and whether it has an index; `Content` says which of these a
file depends on, so two packages may share a file's bytes. A reader's check that
fails is `EndRead`.

Operators preceded by a comment "Fault:" are deliberate errors, each replacing
one definition to show that a property notices it. No specification uses them.

## 3. What the runs check

| run | instance | shows |
|---|---|---|
| `snapshot_lifecycle` | 6 snapshots of 3 scopes, 9 packages, 2 rows, 2 schemas, 2 values | pointers are safe, lineage is exact, rollback is available, history is kept, values of a superseded snapshot stay visible |
| `snapshot_operators` | 2 operators, 2 snapshots, 3 packages | only validated snapshots are served; a guard that matched a row holds until commit; evidence is immutable; the lock is released |
| `retrieval_jobs` | 3 jobs, 2 actors, 2 records in opposite orders | rows and job rows are committed together, a failed job leaves a beginning of its records at most; locks belong to importing jobs; started jobs end |
| `raw_artifacts` | 2 jobs, 1 backfill, 1 report with 2 versions and 2 fields | values that the hashed bytes have come from them; the file is that one at commit |
| `backfill` | 2 facilities, both operations, 1 facility per run, 1 refresh by a job | the checkpoint is truthful; repeats keep the values; replaced values are traced; runs account for their facilities and end |
| `stable_identities` | 3 contents, reports of up to 3 items, 3 runs | identities are collision-free, siblings are kept, repeats are stable |
| `batch_retrieval` | every range in 9 days, windows of 3 days, plans of 3 windows, all options | windows tile the range; overflow only at the end of the calendar; the manifest is truthful; done windows are not repeated; runs account for their plan and end |
| `reviewer_state` | 3 requests, 2 statuses, 3 rows, pages of 2 | rows and audit events are paired; combined updates are whole; the saved status is shown |
| `coverage_publication` | 2 publishers, 1 reader, 2 report identities, 2 archived packages | the directories implement an append-only log; predecessors are named truthfully; a page shows one package |

Runs that TLC must refute, because a document of the repository says more than
the code does:

| run | statement | what happens |
|---|---|---|
| `retrieval_lost_update` | a blank never erases a populated value | a job merges with a row it read before another job's commit |
| `backfill_repeat_rewrites` | repeating apply with unchanged inputs is idempotent | a repeat finds the reference's value in the row: it empties the list of conflicts under `hosted_refresh` and changes the artifact's identity |
| `reviewer_saved_not_durable` | the form saves a status and a note | in postgres mode the savepoint is released and the connection closed without a commit |

Where a property is weaker than one might expect, the code is the reason:
`RollbackAvailable` excludes a fixture promoted over a live snapshot;
`OnlyValidatedServed` says validated, not accepted, since two overlapping
validations can take an accepted snapshot back to validated; `ImportAtomic` allows
that a failed job has left rows; `RepeatKeepsValues` says less than `RepeatIdempotent`,
which is refuted, and speaks of rows nobody else changed; `ReplacedValueTraced` excludes rows
written between the SELECT of the upsert and its UPDATE, where a value can be lost as
`retrieval_lost_update` shows for two jobs; `OverflowOnlyAtEnd` allows that a range is
refused whose last window is shorter than a full one would be; `RunAccounted` of a batch speaks of the plan
the run had; `TraceSound` and `EvidenceAtCommit` speak of rows whose report no
other worker stored meanwhile; `PreviousNamed` allows that no predecessor is
named; `TraceSound` says nothing of fields that the hashed bytes leave blank; `SavedStatusShown` speaks of records with at most a page of rows;
`SiblingsKept` of allegations, since events are matched by number only.

### Observations

Met while modelling, in behaviours that the models contain; none of them breaks
a property above.

* The limit of active jobs per actor counts committed rows, and a job commits
  only at its end: jobs in progress are never counted (`ccld_retrieval_jobs.py:372`).
* An exception that the driver raises between two records of an import, for a value it
  cannot encode for example, is handled without a rollback: the rows before it are
  committed with a job that has `data_mutations_performed` false
  (`ccld_retrieval_jobs.py:409`, `:420`, `:431`).
* An import of a newer report in which a field is blank keeps the older value and
  replaces `raw_sha256`, so that the row has a value its hashed bytes do not
  (`seeded_import.py:550`, `:628`).
* A backfill and a retrieval job that overlap on one row lose an update in the way
  two jobs do (`seeded_import.py:505`).
* A checkpoint write that raises after the commit leaves its facility failed and
  completed, so it is not retried (`ccld_backfill.py:182`).
* `_run_window_safely` swallows a database error without a rollback; the look-up
  for the next window then raises and ends the batch (`batch_complaint_retrieval.py:606`).
* A run stopped while it writes its plan is resumed with the shorter plan
  (`batch_complaint_retrieval.py:354`); one stopped within a line leaves a
  manifest that a resume refuses.
* With no pointer row `FOR UPDATE` locks nothing: a promotion guarded by
  none/none may move a row committed after its guard
  (`cli/transparencyapi_snapshot_lifecycle.py:483`).
* A value observed only in the prior snapshot is shown until the next move of
  the pointer; after a rollback the withdrawn snapshot is the prior one and
  supplies values for blanks (`facility_identity_projection.py:492`).
* Two jobs of one report can store a hash and values of different bytes, and a
  job that fails has already overwritten the file of a stored row, which the
  backfill then refuses until the report is retrieved again
  (`facility_reports.py:321`).
* A publisher killed between its renames, or whose undo fails after a failed promotion,
  leaves no active package, though `docs/data/source-to-screen-audit.md:82` says that a
  failed promotion keeps the previous package active; and a status
  file that cannot be written makes an active package `generation_failed`
  (`source_to_screen_audit.py:6194`, `:6201`).
* The status shown is the last of the first 100 rows of a record
  (`reviewer_created_state_routes.py:92`).
* `limit=per_job_request_limit` cuts the list of candidates without a warning
  (`ccld_retrieval_jobs.py:527`).

### Bounds

Three scopes with two families are all the code has; two ArcGIS fixtures with
different schemas and a live query give every kind of base and of rollback, and
three TransparencyAPI snapshots a value that is handed down twice. Two operators
suffice for a race on one row, which a third can only repeat. Three jobs give
two of one actor, and a cycle of waits; two keys are the least for a cycle. In
`Backfill`, `MaxFacilities = 1` makes runs that leave work to a resumed one, and
`MaxAttempts = 1`, which the code does not have, caps the count of
failures of a facility: a failure is explored, and a second one of the same
facility only after a commit or restart reset the count. `MaxRefreshes = 1`, not in the
code either, lets one refresh by a retrieval job begin and end at any two points of a
history: before, between and after the SELECT and the UPDATE of the run. Three windows
give a first, a middle and a last one; `Planned` lets the batch run on plans of that
size only. A calendar of 9 days with windows of 3 has
ranges of every remainder and every distance from the calendar's end. Reports of
`RawArtifacts` do not touch each other, so one is enough for its properties. Of its
two versions one has both fields and the other has one of them blank, so that an import
keeps a value of the other version. Three items of
three contents have repeats, insertions, removals and permutations, and
`MaxRuns = 3` an import in an old format, one in the new and a reprocessing, or
two reprocessings. `MaxRows = 3` of `ReviewerState` is one more than a page, so
that the page is exceeded. `MaxPackages = 2` of `CoveragePublication` bounds the
archived packages, so histories have up to three; two report identities make a
package that repeats an earlier report, and one value of `Times` two packages
with the same report file.

`reviewer_state` uses symmetry of requests and of statuses, which no definition
tells apart, and checks invariants only. Deadlock is checked except where the
system really stops: in `snapshot_lifecycle` when every snapshot is in a final
state and nothing is left to promote or roll back, in `retrieval_jobs` when every
request has ended, in `stable_identities` at `MaxRuns`. `TypeOK` of `ReviewerState`,
`StableIdentities` (`IdentityTypeOK`) and `RawArtifacts` and `SplitTypeOK` of
`DateWindows` state the types of the variables; their runs spend their time on the
other properties, and the proofs show the types.

### Refinement

`HistoryRetained` is the specification of `AcceptedLog` with the log mapped to
the archived packages followed by the active one. `Archive` moves a package from
the one to the other and is a stutter, and so are a failed promotion and its
undo; `Promote` is `Accept`. That the last accepted package is the current one is no part of the
promise: after a failed undo, or a kill between the renames, there is none. No step shortens or rewrites the log, kills and
removed lock files included.

### Fairness

Weak fairness of an operator's running command, of each job's thread, of a
running backfill and of a running batch: nothing in them waits for a person, and
PostgreSQL detects deadlocks. A job's thread is not assumed to meet an exception, so no job
ends because one rescues it. No fairness is assumed of starting, resuming,
crashing or of the environment, and none in the modules whose runs check safety
only.

## 4. Proofs

Eight modules of proofs, one for each part that changes state. In each, `IInv` is
the inductive invariant; it was checked with TLC on the instance of the run before
it was proved. There is a lemma for each action with a step for each conjunct it
can disturb, `Invariance` puts them together, and the theorems in `PROJECT.json`
follow from it. The operators that a proof keeps needing have lemmas of their own
(what the merge returns, what a rollback to a mark leaves, what a projection
selects). The proofs hold for any number of operators, jobs, workers, publishers,
readers and requests, any sets of rows, packages and windows, reports of any length
and any limits; only the plan of the batch command is assumed finite.

### Assumptions

What the modules state with ASSUME, evaluated by TLC on every run:

* `None` is none of the values it stands beside: no snapshot, operator, report
  identity, package, record, facility row, job row, checkpoint, status, version or answer
  of a SELECT, and `Blank` is no value. They are NULL, a missing row, file or directory in the code;
* packages have the shape of packages and equal digests mean equal packages (a
  digest covers the manifest, which fixes identity and payload);
* sources other than the two snapshots and ArcGIS have the kinds of the tables
  they come from, which the precedence puts last;
* a report names each record once, as the artifact keys it;
* jobs and backfills are different workers, the reports of a facility are
  counted, and each content fills a set of fields;
* facilities and windows are numbered, in the order the code sorts them, and the plan,
  which is a list, has finitely many windows;
* identities are sorted by a total order (`LessAssumption`), and no item is the missing
  one;
* the shared connection of the demo is no request;
* the calendar has a last day and a window at least one.

### SnapshotLifecycleProofs

`PointerSafe` is not inductive: nothing in it keeps a rejected snapshot from
being accepted and promoted, or gives a staged snapshot evidence. `StagedSound`
adds both, and `IInv == TypeOK /\ StagedSound /\ PointerSafe` is inductive. From
it follow

* `TypeCorrect`, `PointersAreSafe`: immediately;
* `RollbackIsAvailable`: a case analysis over the scopes of the two snapshots;
* `HistoryIsKept`: an action property, one case per call;
* `LineageIsSound`: by an induction of its own on top of `IInv`: the base a
  package is compared with is active, so accepted, which is final;
* `ValuesAreKept`: `ShownSound` says what the projection shows in any state (the
  value of the active snapshot, else that of the prior one), because
  `PointerSafe` makes both eligible, only rows that are kept carry values
  (`CarriedByRows`) and no other source comes before them; and every move makes
  the old active snapshot the prior one.

### SnapshotOperatorsProofs

With overlapping transactions the invariant has to say what a command may still
rely on when it writes. `ReadSound`: a snapshot read as candidate is not absent,
one read as validated or accepted is still one of the two (never rejected,
because `EvidenceSound` ties the state to stored reasons), and so is every
snapshot named by a pointer that was read. `GuardSound`: a command whose guard
matched a row holds the lock, and the row has not moved. With `ArgSound` and
`PointerSound` these are inductive and yield `TypeCorrect`, `ServedAreValidated`,
`GuardsHold` and `EvidenceIsImmutable`. `GuardSound` says nothing of a guard that
matched no row, which locks nothing.

For `LockReleased`, `LockOwned` says that the lock is that of a running promotion or
rollback. Only the update of the row waits, and a holder that updates does not, so a
command waits for one that can go on (`CommandsGoOn`). `LockIsBrief` says what a step
does with the lock: the holder ends and gives it up, or goes from its guard to its
write, or stays.

### RetrievalJobsProofs

`ImportAtomic` speaks of committed rows, so the invariant follows the drafts:
`LocksOwned` ties a draft to its lock, `BatchSound` gives it the batch of its job,
and `PosSound` says that an importing job has a draft for every record it is
past, so that the step that completes a job shows all of them with the job row.
`JobSound` keeps that row from being written twice. `Accounted` says that a batch in the
records has a job row that may have it, and that a job row which claims changes has all
its rows. `Beginning`, proved on top with `DraftsSound`, says the rest of a failed
import: a row it left is preceded by those of the records before it.

For `JobsEnd`, `WaitsResolved` says of every finite group of open jobs that wait for
nobody outside it (the jobs that one job waits for, directly or through others, are
such a group) that one of them is `Ready`. A job that is not ready waits for exactly
one other, because `DraftsSound` and the distinct keys of a report exclude that it
holds the row itself. If none of the group were ready, take the least part of it that
waits within itself: the jobs that are waited for in it are such a part too, so they
are all of it, and everyone in it waits and is waited for. That is a cycle, and its
jobs are the ones `DeadlockVictim` ends. `Left` counts the steps of a job, two for each
record, and `JobsApproachTheirEnd` shows that it falls.

### RawArtifactsProofs

`MergeFacts` says what an import leaves in a field: the extracted value if there is
one, else the selected one; `ImportRow` carries it to the committed row. `FileSound` is
what a worker relies on in a file nobody locks: as long as no other
worker has stored the report, the file it extracts or has extracted is the one of
its hash. `WorkSound` says which reports it has got to, `StepSound` who takes which
steps. `TraceIsSound` and `EvidencePreserved` follow; both are silent about
disturbed workers, as the properties are.

### BackfillProofs

`MemSound`: what the checkpoint in memory claims is committed, and between two
facilities it is the file; this is why no failed write and no stop can leave a
claim ahead of its commit. `Accounted` follows the run for `RunIsAccounted`.
`Absorbed` says that what a facility would be refreshed with has no effect on its
value any more, and `SettledSound` that this holds of every committed facility whose
row nobody else changed. `BaseSound` says that what the run has selected of such a
facility is still its row, so that the UPDATE finds what the SELECT did, from which
`RepeatKeepsItsValues`. It rests on lemmas about the merge: it keeps a populated value
or records the conflict, and merging twice is merging once. `ReplacedValueIsTraced`
holds whatever jobs wrote before the SELECT; between SELECT and UPDATE nothing
protects the row, and the property says so.

`RunIsBounded` holds for a selection of any size, infinite ones included: the number
of smaller facilities is an injection of the first n into 0..n-1. With it a run has a
first facility to work on until it is at its end (`RunAlwaysGoesOn`), and `RunLeft`,
four steps for each facility at most, falls with every step.

For `StableIdentities` the invariant is `IdentityInv`: the types, `Bounded` (ordinals
in use grow by the length of a report in each run, so that fresh ones are identities
too), `CollisionFree` and `RepeatIsStable`. The argument has four parts.

* Places. The number of predecessors of an element numbers a finite set from 0
  without gaps (`NumberedOnto`, by counting), so `Nth` finds every place of a sorted set
  once (`NthProperties`), for every total order.
* Stages. Each stage gives free identities to open items, one each (`Adds`), so the
  assignment stays one-to-one over all four (`MatchedPartial`); `NextIdFacts` shows that
  what `Fresh` yields for an allegation is unused, and `UnmatchedEvent` that an event
  left over by all stages finds its generated identity free.
* Allegations again. After a reprocessing there are at least as many rows of a content
  as items of it, so every item is matched by content and written over an equal one
  (`RepeatAllegations`). The same counting gives `SiblingsAreKept`.
* Events again. What the stages match depends on the stored identities alone
  (`EventStages`). The new identities are those generated for items without a match, so
  that a second pass takes them in the stage of generated identities and repeats the
  first one in the others (`StagesAgain`, `RepeatEvents`).

The library's induction theorems have an operator as parameter. `UpTo` takes their
place: a set of numbers that has 0 and with n - 1 also n has all of them, because the
intervals up to the missing ones would have a least one in the well-founded order of
finite sets. `UsedDef` uses it to show that the recursive function `Used` exists.

### BatchRetrievalProofs

`ManifestTruthful` needs `ResultSound`: a success that is not in the manifest yet
is of a loaded window. `TodoOpen` (nothing to do is final in the manifest) gives
`FinalNotRepeated`, `DoneAccounted` (everything else of the plan has an outcome)
gives `RunIsAccounted`. A started run always has a step to take, since a list of windows
that is not empty has a first one (`RunsAreNeverStuck`), and the steps are bounded by
the plan (`RunApproachesItsEnd`), which is finite. For the loop of `split_date_range`, `SplitBound` keeps
`current` between the start and the day after the end; with it each appended window
starts where the last one ended, and `RangeTiled` and `RefusedOnlyAtEnd` hold for
every calendar and window length, windows of one day included. `CommandRunsBatches` shows that the command implements the
specification of its runs, so that the theorems about runs hold of it, and
`CommandSplits` that the two about the loop hold through every range it is asked for.

### ReviewerStateProofs

`AuditPaired` says nothing inside savepoints, where rollbacks happen. The invariant
says it of every mark: up to a mark, items and audit events are paired, and nothing
is of the request that set the outer one (`MarksSound`); inside an item's savepoint
the last row is the item's and the rest is paired (`RowsSound`). `TodoSound` puts the
note last. `StatusSound` says that the status of a form is shown unless it is still
to create; it needs that a row other than a status changes nothing shown while the
page has room. These are predicates of a request's own rows and marks; `Frame` shows
that a step of one request leaves the others and their connections alone, using
`Alone` for the connection that the demo shares and `Quiet` for unused ones.

### CoveragePublicationProofs

`Mutex`: a publisher at work holds the lock file and is alone, which a kill keeps
true because it leaves the file. `RenameSound` is what its two renames rely on: what
it read as previous is still active until it archives it, and is then the last
archived package. `MadeSound` carries the name of the previous package from reading
to promotion. The refinement maps the log to the archived packages followed by the
active one: archiving, a failed promotion and its undo leave it as it is, and
promotion appends to it. `ReadSound` needs no lock: a reader has, for each file it
has loaded, what its manifest says.

### Only model-checked

Liveness (`LockReleased`, `JobsEnd`, `RunEnds` of both commands): fairness and
ENABLED are outside what the prover handles. What is proved of them is the rest of
the argument, for every value of the constants: in every reachable state something
can go on (its guard holds), and every step brings its command, job or run nearer to
its end. The step from there to the leads-to formula, and that a guard is all that an
action needs, are left to TLC.

## 5. Not modelled, and the plan

Not modelled for good: connectors and extraction (text), pages and reports
(reads), the offline SQLite pipeline (one process, one file), migrations and
scripts, preload, reload and provenance repair (single transactions around an
upsert or an update by key). Most lines of the repository are of these kinds: the pages and the
reports alone are more than half of the implementation, and their content is
wording, layout and aggregation, of which no state is kept. What changes stored
state and can interleave, fail or be interrupted is modelled. `PROJECT.json`
names each part with its reason. The identities of extraction-audit rows are the
one algorithm of the backfill that is left out: their matching compares names of
fields and document prefixes as strings.

Every invariant and action property that a passing run checks is proved, and the parts of
the liveness properties that the prover can state. Liveness itself stays with TLC.
