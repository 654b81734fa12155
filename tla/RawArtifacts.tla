----------------------------- MODULE RawArtifacts -----------------------------
(***************************************************************************)
(* The raw report files of one facility, which retrieval jobs write and a  *)
(* backfill reads again. A job stores the bytes it fetched under a path    *)
(* that is the same for every retrieval of the report, extracts from the   *)
(* file, and commits the hash with the import at its end, which puts the   *)
(* extracted values over those the row had. A backfill compares the file   *)
(* with the hash of the row, and then opens the file a second time to      *)
(* extract from it. No lock guards the files.                              *)
(***************************************************************************)
EXTENDS Naturals

CONSTANTS
    Jobs, Backfills,    \* requests and operator runs, which may overlap
    ReportCount,        \* reports of the facility
    Versions,           \* contents the public source has had for a report
    Partial,            \* a file that is truncated or not fully written
    Fields,             \* of the records of a report
    Filled,             \* those that a content has a value for, blank ones aside
    None

Workers == Jobs \cup Backfills
Reports == 1..ReportCount

ASSUME RawAssumption ==
    /\ ReportCount \in Nat
    /\ Jobs \cap Backfills = {}
    /\ {Partial, None} \cap Versions = {}
    /\ Partial # None
    /\ Filled \in [Versions \cup {Partial} -> SUBSET Fields]

VARIABLES
    file,       \* what is at raw_path of each report
    row,        \* committed source_document row with the values of its report
    pc,         \* where each worker is
    pos,        \* report that the worker is at
    hash,       \* by worker: content whose hash it computed or read from the row
    values,     \* by worker: content it extracted from
    existing,   \* by worker: what its import selected for each report
    disturbed   \* history: by worker, reports of its work that another one stored

vars == <<file, row, pc, pos, hash, values, existing, disturbed>>

\* Which content the value of each field came from, None if the field is blank.
FieldValues == [Fields -> Versions \cup {Partial, None}]

Existing == [found : BOOLEAN, values : FieldValues]

ASSUME NoneIsNoExisting == None \notin Existing

\* alone is history: nobody stored the report during the work that wrote the row.
Row == [hash : Versions, values : FieldValues, alone : BOOLEAN]

ASSUME NoneIsNoRow == None \notin Row

Nothing == [d \in Reports |-> None]

TypeOK ==
    /\ file \in [Reports -> Versions \cup {Partial, None}]
    /\ row \in [Reports -> Row \cup {None}]
    /\ pc \in [Workers -> {"idle", "fetch", "store", "verify", "extract"}]
    /\ pos \in [Workers -> 1..(ReportCount + 1)]
    /\ hash \in [Workers -> [Reports -> Versions \cup {None}]]
    /\ values \in [Workers -> [Reports -> Versions \cup {Partial, None}]]
    /\ existing \in [Workers -> [Reports -> Existing \cup {None}]]
    /\ disturbed \in [Workers -> SUBSET Reports]

Init ==
    /\ file = Nothing
    /\ row = Nothing
    /\ pc = [w \in Workers |-> "idle"]
    /\ pos = [w \in Workers |-> 1]
    /\ hash = [w \in Workers |-> Nothing]
    /\ values = [w \in Workers |-> Nothing]
    /\ existing = [w \in Workers |-> Nothing]
    /\ disturbed = [w \in Workers |-> {}]

-----------------------------------------------------------------------------

Goto(w, step) == pc' = [pc EXCEPT ![w] = step]

\* The first step that a worker takes for a report.
FirstStep(w) == IF w \in Jobs THEN "fetch" ELSE "verify"

\* The worker goes on with the next report.
Advance(w) ==
    /\ Goto(w, FirstStep(w))
    /\ pos' = [pos EXCEPT ![w] = @ + 1]

\* The worker forgets its work.
Forget(w) ==
    /\ Goto(w, "idle")
    /\ pos' = [pos EXCEPT ![w] = 1]
    /\ hash' = [hash EXCEPT ![w] = Nothing]
    /\ values' = [values EXCEPT ![w] = Nothing]
    /\ existing' = [existing EXCEPT ![w] = Nothing]
    /\ disturbed' = [disturbed EXCEPT ![w] = {}]

\* Notes, for every other worker that has the report in its work, that w writes it.
Disturb(w, d) ==
    disturbed' = [v \in Workers |->
        IF v # w /\ hash[v][d] # None THEN disturbed[v] \cup {d} ELSE disturbed[v]]

-----------------------------------------------------------------------------
(* A retrieval job.                                                        *)

StartJob(j) ==
    /\ j \in Jobs
    /\ pc[j] = "idle"
    /\ Goto(j, "fetch")
    /\ UNCHANGED <<file, row, pos, hash, values, existing, disturbed>>

At(w, step) == pc[w] = step /\ pos[w] \in Reports

\* The report is not listed or not selected, or all attempts to fetch it fail.
PassOver(j) ==
    /\ At(j, "fetch")
    /\ Advance(j)
    /\ UNCHANGED <<file, row, hash, values, existing, disturbed>>

\* A fetched report is written to its path, which first truncates the file.
StoreRaw(j) ==
    /\ At(j, "fetch")
    /\ file' = [file EXCEPT ![pos[j]] = Partial]
    /\ \E v \in Versions : hash' = [hash EXCEPT ![j][pos[j]] = v]
    /\ Disturb(j, pos[j])
    /\ Goto(j, "store")
    /\ UNCHANGED <<row, pos, values, existing>>

\* Fault: the values come from the bytes in memory while the file is incomplete.
StoredInMemory(j) ==
    /\ At(j, "store")
    /\ values' = [values EXCEPT ![j][pos[j]] = hash[j][pos[j]]]
    /\ Advance(j)
    /\ UNCHANGED <<file, row, hash, existing, disturbed>>

Stored(j) ==
    /\ At(j, "store")
    /\ file' = [file EXCEPT ![pos[j]] = hash[j][pos[j]]]
    /\ Disturb(j, pos[j])
    /\ Goto(j, "extract")
    /\ UNCHANGED <<row, pos, hash, values, existing>>

\* The write fails; the report counts as failed and the file stays as it is.
StoreFails(j) ==
    /\ At(j, "store")
    /\ hash' = [hash EXCEPT ![j][pos[j]] = None]
    /\ Advance(j)
    /\ UNCHANGED <<file, row, values, existing, disturbed>>

\* extract, normalize and validate, from the file.
Extract(w) ==
    /\ At(w, "extract")
    /\ file[pos[w]] # None
    /\ values' = [values EXCEPT ![w][pos[w]] = file[pos[w]]]
    /\ Advance(w)
    /\ UNCHANGED <<file, row, hash, existing, disturbed>>

\* A job goes on without a report that it cannot extract; a backfill gives the
\* facility up.
ExtractFails(w) ==
    /\ At(w, "extract")
    /\ IF w \in Jobs
       THEN /\ hash' = [hash EXCEPT ![w][pos[w]] = None]
            /\ Advance(w)
            /\ UNCHANGED <<values, existing, disturbed>>
       ELSE Forget(w)
    /\ UNCHANGED <<file, row>>

-----------------------------------------------------------------------------
(* A backfill of the facility.                                             *)

StartBackfill(b) ==
    /\ b \in Backfills
    /\ pc[b] = "idle"
    /\ hash' = [hash EXCEPT ![b] =
                   [d \in Reports |-> IF row[d] = None THEN None ELSE row[d].hash]]
    /\ Goto(b, "verify")
    /\ UNCHANGED <<file, row, pos, values, existing, disturbed>>

NoDocument(b) ==
    /\ At(b, "verify")
    /\ hash[b][pos[b]] = None
    /\ Advance(b)
    /\ UNCHANGED <<file, row, hash, values, existing, disturbed>>

\* Fault: the hash is not compared.
VerifyNothing(b) ==
    /\ At(b, "verify")
    /\ hash[b][pos[b]] # None
    /\ Goto(b, "extract")
    /\ UNCHANGED <<file, row, pos, hash, values, existing, disturbed>>

\* The bytes of the file have the hash of the row, ...
Verify(b) ==
    /\ At(b, "verify")
    /\ hash[b][pos[b]] # None
    /\ file[pos[b]] = hash[b][pos[b]]
    /\ Goto(b, "extract")
    /\ UNCHANGED <<file, row, pos, hash, values, existing, disturbed>>

\* ... or the facility fails.
Mismatch(b) ==
    /\ At(b, "verify")
    /\ hash[b][pos[b]] # None
    /\ file[pos[b]] # hash[b][pos[b]]
    /\ Forget(b)
    /\ UNCHANGED <<file, row>>

-----------------------------------------------------------------------------
(* The end of a job or of the facility's backfill.                         *)

\* Reports that a worker has values for.
Extracted(w) == {d \in Reports : values[w][d] # None}

Imports(w) == pc[w] = FirstStep(w) /\ pos[w] > ReportCount

\* _upsert_source_record selects the row of a report: a backfill of every one, a job of
\* those that match its request.
Select(w, d) ==
    /\ Imports(w)
    /\ d \in Extracted(w)
    /\ existing[w][d] = None
    /\ existing' = [existing EXCEPT ![w][d] =
           [found |-> row[d] # None,
            values |-> IF row[d] = None THEN [f \in Fields |-> None] ELSE row[d].values]]
    /\ UNCHANGED <<file, row, pc, pos, hash, values, disturbed>>

Selected(w) == {d \in Reports : existing[w][d] # None}

\* _merge_source_original_values: a blank keeps what was selected.
Merge(old, content) ==
    [f \in Fields |-> IF f \in Filled[content] THEN content ELSE old[f]]

\* The commit: the hash is the new one, whatever values were kept. The insert of a row
\* that another worker has inserted meanwhile would fail the transaction.
Import(w) ==
    /\ Imports(w)
    /\ w \in Backfills => Selected(w) = Extracted(w)
    /\ \A d \in Selected(w) : existing[w][d].found \/ row[d] = None
    /\ row' = [d \in Reports |->
                 IF d \in Selected(w)
                 THEN [hash |-> hash[w][d],
                       values |-> Merge(existing[w][d].values, values[w][d]),
                       alone |-> d \notin disturbed[w]]
                 ELSE row[d]]
    /\ Forget(w)
    /\ UNCHANGED file

\* A failed transaction, a stopped process, or an error outside the loop over
\* the reports: files stay as they are.
Abandon(w) ==
    /\ pc[w] # "idle"
    /\ Forget(w)
    /\ UNCHANGED <<file, row>>

Next ==
    \E w \in Workers :
        \/ StartJob(w) \/ PassOver(w) \/ StoreRaw(w) \/ Stored(w) \/ StoreFails(w)
        \/ Extract(w) \/ ExtractFails(w)
        \/ StartBackfill(w) \/ NoDocument(w) \/ Verify(w) \/ Mismatch(w)
        \/ (\E d \in Reports : Select(w, d)) \/ Import(w)
        \/ Abandon(w)

Spec == Init /\ [][Next]_vars

-----------------------------------------------------------------------------
(* Properties.                                                             *)

\* Each field that the bytes named by a row's hash have a value for was extracted
\* from those bytes, in whatever order jobs and backfills failed, stopped and were
\* repeated before, unless another worker stored the same report while the row was
\* prepared. A field they leave blank may show a value of earlier bytes.
TraceSound ==
    \A d \in Reports :
        (row[d] # None /\ row[d].alone) =>
            \A f \in Filled[row[d].hash] : row[d].values[f] = row[d].hash

\* "Raw source evidence must be preserved before extraction": when a worker that
\* was not disturbed writes a row, the file of the report is the one of the row's
\* hash, also after aborted jobs have left another one there.
EvidenceAtCommit ==
    [][\A d \in Reports :
          (row'[d] # row[d] /\ row'[d].alone) => file[d] = row'[d].hash]_vars
=============================================================================
