---------------------------- MODULE SourceRecords ----------------------------
(***************************************************************************)
(* The table of source-derived records and the null-preserving merge with  *)
(* which hosted_app/seeded_import.py writes it. One governed field stands  *)
(* for original_values; the batch is the provenance column import_batch_id.*)
(***************************************************************************)
EXTENDS Naturals, Sequences

CONSTANTS
    Keys,       \* source_record_key
    Values,     \* nonblank values of the governed field
    Batches,    \* import_batch_id
    Blank,      \* a missing, empty or placeholder value
    None        \* no row

ASSUME SourceValuesAssumption == Blank \notin Values

\* refresh_conflicts holds pairs of the previous and the incoming value.
Record == [value : Values \cup {Blank}, batch : Batches,
           conflicts : SUBSET (Values \X Values)]

ASSUME NoneIsNoRecord == None \notin Record

\* One source-derived record of an artifact.
Incoming == [key : Keys, value : Values \cup {Blank}]

Inserted(incoming, batch) ==
    [value |-> incoming.value, batch |-> batch, conflicts |-> {}]

\* Fault: a blank replaces the stored value.
MergedWithBlank(existing, incoming, batch) ==
    [value |-> incoming.value, batch |-> batch,
     conflicts |-> existing.conflicts]

\* Fault: an equal value is recorded as a conflict.
MergedAlwaysConflicting(existing, incoming, batch) ==
    LET v == existing.value
        w == incoming.value
    IN [value |-> IF w = Blank THEN v ELSE w,
        batch |-> batch,
        conflicts |-> existing.conflicts \cup
            (IF v # Blank /\ w # Blank THEN {<<v, w>>} ELSE {})]

\* _merge_source_original_values and _merge_source_traceability: a blank leaves
\* the stored value, a different nonblank value replaces it and leaves a trace.
Merged(existing, incoming, batch) ==
    LET v == existing.value
        w == incoming.value
    IN [value |-> IF w = Blank THEN v ELSE w,
        batch |-> batch,
        conflicts |-> existing.conflicts \cup
            (IF v # Blank /\ w # Blank /\ v # w THEN {<<v, w>>} ELSE {})]

\* _prepared_source_record_values: the row that _upsert_source_record writes
\* when its SELECT returned existing. A backfill keeps the batch of the row.
Prepared(existing, incoming, batch, keepBatch) ==
    IF existing = None THEN Inserted(incoming, batch)
    ELSE Merged(existing, incoming, IF keepBatch THEN existing.batch ELSE batch)
=============================================================================
