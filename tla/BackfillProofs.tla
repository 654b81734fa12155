---------------------------- MODULE BackfillProofs ----------------------------
(***************************************************************************)
(* Proofs about the two parts of ccld_backfill.py. Backfill: for any       *)
(* selection, any observations and any sequence of runs that are stopped,  *)
(* resumed and restarted. StableIdentities: for reports of any length, any *)
(* sequence of imports and reprocessings and any order of the identities.  *)
(***************************************************************************)
EXTENDS Backfill, StableIdentities, FiniteSetTheorems, TLAPS

-----------------------------------------------------------------------------
(* Backfill.                                                               *)

\* A run works on a checkpoint of the operation that the file is of; until a
\* facility is committed or has failed it is the file.
MemSound ==
    /\ file = None => committed = {}
    /\ pc # "off" => /\ file # None
                     /\ mem \in Checkpoint
                     /\ mem.operation = file.operation
                     /\ mem.completed \subseteq committed
    /\ pc \in {"next", "write"} => mem = file

\* The run is to write the checkpoint for facility f.
Handled(f) == pc \in {"committed", "failed"} /\ IsCurrent(f)

\* The facilities that a run is past, and the one it is writing the checkpoint
\* for, are completed or counted as failed.
Accounted ==
    pc # "off" =>
        \A f \in run :
            (f \notin todo \/ Handled(f)) => f \in mem.completed \/ mem.failed[f] > 0

\* What facility f would be refreshed with has no effect on its value any more: the
\* run selected the row with the value that it has, and so did the source say.
Absorbed(f) ==
    LET op == file.operation
        v == record[f].main.value
    IN /\ f \in todo => rows[f] = v \/ Handled(f)
       /\ Observed[op][f] \in {Blank, v}

\* That holds for every committed facility whose row nobody else has changed.
SettledSound == \A f \in settled : Absorbed(f)

\* The row that the run has selected is the row of a settled facility still.
BaseSound ==
    pc = "write" =>
        /\ base \in FacilityRow
        /\ \A f \in settled : IsCurrent(f) => base = record[f]

\* The inductive invariant.
IInv ==
    /\ TypeOK
    /\ MemSound
    /\ CheckpointTruthful
    /\ Accounted
    /\ SettledSound
    /\ BaseSound

-----------------------------------------------------------------------------
(* The merge.                                                              *)

\* What the upsert writes over a record for value w: a record that has w, or the
\* stored value if w is blank, and has the earlier conflicts and one for a replaced
\* value.
LEMMA PreparedProperties ==
    ASSUME NEW e \in Record, NEW k, NEW w \in Values \cup {Blank},
           NEW b \in Batches, NEW keep \in BOOLEAN
    PROVE  LET p == Prepared(e, [key |-> k, value |-> w], b, keep)
           IN /\ p \in Record
              /\ p.value = IF w = Blank THEN e.value ELSE w
              /\ e.conflicts \subseteq p.conflicts
              /\ e.value # Blank => p.value = e.value
                                    \/ <<e.value, p.value>> \in p.conflicts
  <1> DEFINE batch == IF keep THEN e.batch ELSE b
             in == [key |-> k, value |-> w]
  <1>1. e # None /\ batch \in Batches
    BY NoneIsNoRecord DEF Record
  <1>2. Prepared(e, in, b, keep) = Merged(e, in, batch)
    BY <1>1 DEF Prepared
  <1>3. e.value \in Values \cup {Blank} /\ e.conflicts \subseteq Values \X Values
    BY DEF Record
  <1>4. Merged(e, in, batch) =
          [value |-> IF w = Blank THEN e.value ELSE w, batch |-> batch,
           conflicts |-> e.conflicts \cup
               (IF e.value # Blank /\ w # Blank /\ e.value # w
                THEN {<<e.value, w>>} ELSE {})]
    BY DEF Merged
  <1>5. Merged(e, in, batch) \in Record
    BY <1>1, <1>3, <1>4 DEF Record
  <1>6. QED
    BY <1>2, <1>4, <1>5

\* A backfill that brings nothing new leaves the record as it is.
LEMMA PreparedIdempotent ==
    ASSUME NEW e \in Record, NEW k, NEW w \in {Blank, e.value}, NEW b \in Batches
    PROVE  Prepared(e, [key |-> k, value |-> w], b, TRUE) = e
  <1>1. Prepared(e, [key |-> k, value |-> w], b, TRUE) =
          [value |-> e.value, batch |-> e.batch, conflicts |-> e.conflicts]
    BY NoneIsNoRecord DEF Prepared, Merged
  <1>2. QED
    BY <1>1 DEF Record

\* What a run projects for a facility is a value or blank.
LEMMA ProjectedProperties ==
    ASSUME TypeOK, mem \in Checkpoint, NEW f \in Facilities
    PROVE  /\ mem.operation \in Operations
           /\ Projected(f) \in Values \cup {Blank}
           /\ ReferenceConflicts(f) \subseteq Values \X Values
  <1>1. mem.operation \in Operations
    BY DEF Checkpoint
  <1>2. Observed[mem.operation][f] \in Values \cup {Blank}
    BY <1>1, BackfillAssumption
  <1>3. rows[f] \in Values \cup {Blank}
    BY DEF TypeOK
  <1>4. Projected(f) \in Values \cup {Blank}
    BY <1>2, <1>3 DEF Projected
  <1>5. HasReference(f) => Projected(f) \in Values
    BY <1>2, SourceValuesAssumption DEF HasReference, Projected
  <1>6. ReferenceConflicts(f) \subseteq Values \X Values
    BY <1>3, <1>5 DEF ReferenceConflicts
  <1>7. QED
    BY <1>1, <1>4, <1>6

\* The refreshed row is one with the projected value, and with the conflicts of the
\* selected row.
LEMMA RefreshedProperties ==
    ASSUME TypeOK, mem \in Checkpoint, base \in FacilityRow, NEW f \in Facilities
    PROVE  LET old == base.main
               new == Refreshed(f).main
           IN /\ Refreshed(f) \in FacilityRow
              /\ new.value = IF Projected(f) = Blank THEN old.value ELSE Projected(f)
              /\ Projected(f) \in {Blank, old.value} => new = old
              /\ old.conflicts \subseteq new.conflicts
              /\ old.value # Blank => \/ new.value = old.value
                                      \/ <<old.value, new.value>> \in new.conflicts
              /\ Refreshed(f).trace.refresh
                    \in {base.trace.refresh, ReferenceConflicts(f)}
  <1> DEFINE new == Prepared(base.main, [key |-> f, value |-> Projected(f)],
                             BackfillBatch, TRUE)
             refresh == IF HasReference(f) THEN ReferenceConflicts(f)
                        ELSE base.trace.refresh
             artifact == IF mem.operation = "preserved-artifacts" /\ new = base.main
                         THEN base.trace.artifact
                         ELSE <<mem.operation, Projected(f), ReferenceConflicts(f)>>
  <1>1. base.main \in Record /\ base.trace \in Trace /\ BackfillBatch \in Batches
    BY BackfillAssumption DEF FacilityRow
  <1>2. Refreshed(f) = [main |-> new, trace |-> [refresh |-> refresh,
                                                 artifact |-> artifact]]
    BY DEF Refreshed
  <1>3. /\ new \in Record
        /\ new.value = IF Projected(f) = Blank THEN base.main.value ELSE Projected(f)
        /\ base.main.conflicts \subseteq new.conflicts
        /\ base.main.value # Blank => \/ new.value = base.main.value
                                      \/ <<base.main.value, new.value>> \in new.conflicts
    BY <1>1, ProjectedProperties, PreparedProperties
  <1>4. Projected(f) \in {Blank, base.main.value} => new = base.main
    BY <1>1, PreparedIdempotent
  <1> HIDE DEF new
  <1>5. [refresh |-> refresh, artifact |-> artifact] \in Trace
    BY <1>1, ProjectedProperties DEF Trace
  <1>6. QED
    BY <1>2, <1>3, <1>4, <1>5 DEF FacilityRow

\* One facility is the current one.
LEMMA CurrentUnique ==
    ASSUME TypeOK, NEW f \in Facilities, NEW g \in Facilities,
           IsCurrent(f), IsCurrent(g)
    PROVE  f = g
  BY BackfillAssumption DEF IsCurrent

\* What is absorbed is not projected as anything new, whatever the operation: the
\* repeat writes no other value and finds no conflict with the reference.
LEMMA AbsorbedProjection ==
    ASSUME IInv, pc \in {"next", "write"}, NEW f \in settled, f \in todo
    PROVE  /\ Projected(f) \in {Blank, record[f].main.value}
           /\ ReferenceConflicts(f) = {}
  <1>1. Absorbed(f) /\ ~Handled(f) /\ mem.operation = file.operation
    BY DEF IInv, SettledSound, Handled, MemSound
  <1>2. /\ rows[f] = record[f].main.value
        /\ Observed[mem.operation][f] \in {Blank, record[f].main.value}
    BY <1>1 DEF Absorbed
  <1>3. Projected(f) \in {Blank, record[f].main.value}
    BY <1>2 DEF Projected
  <1>4. HasReference(f) => Projected(f) = rows[f]
    BY <1>2 DEF HasReference, Projected
  <1>5. QED
    BY <1>3, <1>4 DEF ReferenceConflicts

-----------------------------------------------------------------------------

\* Before the first run there is no checkpoint and nothing is committed.
LEMMA InitIInv == Init => IInv
  <1> SUFFICES ASSUME Init PROVE IInv
    OBVIOUS
  <1>1. TypeOK
    <2>1. record \in [Facilities -> FacilityRow]
      BY BackfillAssumption DEF Init, FacilityRow, Trace
    <2>2. rows \in [Facilities -> Values \cup {Blank}]
      BY <2>1 DEF Init, SelectedRows, FacilityRow, Record
    <2>3. QED
      BY <2>1, <2>2, BackfillAssumption DEF Init, TypeOK
  <1>2. /\ MemSound /\ CheckpointTruthful /\ Accounted /\ SettledSound
        /\ BaseSound
    BY DEF Init, MemSound, CheckpointTruthful, Accounted, SettledSound, BaseSound
  <1>3. QED
    BY <1>1, <1>2 DEF IInv

-----------------------------------------------------------------------------
(* One lemma for each kind of step.                                        *)

\* The selected values are values or blank.
LEMMA SelectedRowsType ==
    ASSUME TypeOK
    PROVE  SelectedRows \in [Facilities -> Values \cup {Blank}]
  BY DEF TypeOK, SelectedRows, FacilityRow, Record

\* A new selection starts with nothing completed and nothing committed.
LEMMA StartNewIInv ==
    ASSUME IInv, NEW op \in Operations, StartNew(op)
    PROVE  IInv'
  <1>1. NewCheckpoint(op) \in Checkpoint
    BY BackfillAssumption DEF IInv, TypeOK, NewCheckpoint, Checkpoint
  <1>2. FirstOf(available, MaxFacilities) \subseteq Facilities
    BY DEF IInv, TypeOK, FirstOf
  <1>3. TypeOK'
    BY <1>1, <1>2, SelectedRowsType DEF IInv, TypeOK, StartNew
  <1>4. MemSound' /\ CheckpointTruthful'
    BY <1>1, NoneIsNoCheckpoint
       DEF StartNew, MemSound, CheckpointTruthful, NewCheckpoint
  <1>5. Accounted' /\ SettledSound' /\ BaseSound'
    BY DEF StartNew, Accounted, Handled, SettledSound, BaseSound
  <1>6. QED
    BY <1>3, <1>4, <1>5 DEF IInv

\* A resumed run selects the rows again, with the values that are committed.
LEMMA ResumeIInv ==
    ASSUME IInv, Resume
    PROVE  IInv'
  <1>1. file \in Checkpoint
    BY DEF IInv, TypeOK, Resume
  <1>2. FirstOf(file.selected \ file.completed, MaxFacilities) \subseteq Facilities
    BY <1>1 DEF FirstOf, Checkpoint
  <1>3. TypeOK'
    BY <1>1, <1>2, SelectedRowsType DEF IInv, TypeOK, Resume
  <1>4. MemSound' /\ CheckpointTruthful'
    BY <1>1 DEF IInv, Resume, MemSound, CheckpointTruthful
  <1>5. Accounted' /\ BaseSound'
    BY DEF Resume, Accounted, Handled, BaseSound
  <1>6. SettledSound'
    BY DEF IInv, TypeOK, Resume, SettledSound, Absorbed, SelectedRows
  <1>7. QED
    BY <1>3, <1>4, <1>5, <1>6 DEF IInv

\* The row of the current facility is selected.
LEMMA ReadFacilityIInv ==
    ASSUME IInv, NEW f \in Facilities, ReadFacility(f)
    PROVE  IInv'
  <1>1. TypeOK'
    BY DEF IInv, TypeOK, ReadFacility
  <1>2. MemSound' /\ CheckpointTruthful'
    BY DEF IInv, ReadFacility, MemSound, CheckpointTruthful
  <1>3. Accounted' /\ SettledSound'
    BY DEF IInv, ReadFacility, Accounted, Handled, SettledSound, Absorbed, IsCurrent
  <1>4. BaseSound'
    <2>1. base' = record[f] /\ base' \in FacilityRow
      BY DEF IInv, TypeOK, ReadFacility
    <2>2. ASSUME NEW g \in settled, IsCurrent(g)
          PROVE  g = f
      BY <2>2, CurrentUnique DEF IInv, TypeOK, ReadFacility
    <2>3. QED
      BY <2>1, <2>2 DEF ReadFacility, BaseSound, IsCurrent
  <1>5. QED
    BY <1>1, <1>2, <1>3, <1>4 DEF IInv

\* What is stored for the current facility is a row.
LEMMA StoreTyped ==
    ASSUME IInv, NEW f \in Facilities, pc = "write", StoreFacility(f)
    PROVE  /\ record' \in [Facilities -> FacilityRow]
           /\ committed' = committed \cup {f}
           /\ settled' \in SUBSET committed'
  <1>1. mem \in Checkpoint /\ base \in FacilityRow
    BY DEF IInv, MemSound, BaseSound
  <1>2. Refreshed(f) \in FacilityRow
    BY <1>1, RefreshedProperties DEF IInv
  <1>3. QED
    BY <1>2 DEF IInv, TypeOK, StoreFacility

\* A committed refresh of the current facility has its value in the row, so that
\* repeating it changes no value; the others are as settled as before.
LEMMA StoreSettled ==
    ASSUME IInv, NEW f \in Facilities, IsCurrent(f), pc = "write",
           StoreFacility(f),
           pc' \in {"committed", "failed"},
           UNCHANGED <<file, todo, rows>>
    PROVE  SettledSound'
  <1>1. /\ mem \in Checkpoint /\ mem.operation = file.operation
        /\ base \in FacilityRow
    BY DEF IInv, MemSound, BaseSound
  <1>2. ASSUME base = record[f]
        PROVE  Absorbed(f)'
    <2>1. record'[f] = Refreshed(f)
      BY <1>2 DEF IInv, TypeOK, StoreFacility
    <2>2. record'[f].main.value =
            IF Projected(f) = Blank THEN base.main.value ELSE Projected(f)
      BY <1>1, <2>1, RefreshedProperties DEF IInv
    <2>3. Observed[file.operation][f] \in {Blank, Projected(f)}
      BY <1>1 DEF Projected
    <2>4. Handled(f)'
      BY DEF Handled, IsCurrent
    <2>5. QED
      BY <2>2, <2>3, <2>4 DEF Absorbed
  <1>3. ASSUME NEW g \in settled, g # f
        PROVE  Absorbed(g)'
    <2>1. record'[g] = record[g] /\ g \in Facilities
      BY <1>3 DEF IInv, TypeOK, StoreFacility
    <2>2. QED
      BY <1>3, <2>1 DEF IInv, SettledSound, Absorbed, Handled
  <1>4. f \in settled => base = record[f]
    BY DEF IInv, BaseSound
  <1>5. QED
    BY <1>2, <1>3, <1>4 DEF SettledSound, StoreFacility

\* Completion is noted in memory.
LEMMA CompletingMem ==
    ASSUME mem \in Checkpoint, NEW f \in Facilities, Completing(f)
    PROVE  /\ mem' \in Checkpoint
           /\ mem'.operation = mem.operation
           /\ mem'.completed = mem.completed \cup {f}
           /\ \A g \in Facilities : g # f => mem'.failed[g] = mem.failed[g]
  <1>1. /\ mem.operation \in Operations /\ mem.selected \in SUBSET Facilities
        /\ mem.completed \in SUBSET Facilities
        /\ mem.failed \in [Facilities -> 0..MaxAttempts]
    BY DEF Checkpoint
  <1>2. mem' = [operation |-> mem.operation, selected |-> mem.selected,
                completed |-> mem.completed \cup {f},
                failed |-> [mem.failed EXCEPT ![f] = 0]]
    BY DEF Completing, Checkpoint
  <1>3. [mem.failed EXCEPT ![f] = 0] \in [Facilities -> 0..MaxAttempts]
    BY <1>1, BackfillAssumption
  <1>4. QED
    BY <1>1, <1>2, <1>3 DEF Checkpoint

\* The commit of a facility precedes its completion in the checkpoint.
LEMMA CommitFacilityIInv ==
    ASSUME IInv, NEW f \in Facilities, CommitFacility(f) \/ SkipFacility(f)
    PROVE  IInv'
  <1>1. /\ mem \in Checkpoint /\ mem = file
        /\ Completing(f) /\ IsCurrent(f)
        /\ UNCHANGED <<available, file, todo, run, rows, other, refreshes>>
        /\ pc \in {"next", "write"}
    BY DEF IInv, MemSound, CommitFacility, SkipFacility
  <1>2. /\ mem' \in Checkpoint
        /\ mem'.operation = mem.operation
        /\ mem'.completed = mem.completed \cup {f}
        /\ \A g \in Facilities : g # f => mem'.failed[g] = mem.failed[g]
    BY <1>1, CompletingMem
  <1>3. /\ record' \in [Facilities -> FacilityRow]
        /\ committed' = committed \cup {f}
        /\ settled' \in SUBSET committed'
    <2>1. CASE CommitFacility(f)
      BY <2>1, StoreTyped DEF CommitFacility
    <2>2. CASE SkipFacility(f)
      BY <2>2 DEF IInv, TypeOK, SkipFacility
    <2>3. QED
      BY <2>1, <2>2
  <1>4. TypeOK'
    BY <1>1, <1>2, <1>3 DEF IInv, TypeOK, Completing
  <1>5. MemSound' /\ CheckpointTruthful' /\ BaseSound'
    BY <1>1, <1>2, <1>3
       DEF IInv, Completing, MemSound, CheckpointTruthful, BaseSound
  <1>6. Accounted'
    <2>1. ASSUME NEW g \in Facilities, IsCurrent(g)
          PROVE  g = f
      BY <1>1, <2>1, CurrentUnique DEF IInv
    <2>2. run \subseteq Facilities
      BY DEF IInv, TypeOK
    <2>3. QED
      BY <1>1, <1>2, <2>1, <2>2
         DEF IInv, Completing, Accounted, Handled, IsCurrent
  <1>7. SettledSound'
    <2>1. CASE CommitFacility(f)
      BY <2>1, StoreSettled DEF CommitFacility, Completing
    <2>2. CASE SkipFacility(f)
      BY <1>1, <2>2
         DEF IInv, SkipFacility, Completing, SettledSound, Absorbed, Handled, IsCurrent
    <2>3. QED
      BY <2>1, <2>2
  <1>8. QED
    BY <1>4, <1>5, <1>6, <1>7 DEF IInv

\* A failed attempt is counted in memory.
LEMMA FailingMem ==
    ASSUME mem \in Checkpoint, NEW f \in Facilities, Failing(f)
    PROVE  /\ mem' \in Checkpoint
           /\ mem'.operation = mem.operation
           /\ mem'.completed = mem.completed
           /\ mem'.failed[f] > 0
           /\ \A g \in Facilities : g # f => mem'.failed[g] = mem.failed[g]
  BY BackfillAssumption DEF Failing, Checkpoint

\* A failed attempt is counted, whether its commit took effect or not.
LEMMA FailFacilityIInv ==
    ASSUME IInv, NEW f \in Facilities, FailFacility(f)
    PROVE  IInv'
  <1>1. mem \in Checkpoint /\ mem = file /\ Failing(f) /\ IsCurrent(f)
    BY DEF IInv, MemSound, FailFacility
  <1>2. /\ mem' \in Checkpoint
        /\ mem'.operation = mem.operation
        /\ mem'.completed = mem.completed
        /\ mem'.failed[f] > 0
        /\ \A g \in Facilities : g # f => mem'.failed[g] = mem.failed[g]
    BY <1>1, FailingMem
  <1>3. /\ record' \in [Facilities -> FacilityRow]
        /\ committed' \in SUBSET Facilities /\ committed \subseteq committed'
        /\ settled' \in SUBSET committed'
    <2>1. CASE UNCHANGED <<record, committed, settled>>
      BY <2>1 DEF IInv, TypeOK
    <2>2. CASE pc = "write" /\ StoreFacility(f)
      BY <2>2, StoreTyped DEF IInv, TypeOK
    <2>3. QED
      BY <2>1, <2>2 DEF FailFacility
  <1>4. TypeOK'
    BY <1>1, <1>2, <1>3 DEF IInv, TypeOK, FailFacility, Failing
  <1>5. MemSound' /\ CheckpointTruthful' /\ BaseSound'
    BY <1>1, <1>2, <1>3
       DEF IInv, FailFacility, Failing, MemSound, CheckpointTruthful, BaseSound
  <1>6. Accounted'
    <2>1. ASSUME NEW g \in Facilities, IsCurrent(g)
          PROVE  g = f
      BY <1>1, <2>1, CurrentUnique DEF IInv
    <2>2. run \subseteq Facilities
      BY DEF IInv, TypeOK
    <2>3. QED
      BY <1>1, <1>2, <2>1, <2>2
         DEF IInv, FailFacility, Failing, Accounted, Handled, IsCurrent
  <1>7. SettledSound'
    <2>1. CASE UNCHANGED <<record, committed, settled>>
      BY <2>1 DEF IInv, FailFacility, Failing, SettledSound, Absorbed, Handled, IsCurrent
    <2>2. CASE pc = "write" /\ StoreFacility(f)
      BY <2>2, StoreSettled DEF FailFacility, Failing
    <2>3. QED
      BY <2>1, <2>2 DEF FailFacility
  <1>8. QED
    BY <1>4, <1>5, <1>6, <1>7 DEF IInv

\* The checkpoint is written and the facility leaves the list.
LEMMA WriteCheckpointIInv ==
    ASSUME IInv, NEW f \in Facilities, WriteCheckpoint(f)
    PROVE  IInv'
  <1>1. mem \in Checkpoint
    BY DEF IInv, MemSound, WriteCheckpoint
  <1>2. TypeOK'
    BY <1>1 DEF IInv, TypeOK, WriteCheckpoint
  <1>3. MemSound' /\ CheckpointTruthful' /\ BaseSound'
    BY <1>1, NoneIsNoCheckpoint
       DEF IInv, WriteCheckpoint, MemSound, CheckpointTruthful, BaseSound
  <1>4. Accounted'
    BY DEF IInv, WriteCheckpoint, Accounted, Handled
  <1>5. SettledSound'
    <2>1. ASSUME NEW g \in settled, g \in todo, g # f
          PROVE  ~IsCurrent(g)
      BY <2>1, CurrentUnique DEF IInv, TypeOK, WriteCheckpoint
    <2>2. file'.operation = file.operation
      BY DEF IInv, MemSound, WriteCheckpoint
    <2>3. QED
      BY <2>1, <2>2 DEF IInv, WriteCheckpoint, SettledSound, Absorbed, Handled
  <1>6. QED
    BY <1>2, <1>3, <1>4, <1>5 DEF IInv

\* A checkpoint that cannot be written after the commit counts as a failure.
LEMMA WriteAfterCommitFailsIInv ==
    ASSUME IInv, NEW f \in Facilities, WriteAfterCommitFails(f)
    PROVE  IInv'
  <1>1. mem \in Checkpoint /\ Failing(f)
    BY DEF IInv, MemSound, WriteAfterCommitFails
  <1>2. /\ mem' \in Checkpoint
        /\ mem'.operation = mem.operation
        /\ mem'.completed = mem.completed
        /\ mem'.failed[f] > 0
        /\ \A g \in Facilities : g # f => mem'.failed[g] = mem.failed[g]
    BY <1>1, FailingMem
  <1>3. TypeOK'
    BY <1>2 DEF IInv, TypeOK, WriteAfterCommitFails, Failing
  <1>4. MemSound' /\ CheckpointTruthful' /\ BaseSound'
    BY <1>2 DEF IInv, WriteAfterCommitFails, Failing, MemSound, CheckpointTruthful,
                BaseSound
  <1>5. Accounted'
    BY <1>2 DEF IInv, TypeOK, WriteAfterCommitFails, Failing, Accounted, Handled,
                IsCurrent
  <1>6. SettledSound'
    BY DEF IInv, WriteAfterCommitFails, Failing, SettledSound, Absorbed, Handled,
           IsCurrent
  <1>7. QED
    BY <1>3, <1>4, <1>5, <1>6 DEF IInv

\* A run that ends or stops leaves the file behind.
LEMMA EndIInv ==
    ASSUME IInv, Finish \/ Stop
    PROVE  IInv'
  <1>1. TypeOK'
    BY DEF IInv, TypeOK, Finish, Stop
  <1>2. MemSound' /\ CheckpointTruthful' /\ Accounted' /\ BaseSound'
    BY DEF IInv, Finish, Stop, MemSound, CheckpointTruthful, Accounted, BaseSound
  <1>3. SettledSound'
    BY DEF IInv, Finish, Stop, SettledSound, Absorbed
  <1>4. QED
    BY <1>1, <1>2, <1>3 DEF IInv

\* A row that somebody else refreshes is not settled any more.
LEMMA WriteElsewhereIInv ==
    ASSUME IInv, NEW v \in Values \cup {Blank}, WriteElsewhere(v)
    PROVE  IInv'
  <1>1. PICK c \in JobRefreshes(v) :
          record' = [record EXCEPT ![other.key] =
              [main |-> Prepared(other.base.main, [key |-> other.key, value |-> v],
                                 OtherBatch, FALSE),
               trace |-> [refresh |-> c, artifact |-> None]]]
    BY DEF WriteElsewhere
  <1>2. other \in [key : Facilities, base : FacilityRow]
    BY DEF IInv, TypeOK, WriteElsewhere
  <1>3. Prepared(other.base.main, [key |-> other.key, value |-> v], OtherBatch, FALSE)
          \in Record
    BY <1>2, PreparedProperties, BackfillAssumption DEF FacilityRow
  <1>4. c \subseteq Values \X Values
    BY <1>2 DEF JobRefreshes, FacilityRow, Trace
  <1>5. record' \in [Facilities -> FacilityRow]
    BY <1>1, <1>2, <1>3, <1>4 DEF IInv, TypeOK, FacilityRow, Trace
  <1>6. ASSUME NEW f \in Facilities, f # other.key
        PROVE  record'[f] = record[f]
    BY <1>1, <1>6 DEF IInv, TypeOK
  <1>7. settled' = settled \ {other.key} /\ settled \subseteq Facilities
    BY DEF IInv, TypeOK, WriteElsewhere
  <1>8. TypeOK'
    BY <1>5, <1>7 DEF IInv, TypeOK, WriteElsewhere
  <1>9. MemSound' /\ CheckpointTruthful' /\ Accounted'
    BY DEF IInv, WriteElsewhere, MemSound, CheckpointTruthful, Accounted, Handled,
           IsCurrent
  <1>10. SettledSound' /\ BaseSound'
    BY <1>6, <1>7 DEF IInv, WriteElsewhere, SettledSound, Absorbed, Handled, BaseSound,
                      IsCurrent
  <1>11. QED
    BY <1>8, <1>9, <1>10 DEF IInv

\* A new row or a row that is read elsewhere is no concern of the run.
LEMMA ElsewhereIInv ==
    ASSUME IInv, NEW f \in Facilities, AddFacilityRow(f) \/ ReadElsewhere(f)
    PROVE  IInv'
  <1>1. TypeOK'
    <2>1. CASE AddFacilityRow(f)
      BY <2>1 DEF IInv, TypeOK, AddFacilityRow
    <2>2. CASE ReadElsewhere(f)
      <3>1. other' \in [key : Facilities, base : FacilityRow]
        BY <2>2 DEF IInv, TypeOK, ReadElsewhere
      <3>2. refreshes' \in 0..MaxRefreshes
        BY <2>2, BackfillAssumption DEF IInv, TypeOK, ReadElsewhere
      <3>3. QED
        BY <2>2, <3>1, <3>2 DEF IInv, TypeOK, ReadElsewhere
    <2>3. QED
      BY <2>1, <2>2
  <1>2. MemSound' /\ CheckpointTruthful' /\ Accounted'
    BY DEF IInv, AddFacilityRow, ReadElsewhere, MemSound, CheckpointTruthful,
           Accounted, Handled, IsCurrent
  <1>3. SettledSound' /\ BaseSound'
    BY DEF IInv, AddFacilityRow, ReadElsewhere, SettledSound, Absorbed, Handled,
           BaseSound, IsCurrent
  <1>4. QED
    BY <1>1, <1>2, <1>3 DEF IInv

-----------------------------------------------------------------------------

\* Every step preserves the invariant.
LEMMA NextIInv == IInv /\ [Next]_vars => IInv'
  <1> SUFFICES ASSUME IInv, [Next]_vars PROVE IInv'
    OBVIOUS
  <1>1. CASE Next
    BY <1>1, StartNewIInv, ResumeIInv, ReadFacilityIInv, CommitFacilityIInv,
       FailFacilityIInv, WriteCheckpointIInv, WriteAfterCommitFailsIInv, EndIInv,
       ElsewhereIInv, WriteElsewhereIInv
       DEF Next, Work
  <1>2. CASE UNCHANGED vars
    BY <1>2 DEF vars, IInv, TypeOK, MemSound, CheckpointTruthful, Accounted,
                SettledSound, Absorbed, Handled, BaseSound, IsCurrent
  <1>3. QED
    BY <1>1, <1>2

\* The invariant holds in every reachable state.
THEOREM Invariance == Spec => []IInv
  BY InitIInv, NextIInv, PTL DEF Spec

\* Type correctness of rows, checkpoint and run.
THEOREM TypeCorrect == Spec => []TypeOK
  <1>1. IInv => TypeOK
    BY DEF IInv
  <1>2. QED
    BY Invariance, <1>1, PTL

\* The checkpoint never claims an uncommitted update.
THEOREM CheckpointIsTruthful == Spec => []CheckpointTruthful
  <1>1. IInv => CheckpointTruthful
    BY DEF IInv
  <1>2. QED
    BY Invariance, <1>1, PTL

-----------------------------------------------------------------------------
(* Action properties.                                                      *)

\* A row is changed by an upsert of the current facility of a run, or by others.
LEMMA RecordStep ==
    ASSUME IInv, Next, NEW f \in Facilities, record'[f] # record[f]
    PROVE  \/ /\ mem \in Checkpoint /\ base \in FacilityRow
              /\ pc = "write" /\ IsCurrent(f)
              /\ record'[f] = Refreshed(f)
           \/ f \notin settled' /\ pc' = pc
  <1>1. record' # record
    OBVIOUS
  <1>2. CASE \E v \in Values \cup {Blank} : WriteElsewhere(v)
    <2>1. record'[f] = record[f] \/ f = other.key
      BY <1>2 DEF IInv, TypeOK, WriteElsewhere
    <2>2. QED
      BY <1>2, <2>1 DEF WriteElsewhere
  <1>3. ASSUME NEW g \in Facilities, CommitFacility(g) \/ FailFacility(g)
        PROVE  /\ mem \in Checkpoint /\ base \in FacilityRow
               /\ pc = "write" /\ IsCurrent(f)
               /\ record'[f] = Refreshed(f)
    <2>1. pc = "write" /\ IsCurrent(g) /\ StoreFacility(g)
      BY <1>1, <1>3 DEF CommitFacility, FailFacility
    <2>2. g = f /\ record'[f] = Refreshed(f)
      BY <2>1 DEF IInv, TypeOK, StoreFacility
    <2>3. QED
      BY <2>1, <2>2 DEF IInv, MemSound, BaseSound
  <1>4. QED
    BY <1>1, <1>2, <1>3
       DEF Next, Work, StartNew, Resume, ReadFacility, SkipFacility, WriteCheckpoint,
           WriteAfterCommitFails, Finish, Stop, AddFacilityRow, ReadElsewhere

\* Examining a committed facility again leaves value, batch and recorded conflicts as
\* they are, and at most empties the list of conflicts with the reference.
THEOREM RepeatKeepsItsValues == Spec => RepeatKeepsValues
  <1>1. ASSUME IInv, [Next]_vars
        PROVE  [\A f \in settled \cap settled' :
                  /\ record'[f].main = record[f].main
                  /\ record'[f].trace.refresh
                        \in {record[f].trace.refresh, {}}]_vars
    <2>1. SUFFICES ASSUME Next, NEW f \in settled, f \in settled',
                          record'[f] # record[f]
                   PROVE  /\ record'[f].main = record[f].main
                          /\ record'[f].trace.refresh
                                \in {record[f].trace.refresh, {}}
      BY <1>1
    <2>2. f \in Facilities
      BY <1>1 DEF IInv, TypeOK
    <2>3. /\ mem \in Checkpoint /\ base \in FacilityRow
          /\ pc = "write" /\ IsCurrent(f)
          /\ record'[f] = Refreshed(f)
      BY <1>1, <2>1, <2>2, RecordStep
    <2>4. base = record[f]
      BY <1>1, <2>3 DEF IInv, BaseSound
    <2>5. /\ Projected(f) \in {Blank, record[f].main.value}
          /\ ReferenceConflicts(f) = {}
      BY <1>1, <2>3, AbsorbedProjection DEF IsCurrent
    <2>6. QED
      BY <1>1, <2>2, <2>3, <2>4, <2>5, RefreshedProperties DEF IInv
  <1>2. QED
    BY Invariance, <1>1, PTL DEF Spec, RepeatKeepsValues

\* A run that upserts a row over what it selected blanks no value, replaces none
\* without a conflict on record, and keeps the conflicts.
THEOREM ReplacedValueIsTraced == Spec => ReplacedValueTraced
  <1> DEFINE Traced(f) ==
        /\ record[f].main.conflicts \subseteq record'[f].main.conflicts
        /\ record[f].main.value # Blank =>
              \/ record'[f].main.value = record[f].main.value
              \/ <<record[f].main.value, record'[f].main.value>>
                    \in record'[f].main.conflicts
  <1>1. ASSUME IInv, [Next]_vars
        PROVE  [\A f \in Facilities :
                  (pc = "write" /\ pc' # "write" /\ base = record[f]) => Traced(f)]_vars
    <2>1. SUFFICES ASSUME Next, NEW f \in Facilities, base = record[f],
                          record'[f] # record[f], pc' # pc
                   PROVE  Traced(f)
      BY <1>1
    <2>2. mem \in Checkpoint /\ base \in FacilityRow /\ record'[f] = Refreshed(f)
      BY <1>1, <2>1, RecordStep
    <2>3. QED
      BY <1>1, <2>1, <2>2, RefreshedProperties DEF IInv
  <1>2. QED
    BY Invariance, <1>1, PTL DEF Spec, ReplacedValueTraced

\* A run that goes to its end has every facility completed or counted as failed.
THEOREM RunIsAccounted == Spec => RunAccounted
  <1>1. ASSUME IInv, [Next]_vars
        PROVE  [(pc = "next" /\ todo = {} /\ pc' = "off") =>
                  \A f \in run : f \in file.completed \/ file.failed[f] > 0]_vars
    BY <1>1 DEF IInv, Accounted, MemSound
  <1>2. QED
    BY Invariance, <1>1, PTL DEF Spec, RunAccounted

-----------------------------------------------------------------------------
(* StableIdentities: induction, largest elements and places in an order.   *)

\* Induction on the numbers up to m, for a set of those that have a property.
LEMMA UpTo ==
    ASSUME NEW m \in Nat, NEW S, 0 \in S, \A n \in 1..m : n - 1 \in S => n \in S
    PROVE  0..m \subseteq S
<1> DEFINE bad == (0..m) \ S
           starts == {0..k : k \in bad}
           order == StrictSubsetOrdering(Nat)
<1> SUFFICES ASSUME bad # {} PROVE FALSE
    OBVIOUS
<1>1. starts \subseteq FiniteSubsetsOf(Nat) /\ starts # {}
    <2>1. \A k \in bad : 0..k \in FiniteSubsetsOf(Nat)
        BY FS_Interval DEF FiniteSubsetsOf
    <2> QED BY <2>1
<1>2. IsWellFoundedOn(order, FiniteSubsetsOf(Nat))
    BY FS_StrictSubsetOrderingWellFounded
<1>3. PICK T \in starts : \A U \in starts : <<U, T>> \notin order
    <2> HIDE DEF starts, order
    <2> QED BY <1>1, <1>2, WFMin
<1>4. PICK k \in bad : T = 0..k
    BY <1>3
<1>5. k # 0 /\ k - 1 \in bad
    BY <1>4
<1>6. 0..(k - 1) \in starts
    BY <1>5
<1>7. <<0..(k - 1), T>> \in order
    <2>1. 0..(k-1) \in SUBSET Nat /\ T \in SUBSET Nat
        BY <1>4, <1>5
    <2>2. 0..(k-1) \subseteq T /\ k \in T /\ k \notin 0..(k-1)
        BY <1>4, <1>5
    <2> QED BY <2>1, <2>2 DEF StrictSubsetOrdering
<1> QED BY <1>3, <1>6, <1>7

\* A set of numbers that has a bound and is not empty has a largest element.
LEMMA MaxProperties ==
    ASSUME NEW M \in Nat, NEW S \in SUBSET (0..M), S # {}
    PROVE  Max(S) \in S /\ \A y \in S : y <= Max(S)
<1> DEFINE ends == {k..M : k \in S}
           order == StrictSubsetOrdering(Nat)
<1>1. ends \subseteq FiniteSubsetsOf(Nat) /\ ends # {}
    <2>1. \A k \in S : k..M \in FiniteSubsetsOf(Nat)
        BY FS_Interval DEF FiniteSubsetsOf
    <2> QED BY <2>1
<1>2. IsWellFoundedOn(order, FiniteSubsetsOf(Nat))
    BY FS_StrictSubsetOrderingWellFounded
<1>3. PICK T \in ends : \A U \in ends : <<U, T>> \notin order
    <2> HIDE DEF ends, order
    <2> QED BY <1>1, <1>2, WFMin
<1>4. PICK k \in S : T = k..M
    BY <1>3
<1>5. ASSUME NEW y \in S, y > k
      PROVE  FALSE
    <2>1. y..M \in SUBSET Nat /\ T \in SUBSET Nat
        BY <1>4
    <2>2. y..M \subseteq T /\ k \in T /\ k \notin y..M
        BY <1>4, <1>5
    <2>3. <<y..M, T>> \in order
        BY <2>1, <2>2 DEF StrictSubsetOrdering
    <2> QED BY <1>3, <2>3
<1>6. \E x \in S : \A y \in S : x >= y
    BY <1>5
<1>7. /\ Max(S) \in S
      /\ \A y \in S : Max(S) >= y
    BY <1>6 DEF Max
<1> QED BY <1>7

-----------------------------------------------------------------------------

\* An injective numbering of n elements by 0..n-1 leaves no number out.
LEMMA NumberedOnto ==
    ASSUME NEW S, IsFiniteSet(S), NEW f \in [S -> 0..(Cardinality(S) - 1)],
           \A x, y \in S : f[x] = f[y] => x = y
    PROVE  \A k \in 0..(Cardinality(S) - 1) : \E x \in S : f[x] = k
<1> DEFINE n == Cardinality(S)
           T == 0..(n - 1)
<1>1. n \in Nat
    BY FS_CardinalityType
<1>2. IsFiniteSet(T) /\ Cardinality(T) = n
    BY <1>1, FS_Interval
<1>3. f \in Injection(S, T)
    BY DEF Injection, IsInjective
<1>4. f \in Surjection(S, T)
    BY <1>2, <1>3, FS_Injection
<1> QED BY <1>4 DEF Surjection

\* The identities that precede one of S number it, from 0.
LEMMA Numbered ==
    ASSUME NEW S \in SUBSET Ids, IsFiniteSet(S)
    PROVE  /\ \A a \in S : Cardinality({o \in S : Less(o, a)}) \in 0..(Cardinality(S) - 1)
           /\ \A a, b \in S :
                 Cardinality({o \in S : Less(o, a)}) = Cardinality({o \in S : Less(o, b)})
                 => a = b
<1> DEFINE before(a) == {o \in S : Less(o, a)}
<1>0. Cardinality(S) \in Nat
    BY FS_CardinalityType
<1>1. ASSUME NEW a \in S
      PROVE  /\ IsFiniteSet(before(a))
             /\ Cardinality(before(a)) \in 0..(Cardinality(S) - 1)
    <2>1. before(a) \in SUBSET S /\ a \notin before(a)
        BY LessAssumption
    <2>2. IsFiniteSet(before(a)) /\ Cardinality(before(a)) <= Cardinality(S)
          /\ Cardinality(before(a)) # Cardinality(S)
        BY <2>1, FS_Subset
    <2>3. Cardinality(before(a)) \in Nat
        BY <2>2, FS_CardinalityType
    <2> QED BY <1>0, <2>2, <2>3
<1>2. ASSUME NEW a \in S, NEW b \in S, Less(a, b)
      PROVE  Cardinality(before(a)) # Cardinality(before(b))
    <2>1. before(a) \in SUBSET before(b)
        BY <1>2, LessAssumption
    <2>2. a \in before(b) /\ a \notin before(a)
        BY <1>2, LessAssumption
    <2> QED BY <1>1, <2>1, <2>2, FS_Subset
<1>3. ASSUME NEW a \in S, NEW b \in S, a # b
      PROVE  Cardinality(before(a)) # Cardinality(before(b))
    BY <1>2, <1>3, LessAssumption
<1> QED BY <1>1, <1>3

\* Nth finds every place of a set, and what it finds has that place.
LEMMA NthProperties ==
    ASSUME NEW S \in SUBSET Ids, IsFiniteSet(S)
    PROVE  /\ \A n \in 0..(Cardinality(S) - 1) :
                 /\ Nth(S, n) \in S
                 /\ Cardinality({o \in S : Less(o, Nth(S, n))}) = n
           /\ \A id \in S : \E n \in 0..(Cardinality(S) - 1) : Nth(S, n) = id
<1> DEFINE place(a) == Cardinality({o \in S : Less(o, a)})
           f == [a \in S |-> place(a)]
<1>1. \A a \in S : place(a) \in 0..(Cardinality(S) - 1)
    BY Numbered
<1>2. \A a, b \in S : place(a) = place(b) => a = b
    BY Numbered
<1> HIDE DEF place
<1>3. f \in [S -> 0..(Cardinality(S) - 1)] /\ \A x, y \in S : f[x] = f[y] => x = y
    BY <1>1, <1>2
<1>4. ASSUME NEW n \in 0..(Cardinality(S) - 1)
      PROVE  Nth(S, n) \in S /\ place(Nth(S, n)) = n
    <2>1. \E a \in S : f[a] = n
        <3> HIDE DEF f
        <3> QED BY <1>3, NumberedOnto
    <2>2. \E a \in S : place(a) = n
        BY <2>1
    <2> QED BY <2>2 DEF Nth, place
<1>5. ASSUME NEW id \in S
      PROVE  \E n \in 0..(Cardinality(S) - 1) : Nth(S, n) = id
    BY <1>1, <1>2, <1>4
<1> QED BY <1>4, <1>5 DEF place

\* The same of numbers and their order.
LEMMA EarlierProperties ==
    ASSUME NEW S \in SUBSET Nat, IsFiniteSet(S)
    PROVE  /\ \A i \in S : Earlier(S, i) \in 0..(Cardinality(S) - 1)
           /\ \A i, k \in S : Earlier(S, i) = Earlier(S, k) => i = k
           /\ \A n \in 0..(Cardinality(S) - 1) : \E i \in S : Earlier(S, i) = n
           /\ \A i, k \in S : i < k => Earlier(S, i) < Earlier(S, k)
<1> DEFINE before(i) == {j \in S : j < i}
           f == [i \in S |-> Earlier(S, i)]
<1>0. Cardinality(S) \in Nat
    BY FS_CardinalityType
<1>1. ASSUME NEW i \in S
      PROVE  /\ IsFiniteSet(before(i)) /\ Earlier(S, i) \in Nat
             /\ Earlier(S, i) \in 0..(Cardinality(S) - 1)
    <2>1. before(i) \in SUBSET S /\ i \notin before(i)
        OBVIOUS
    <2>2. IsFiniteSet(before(i)) /\ Earlier(S, i) <= Cardinality(S)
          /\ Earlier(S, i) # Cardinality(S)
        BY <2>1, FS_Subset DEF Earlier
    <2>3. Earlier(S, i) \in Nat
        BY <2>2, FS_CardinalityType DEF Earlier
    <2> QED BY <1>0, <2>2, <2>3
<1>2. ASSUME NEW i \in S, NEW k \in S, i < k
      PROVE  Earlier(S, i) < Earlier(S, k)
    <2>1. before(i) \in SUBSET before(k)
        <3> SUFFICES ASSUME NEW j \in S, j < i PROVE j < k
            OBVIOUS
        <3> QED BY <1>2
    <2>2. i \in before(k) /\ i \notin before(i)
        BY <1>2
    <2>3. Earlier(S, i) <= Earlier(S, k) /\ Earlier(S, i) # Earlier(S, k)
        BY <1>1, <2>1, <2>2, FS_Subset DEF Earlier
    <2>4. Earlier(S, i) \in Nat /\ Earlier(S, k) \in Nat
        BY <1>1
    <2> QED BY <2>3, <2>4
<1>3. \A i, k \in S : Earlier(S, i) = Earlier(S, k) => i = k
    <2> SUFFICES ASSUME NEW i \in S, NEW k \in S, i # k
                 PROVE  Earlier(S, i) # Earlier(S, k)
        OBVIOUS
    <2>1. i < k \/ k < i
        OBVIOUS
    <2>2. Earlier(S, i) \in Nat /\ Earlier(S, k) \in Nat
        BY <1>1
    <2> QED BY <1>2, <2>1, <2>2
<1>4. ASSUME NEW n \in 0..(Cardinality(S) - 1)
      PROVE  \E i \in S : Earlier(S, i) = n
    <2>1. f \in [S -> 0..(Cardinality(S) - 1)] /\ \A x, y \in S : f[x] = f[y] => x = y
        BY <1>1, <1>3
    <2>2. \E i \in S : f[i] = n
        <3> HIDE DEF f
        <3> QED BY <2>1, NumberedOnto
    <2> QED BY <2>2
<1> QED BY <1>1, <1>2, <1>3, <1>4

-----------------------------------------------------------------------------
(* Backfill again: the size of a run, and what RunEnds rests on besides    *)
(* fairness.                                                               *)

\* The first n of a set of facility numbers, however large, are n at most.
LEMMA FirstOfBound ==
    ASSUME NEW S \in SUBSET Nat, NEW n \in Nat
    PROVE  /\ FirstOf(S, n) \subseteq S
           /\ IsFiniteSet(FirstOf(S, n))
           /\ Cardinality(FirstOf(S, n)) <= n
<1> DEFINE before(i) == {g \in S : g < i}
           place(i) == Cardinality(before(i))
           F == FirstOf(S, n)
           f == [i \in F |-> place(i)]
<1>1. F = {i \in S : place(i) < n}
    BY DEF FirstOf
<1>2. ASSUME NEW i \in S
      PROVE  IsFiniteSet(before(i)) /\ place(i) \in Nat
    <2>1. before(i) \in SUBSET Nat /\ i \in Nat
        OBVIOUS
    <2>2. \A g \in before(i) : g <= i
        <3> SUFFICES ASSUME NEW g \in Nat, g < i PROVE g <= i
            BY <2>1
        <3> QED BY <2>1
    <2>3. IsFiniteSet(before(i))
        BY <2>1, <2>2, FS_BoundedSetOfNaturals
    <2> QED BY <2>3, FS_CardinalityType
<1>3. ASSUME NEW i \in S, NEW k \in S, i < k
      PROVE  place(i) # place(k)
    <2>1. before(i) \in SUBSET before(k)
        <3> SUFFICES ASSUME NEW g \in S, g < i PROVE g < k
            OBVIOUS
        <3> QED BY <1>3
    <2>2. i \in before(k) /\ i \notin before(i)
        BY <1>3
    <2> QED BY <1>2, <2>1, <2>2, FS_Subset
<1>4. \A i, k \in S : place(i) = place(k) => i = k
    <2> SUFFICES ASSUME NEW i \in S, NEW k \in S, i # k PROVE place(i) # place(k)
        OBVIOUS
    <2>1. i < k \/ k < i
        OBVIOUS
    <2> QED BY <1>3, <2>1
<1> HIDE DEF place, F
<1>5. ASSUME NEW i \in F
      PROVE  i \in S /\ place(i) \in 0..(n - 1)
    <2>1. i \in S /\ place(i) < n
        BY <1>1
    <2>2. place(i) \in Nat
        BY <1>2, <2>1
    <2> QED BY <2>1, <2>2
<1>6. f \in Injection(F, 0..(n - 1))
    BY <1>4, <1>5 DEF Injection, IsInjective
<1>7. IsFiniteSet(0..(n - 1)) /\ Cardinality(0..(n - 1)) = n
    BY FS_Interval
<1>8. IsFiniteSet(F) /\ Cardinality(F) <= n
    <2> HIDE DEF f
    <2> QED BY <1>6, <1>7, FS_Injection
<1> QED BY <1>5, <1>8 DEF F

\* A run was given at most --max-facilities, works on those alone, and writes the
\* checkpoint for one of them.
RunBounded ==
    /\ todo \subseteq run
    /\ IsFiniteSet(run)
    /\ Cardinality(run) <= MaxFacilities
    /\ pc \in {"write", "committed", "failed"} => todo # {}

\* Only the start of a run chooses facilities.
LEMMA NextRunBounded == IInv /\ RunBounded /\ [Next]_vars => RunBounded'
<1> SUFFICES ASSUME IInv, RunBounded, [Next]_vars PROVE RunBounded'
    OBVIOUS
<1>1. ASSUME NEW S \in SUBSET Facilities,
             todo' = FirstOf(S, MaxFacilities), run' = todo', pc' = "next"
      PROVE  RunBounded'
    <2>1. S \in SUBSET Nat /\ MaxFacilities \in Nat
        BY BackfillAssumption
    <2> QED BY <1>1, <2>1, FirstOfBound DEF RunBounded
<1>2. ASSUME NEW op \in Operations, StartNew(op)
      PROVE  RunBounded'
    BY <1>1, <1>2 DEF StartNew, IInv, TypeOK
<1>3. CASE Resume
    <2>1. file.selected \ file.completed \in SUBSET Facilities
        BY <1>3 DEF Resume, IInv, TypeOK, Checkpoint
    <2> QED BY <1>1, <1>3, <2>1 DEF Resume
<1>4. ASSUME NEW f \in Facilities, Work(f)
      PROVE  RunBounded'
    <2>1. f \in todo /\ run' = run
        BY <1>4 DEF Work, ReadFacility, CommitFacility, SkipFacility, FailFacility,
                    WriteCheckpoint, WriteAfterCommitFails, IsCurrent
    <2>2. \/ todo' = todo
          \/ todo' = todo \ {f} /\ pc' = "next"
        BY <1>4 DEF Work, ReadFacility, CommitFacility, SkipFacility, FailFacility,
                    WriteCheckpoint, WriteAfterCommitFails
    <2> QED BY <2>1, <2>2 DEF RunBounded
<1>5. CASE Finish \/ Stop
    BY <1>5 DEF Finish, Stop, RunBounded
<1>6. ASSUME UNCHANGED <<todo, run, pc>>
      PROVE  RunBounded'
    BY <1>6 DEF RunBounded
<1>7. CASE \/ \E f \in Facilities : AddFacilityRow(f) \/ ReadElsewhere(f)
           \/ UNCHANGED vars
    BY <1>6, <1>7 DEF AddFacilityRow, ReadElsewhere, vars
<1>8. CASE \E v \in Values \cup {Blank} : WriteElsewhere(v)
    BY <1>6, <1>8 DEF WriteElsewhere
<1> QED BY <1>2, <1>3, <1>4, <1>5, <1>7, <1>8 DEF Next

\* A run examines at most --max-facilities facilities, of a selection of any size,
\* in any sequence of runs, stops and resumes.
THEOREM RunIsBounded == Spec => []RunBounded
<1>1. Init => RunBounded
    BY FS_EmptySet, BackfillAssumption DEF Init, RunBounded
<1> QED BY Invariance, <1>1, NextRunBounded, PTL DEF Spec

\* A run has ended, is at its end, or has a facility that it works on: the guards of
\* Finish, of ReadFacility, of CommitFacility and of WriteCheckpoint.
RunGoesOn ==
    \/ pc = "off"
    \/ pc = "next" /\ todo = {}
    \/ \E f \in Facilities : IsCurrent(f)

\* A set of facilities that is not empty has a first one.
LEMMA HasCurrent == IInv /\ RunBounded => RunGoesOn
<1> SUFFICES ASSUME IInv, RunBounded, todo # {}
             PROVE  \E f \in Facilities : IsCurrent(f)
    BY DEF RunGoesOn, RunBounded, IInv, TypeOK
<1>1. todo \in SUBSET Nat /\ todo \subseteq Facilities
    BY BackfillAssumption DEF IInv, TypeOK
<1>2. IsFiniteSet(todo) /\ Cardinality(todo) \in Nat /\ Cardinality(todo) # 0
    BY FS_Subset, FS_CardinalityType, FS_EmptySet DEF RunBounded
<1>3. PICK f \in todo : Earlier(todo, f) = 0
    BY <1>1, <1>2, EarlierProperties
<1>4. {g \in todo : g < f} = {}
    <2>1. IsFiniteSet({g \in todo : g < f})
        BY <1>2, FS_Subset
    <2> QED BY <1>3, <2>1, FS_EmptySet DEF Earlier
<1>5. \A g \in todo : f <= g
    BY <1>1, <1>4
<1> QED BY <1>1, <1>5 DEF IsCurrent

\* No run comes to a standstill, whatever failed in it.
THEOREM RunAlwaysGoesOn == Spec => []RunGoesOn
BY Invariance, RunIsBounded, HasCurrent, PTL

\* Steps that a run has at most to take: four for each facility, and its end.
RunLeft ==
    IF pc = "off" THEN 0
    ELSE 4 * Cardinality(todo) + (CASE pc = "next" -> 1
                                    [] pc = "write" -> 0
                                    [] pc = "committed" -> 0 - 1
                                    [] pc = "failed" -> 0 - 2)

\* A step of the run brings it nearer to its end; nothing else but the start of the
\* next run takes it back.
RunApproach ==
    /\ RunLeft \in Nat
    /\ (Finish \/ \E f \in Facilities : Work(f)) => RunLeft' < RunLeft
    /\ pc # "off" => RunLeft' <= RunLeft

\* Every facility of a run is examined, written to the checkpoint and left behind.
THEOREM RunApproachesItsEnd == Spec => [][RunApproach]_vars
<1>1. ASSUME IInv, RunBounded, Next
      PROVE  RunApproach
    <2> DEFINE n == Cardinality(todo)
    <2>1. IsFiniteSet(todo) /\ n \in Nat /\ (n = 0 <=> todo = {})
        BY <1>1, FS_Subset, FS_CardinalityType, FS_EmptySet DEF RunBounded
    <2>2. pc \in {"off", "next", "write", "committed", "failed"}
        BY <1>1 DEF IInv, TypeOK
    <2>3. pc \in {"write", "committed", "failed"} => n # 0
        BY <1>1, <2>1 DEF RunBounded
    <2> HIDE DEF n
    <2>4. /\ pc = "off" => RunLeft = 0
          /\ pc = "next" => RunLeft = 4 * n + 1
          /\ pc = "write" => RunLeft = 4 * n
          /\ pc = "committed" => RunLeft = 4 * n - 1
          /\ pc = "failed" => RunLeft = 4 * n - 2
        BY <2>1 DEF RunLeft, n
    <2>5. RunLeft \in Nat /\ (pc # "off" => RunLeft > 0)
        BY <2>1, <2>2, <2>3, <2>4
    <2>6. ASSUME NEW f \in Facilities, Work(f)
          PROVE  RunLeft' < RunLeft /\ RunLeft' <= RunLeft
        <3>1. CASE /\ todo' = todo
                   /\ \/ pc = "next" /\ pc' \in {"write", "committed", "failed"}
                      \/ pc = "write" /\ pc' \in {"committed", "failed"}
                      \/ pc = "committed" /\ pc' = "failed"
            <4>1. /\ pc' = "write" => RunLeft' = 4 * n
                  /\ pc' = "committed" => RunLeft' = 4 * n - 1
                  /\ pc' = "failed" => RunLeft' = 4 * n - 2
                BY <2>1, <3>1 DEF RunLeft, n
            <4> QED BY <2>1, <2>4, <3>1, <4>1
        <3>2. CASE WriteCheckpoint(f)
            <4>1. f \in todo /\ todo' = todo \ {f} /\ pc' = "next"
                  /\ pc \in {"committed", "failed"}
                BY <3>2 DEF WriteCheckpoint, IsCurrent
            <4>2. Cardinality(todo \ {f}) = n - 1
                BY <2>1, <4>1, FS_RemoveElement DEF n
            <4>3. RunLeft' = 4 * (n - 1) + 1
                BY <4>1, <4>2 DEF RunLeft
            <4> QED BY <2>1, <2>4, <4>1, <4>3
        <3>3. CASE \/ ReadFacility(f) \/ CommitFacility(f) \/ SkipFacility(f)
                   \/ FailFacility(f) \/ WriteAfterCommitFails(f)
            BY <3>1, <3>3 DEF ReadFacility, CommitFacility, SkipFacility, Completing,
                              FailFacility, WriteAfterCommitFails, Failing
        <3> QED BY <2>6, <3>2, <3>3 DEF Work
    <2>7. ASSUME Finish \/ Stop
          PROVE  RunLeft' < RunLeft /\ RunLeft' <= RunLeft
        <3>1. RunLeft' = 0 /\ pc # "off"
            BY <2>7 DEF Finish, Stop, RunLeft
        <3> QED BY <2>5, <3>1
    <2>8. ASSUME UNCHANGED <<pc, todo>>
          PROVE  RunLeft' <= RunLeft
        <3>1. RunLeft' = RunLeft
            BY <2>8 DEF RunLeft
        <3> QED BY <2>5, <3>1
    <2>9. CASE Resume \/ \E op \in Operations : StartNew(op)
        <3>1. pc = "off"
            BY <2>9 DEF Resume, StartNew
        <3>2. ~Finish /\ ~(\E f \in Facilities : Work(f))
            BY <3>1 DEF Finish, Work, ReadFacility, CommitFacility, SkipFacility,
                        FailFacility, WriteCheckpoint, WriteAfterCommitFails
        <3> QED BY <2>5, <3>1, <3>2 DEF RunApproach
    <2>10. CASE Finish \/ Stop \/ \E f \in Facilities : Work(f)
        BY <2>5, <2>6, <2>7, <2>10 DEF RunApproach
    <2>11. CASE \/ \E f \in Facilities : AddFacilityRow(f) \/ ReadElsewhere(f)
                \/ \E v \in Values \cup {Blank} : WriteElsewhere(v)
        <3>1. UNCHANGED <<pc, todo>>
            BY <2>11 DEF AddFacilityRow, ReadElsewhere, WriteElsewhere
        <3> QED BY <2>5, <2>6, <2>7, <2>8, <3>1 DEF RunApproach
    <2> QED BY <1>1, <2>9, <2>10, <2>11 DEF Next
<1>2. IInv /\ RunBounded /\ [Next]_vars => [RunApproach]_vars
    BY <1>1
<1> QED BY Invariance, RunIsBounded, <1>2, PTL DEF Spec

-----------------------------------------------------------------------------

\* Contents of the stored rows of a report.
Rows == [Ids -> Items \cup {NoItem}]

\* There are finitely many identities.
LEMMA IdsFinite ==
    /\ IsFiniteSet(Ids)
    /\ \A S \in SUBSET Ids : IsFiniteSet(S) /\ Cardinality(S) \in Nat
<1>1. MaxItems * MaxRuns \in Nat
    BY ItemsAssumption
<1>2. IsFiniteSet(1..(MaxItems * MaxRuns))
    BY <1>1, FS_Interval
<1>3. IsFiniteSet({"document"}) /\ IsFiniteSet({"document"} \cup {"complaint"})
    BY FS_Singleton, FS_AddElement
<1>4. Formats = {"document"} \cup {"complaint"}
    BY DEF Formats
<1>5. IsFiniteSet(Formats)
    BY <1>3, <1>4
<1>6. IsFiniteSet(Ids)
    BY <1>2, <1>5, FS_Product DEF Ids
<1> QED BY <1>6, FS_Subset, FS_CardinalityType

\* A report is a sequence of at most MaxItems items.
LEMMA ReportFacts ==
    ASSUME NEW items \in Reports
    PROVE  /\ Len(items) \in 0..MaxItems
           /\ DOMAIN items = 1..Len(items)
           /\ \A i \in DOMAIN items : items[i] \in Items
           /\ \A S \in SUBSET DOMAIN items :
                 S \in SUBSET Nat /\ IsFiniteSet(S) /\ Cardinality(S) \in Nat
<1>1. PICK n \in 0..MaxItems : items \in [1..n -> Items]
    BY DEF Reports
<1>2. n \in Nat
    BY ItemsAssumption
<1>3. items \in Seq(Items) /\ Len(items) = n /\ DOMAIN items = 1..n
    BY <1>1, <1>2
<1>4. IsFiniteSet(1..n)
    BY <1>2, FS_Interval
<1>5. \A S \in SUBSET DOMAIN items :
          S \in SUBSET Nat /\ IsFiniteSet(S) /\ Cardinality(S) \in Nat
    BY <1>3, <1>4, FS_Subset, FS_CardinalityType
<1> QED BY <1>1, <1>3, <1>5

\* A stage's result: some items have a stored identity of their own.
Partial(r, items, done) ==
    /\ DOMAIN done \subseteq DOMAIN items
    /\ done \in [DOMAIN done -> StoredIds(r)]
    /\ \A i, j \in DOMAIN done : done[i] = done[j] => i = j

\* What a stage adds to the result of the earlier ones.
Adds(r, items, done, more) ==
    /\ DOMAIN more \subseteq Open(items, done)
    /\ more \in [DOMAIN more -> Free(r, done)]
    /\ \A i, j \in DOMAIN more : more[i] = more[j] => i = j

\* A stage that takes free identities for open items keeps the assignment one-to-one.
LEMMA AddsPartial ==
    ASSUME NEW r, NEW items, NEW done, NEW more,
           Partial(r, items, done), Adds(r, items, done, more)
    PROVE  /\ Partial(r, items, Extended(done, more))
           /\ DOMAIN Extended(done, more) = DOMAIN more \cup DOMAIN done
<1> DEFINE all == Extended(done, more)
<1>1. /\ DOMAIN all = DOMAIN more \cup DOMAIN done
      /\ \A i \in DOMAIN more : all[i] = more[i]
      /\ \A i \in DOMAIN done : i \notin DOMAIN more /\ all[i] = done[i]
      /\ all = [i \in DOMAIN all |-> all[i]]
    BY DEF Adds, Open, Extended
<1> HIDE DEF all
<1>2. \A i \in DOMAIN all : all[i] \in StoredIds(r)
    BY <1>1 DEF Adds, Partial, Free
<1>3. \A i \in DOMAIN done, j \in DOMAIN more : done[i] # more[j]
    BY DEF Adds, Free
<1>4. \A i, j \in DOMAIN all : all[i] = all[j] => i = j
    BY <1>1, <1>3 DEF Adds, Partial
<1>5. DOMAIN all \subseteq DOMAIN items
    BY <1>1 DEF Adds, Partial, Open
<1>6. all \in [DOMAIN all -> StoredIds(r)]
    BY <1>1, <1>2
<1>7. Partial(r, items, all)
    BY <1>4, <1>5, <1>6 DEF Partial
<1> QED BY <1>1, <1>7 DEF all

-----------------------------------------------------------------------------

\* The items with one content and the rows with it, as the semantic stage sees
\* them.
LEMMA SemanticsPlaces ==
    ASSUME NEW r \in Rows, NEW items \in Reports, NEW i \in DOMAIN items
    PROVE  LET S == Same(r, items[i])
               W == With(items, items[i])
           IN /\ S \in SUBSET Ids /\ IsFiniteSet(S) /\ Cardinality(S) \in Nat
              /\ W \in SUBSET Nat /\ IsFiniteSet(W) /\ i \in W
              /\ Earlier(W, i) \in Nat
              /\ Earlier(W, i) < Cardinality(S) =>
                    /\ Nth(S, Earlier(W, i)) \in S
                    /\ Cardinality({o \in S : Less(o, Nth(S, Earlier(W, i)))}) = Earlier(W, i)
<1> DEFINE S == Same(r, items[i])
           W == With(items, items[i])
<1>1. S \in SUBSET Ids /\ IsFiniteSet(S) /\ Cardinality(S) \in Nat
    BY IdsFinite DEF Same, StoredIds
<1>2. W \in SUBSET DOMAIN items /\ i \in W
    BY DEF With
<1>3. W \in SUBSET Nat /\ IsFiniteSet(W) /\ Cardinality(W) \in Nat
    BY <1>2, ReportFacts
<1> HIDE DEF S, W
<1>4. Earlier(W, i) \in 0..(Cardinality(W) - 1)
    BY <1>2, <1>3, EarlierProperties
<1>5. Earlier(W, i) \in Nat
    BY <1>3, <1>4
<1>6. ASSUME Earlier(W, i) < Cardinality(S)
      PROVE  /\ Nth(S, Earlier(W, i)) \in S
             /\ Cardinality({o \in S : Less(o, Nth(S, Earlier(W, i)))}) = Earlier(W, i)
    <2>1. Earlier(W, i) \in 0..(Cardinality(S) - 1)
        BY <1>1, <1>5, <1>6
    <2> QED BY <1>1, <2>1, NthProperties
<1> QED BY <1>1, <1>2, <1>3, <1>5, <1>6 DEF S, W

\* The semantic stage gives each item a row of its own with its content.
LEMMA SemanticsPartial ==
    ASSUME NEW sem \in BOOLEAN, NEW r \in Rows, NEW items \in Reports
    PROVE  /\ Partial(r, items, BySemantics(sem, r, items))
           /\ \A i \in DOMAIN BySemantics(sem, r, items) :
                 r[BySemantics(sem, r, items)[i]] = items[i]
           /\ DOMAIN BySemantics(sem, r, items) =
                 {i \in DOMAIN items :
                    sem /\ Earlier(With(items, items[i]), i) < Cardinality(Same(r, items[i]))}
           /\ \A i \in DOMAIN BySemantics(sem, r, items) :
                 BySemantics(sem, r, items)[i]
                    = Nth(Same(r, items[i]), Earlier(With(items, items[i]), i))
<1> DEFINE B == BySemantics(sem, r, items)
           S(i) == Same(r, items[i])
           W(i) == With(items, items[i])
<1>1. DOMAIN B = {i \in DOMAIN items : sem /\ Earlier(W(i), i) < Cardinality(S(i))}
    BY DEF BySemantics
<1>2. B = [i \in DOMAIN B |-> Nth(S(i), Earlier(W(i), i))]
    BY DEF BySemantics
<1> HIDE DEF B
<1>3. ASSUME NEW i \in DOMAIN B
      PROVE  /\ i \in DOMAIN items
             /\ B[i] \in S(i)
             /\ Cardinality({o \in S(i) : Less(o, B[i])}) = Earlier(W(i), i)
             /\ B[i] \in StoredIds(r)
             /\ r[B[i]] = items[i]
    <2>1. i \in DOMAIN items /\ Earlier(W(i), i) < Cardinality(S(i))
        BY <1>1
    <2>2. B[i] = Nth(S(i), Earlier(W(i), i))
        BY <1>2
    <2>3. B[i] \in S(i) /\ Cardinality({o \in S(i) : Less(o, B[i])}) = Earlier(W(i), i)
        BY <2>1, <2>2, SemanticsPlaces
    <2> QED BY <2>1, <2>3 DEF Same
<1>4. ASSUME NEW i \in DOMAIN B, NEW j \in DOMAIN B, B[i] = B[j]
      PROVE  i = j
    <2>1. items[i] = items[j] /\ i \in DOMAIN items /\ j \in DOMAIN items
        BY <1>3, <1>4
    <2>2. Earlier(W(i), i) = Earlier(W(i), j)
        BY <1>3, <1>4, <2>1
    <2>3. i \in W(i) /\ j \in W(i)
        BY <2>1 DEF With
    <2>4. W(i) \in SUBSET Nat /\ IsFiniteSet(W(i))
        BY <2>1, SemanticsPlaces
    <2> HIDE DEF W
    <2> QED BY <2>2, <2>3, <2>4, EarlierProperties
<1>5. B \in [DOMAIN B -> StoredIds(r)]
    BY <1>2, <1>3
<1>6. Partial(r, items, B)
    BY <1>3, <1>4, <1>5 DEF Partial
<1>7. \A i \in DOMAIN B : B[i] = Nth(S(i), Earlier(W(i), i))
    BY <1>2
<1> QED BY <1>1, <1>3, <1>6, <1>7 DEF B

\* The stages take free identities for open items: those that were generated,
LEMMA IdentityAdds ==
    ASSUME NEW r, NEW items, NEW done
    PROVE  Adds(r, items, done, ByIdentity(r, items, done))
BY DEF Adds, ByIdentity, Generated

\* those with the ordinal of the position,
LEMMA OrdinalAdds ==
    ASSUME NEW r \in Rows, NEW items \in Reports, NEW done
    PROVE  /\ Adds(r, items, done, ByOrdinal(r, items, done))
           /\ DOMAIN ByOrdinal(r, items, done) =
                 {i \in Open(items, done) :
                    Cardinality({id \in Free(r, done) : id[2] = i}) = 1}
           /\ \A i \in DOMAIN ByOrdinal(r, items, done) :
                 ByOrdinal(r, items, done)[i]
                    = CHOOSE id \in {o \in Free(r, done) : o[2] = i} : TRUE
<1> DEFINE at(i) == {id \in Free(r, done) : id[2] = i}
           B == ByOrdinal(r, items, done)
<1>1. DOMAIN B = {i \in Open(items, done) : Cardinality(at(i)) = 1}
    BY DEF ByOrdinal
<1>2. B = [i \in DOMAIN B |-> CHOOSE id \in at(i) : TRUE]
    BY DEF ByOrdinal
<1> HIDE DEF B
<1>3. ASSUME NEW i \in DOMAIN B
      PROVE  B[i] \in at(i)
    <2>1. Cardinality(at(i)) = 1
        BY <1>1
    <2>2. at(i) # {}
        BY <2>1, FS_EmptySet
    <2> QED BY <1>2, <2>2
<1>4. \A i \in DOMAIN B : B[i] \in Free(r, done) /\ B[i][2] = i
    BY <1>3
<1>5. Adds(r, items, done, B)
    BY <1>1, <1>2, <1>4 DEF Adds
<1> QED BY <1>1, <1>2, <1>5 DEF B

\* and those that are left, in order.
LEMMA OrderAdds ==
    ASSUME NEW r \in Rows, NEW items \in Reports, NEW done
    PROVE  /\ Adds(r, items, done, ByOrder(r, items, done))
           /\ DOMAIN ByOrder(r, items, done) =
                 {i \in Open(items, done) :
                    Earlier(Open(items, done), i) < Cardinality(Free(r, done))}
           /\ \A i \in DOMAIN ByOrder(r, items, done) :
                 ByOrder(r, items, done)[i]
                    = Nth(Free(r, done), Earlier(Open(items, done), i))
<1> DEFINE B == ByOrder(r, items, done)
           O == Open(items, done)
           F == Free(r, done)
<1>1. DOMAIN B = {i \in O : Earlier(O, i) < Cardinality(F)}
    BY DEF ByOrder
<1>2. B = [i \in DOMAIN B |-> Nth(F, Earlier(O, i))]
    BY DEF ByOrder
<1>3. F \in SUBSET Ids /\ IsFiniteSet(F) /\ Cardinality(F) \in Nat
    BY IdsFinite DEF Free, StoredIds
<1>4. O \in SUBSET Nat /\ IsFiniteSet(O) /\ Cardinality(O) \in Nat
    BY ReportFacts DEF Open
<1> HIDE DEF B, O, F
<1>5. ASSUME NEW i \in DOMAIN B
      PROVE  /\ i \in O
             /\ B[i] \in F
             /\ Cardinality({o \in F : Less(o, B[i])}) = Earlier(O, i)
    <2>1. i \in O /\ Earlier(O, i) < Cardinality(F) /\ B[i] = Nth(F, Earlier(O, i))
        BY <1>1, <1>2
    <2>2. Earlier(O, i) \in 0..(Cardinality(O) - 1)
        BY <1>4, <2>1, EarlierProperties
    <2>3. Earlier(O, i) \in 0..(Cardinality(F) - 1)
        BY <1>3, <1>4, <2>1, <2>2
    <2> QED BY <1>3, <2>1, <2>3, NthProperties
<1>6. ASSUME NEW i \in DOMAIN B, NEW j \in DOMAIN B, B[i] = B[j]
      PROVE  i = j
    <2> DEFINE place(a) == Cardinality({o \in F : Less(o, a)})
    <2>1. i \in O /\ j \in O
        BY <1>5
    <2>2. place(B[i]) = Earlier(O, i) /\ place(B[j]) = Earlier(O, j)
        BY <1>5
    <2> HIDE DEF place
    <2>3. Earlier(O, i) = Earlier(O, j)
        BY <1>6, <2>2
    <2>4. \A k, l \in O : Earlier(O, k) = Earlier(O, l) => k = l
        BY <1>4, EarlierProperties
    <2> QED BY <2>1, <2>3, <2>4
<1>7. B \in [DOMAIN B -> F] /\ DOMAIN B \subseteq O
    BY <1>2, <1>5
<1>8. Adds(r, items, done, B)
    BY <1>6, <1>7 DEF Adds, O, F
<1> QED BY <1>1, <1>2, <1>8 DEF B, O, F

-----------------------------------------------------------------------------

\* All four stages together.
LEMMA MatchedPartial ==
    ASSUME NEW sem \in BOOLEAN, NEW r \in Rows, NEW items \in Reports
    PROVE  LET done == Matched(sem, r, items)
               a == BySemantics(sem, r, items)
               b == Extended(a, ByIdentity(r, items, a))
               c == Extended(b, ByOrdinal(r, items, b))
           IN /\ Partial(r, items, done)
              /\ Partial(r, items, b) /\ Partial(r, items, c)
              /\ \A i \in DOMAIN a : i \in DOMAIN done /\ done[i] = a[i]
              /\ \A i \in DOMAIN b : i \in DOMAIN done /\ done[i] = b[i]
              /\ \A i \in DOMAIN c : i \in DOMAIN done /\ done[i] = c[i]
              /\ DOMAIN b = DOMAIN a \cup DOMAIN ByIdentity(r, items, a)
              /\ DOMAIN c = DOMAIN b \cup DOMAIN ByOrdinal(r, items, b)
              /\ DOMAIN done = DOMAIN c \cup DOMAIN ByOrder(r, items, c)
              /\ \A i \in DOMAIN ByIdentity(r, items, a) : b[i] = Generated(i)
              /\ \A i \in DOMAIN ByOrdinal(r, items, b) : c[i] = ByOrdinal(r, items, b)[i]
              /\ \A i \in DOMAIN ByOrder(r, items, c) : done[i] = ByOrder(r, items, c)[i]
<1> DEFINE a == BySemantics(sem, r, items)
           b == Extended(a, ByIdentity(r, items, a))
           c == Extended(b, ByOrdinal(r, items, b))
           done == Extended(c, ByOrder(r, items, c))
<1>0. Matched(sem, r, items) = done
    BY DEF Matched
<1>1. Partial(r, items, a)
    BY SemanticsPartial
<1>2. Adds(r, items, a, ByIdentity(r, items, a))
    BY IdentityAdds
<1>3. /\ Partial(r, items, b)
      /\ DOMAIN b = DOMAIN a \cup DOMAIN ByIdentity(r, items, a)
      /\ \A i \in DOMAIN a : b[i] = a[i]
      /\ \A i \in DOMAIN ByIdentity(r, items, a) : b[i] = ByIdentity(r, items, a)[i]
    <2> DEFINE more == ByIdentity(r, items, a)
    <2>1. Partial(r, items, a) /\ Adds(r, items, a, more)
        BY <1>1, <1>2
    <2> HIDE DEF a, more
    <2>2. /\ Partial(r, items, Extended(a, more))
          /\ DOMAIN Extended(a, more) = DOMAIN more \cup DOMAIN a
        BY <2>1, AddsPartial
    <2>3. /\ \A i \in DOMAIN a : Extended(a, more)[i] = a[i]
          /\ \A i \in DOMAIN more : Extended(a, more)[i] = more[i]
        BY <2>1 DEF Adds, Open, Extended
    <2> QED BY <2>2, <2>3 DEF more
<1>4. \A i \in DOMAIN ByIdentity(r, items, a) : ByIdentity(r, items, a)[i] = Generated(i)
    BY DEF ByIdentity
<1> HIDE DEF b
<1>5. Adds(r, items, b, ByOrdinal(r, items, b))
    BY OrdinalAdds
<1>6. /\ Partial(r, items, c)
      /\ DOMAIN c = DOMAIN b \cup DOMAIN ByOrdinal(r, items, b)
      /\ \A i \in DOMAIN b : c[i] = b[i]
      /\ \A i \in DOMAIN ByOrdinal(r, items, b) : c[i] = ByOrdinal(r, items, b)[i]
    <2> DEFINE more == ByOrdinal(r, items, b)
    <2>1. Partial(r, items, b) /\ Adds(r, items, b, more)
        BY <1>3, <1>5
    <2> HIDE DEF more
    <2>2. /\ Partial(r, items, Extended(b, more))
          /\ DOMAIN Extended(b, more) = DOMAIN more \cup DOMAIN b
        BY <2>1, AddsPartial
    <2>3. /\ \A i \in DOMAIN b : Extended(b, more)[i] = b[i]
          /\ \A i \in DOMAIN more : Extended(b, more)[i] = more[i]
        BY <2>1 DEF Adds, Open, Extended
    <2> QED BY <2>2, <2>3 DEF more
<1> HIDE DEF c
<1>7. Adds(r, items, c, ByOrder(r, items, c))
    BY OrderAdds
<1>8. /\ Partial(r, items, done)
      /\ DOMAIN done = DOMAIN c \cup DOMAIN ByOrder(r, items, c)
      /\ \A i \in DOMAIN c : done[i] = c[i]
      /\ \A i \in DOMAIN ByOrder(r, items, c) : done[i] = ByOrder(r, items, c)[i]
    <2> DEFINE more == ByOrder(r, items, c)
    <2>1. Partial(r, items, c) /\ Adds(r, items, c, more)
        BY <1>6, <1>7
    <2> HIDE DEF more
    <2>2. /\ Partial(r, items, Extended(c, more))
          /\ DOMAIN Extended(c, more) = DOMAIN more \cup DOMAIN c
        BY <2>1, AddsPartial
    <2>3. /\ \A i \in DOMAIN c : Extended(c, more)[i] = c[i]
          /\ \A i \in DOMAIN more : Extended(c, more)[i] = more[i]
        BY <2>1 DEF Adds, Open, Extended
    <2> QED BY <2>2, <2>3 DEF more
<1> HIDE DEF done, a
<1>9. /\ \A i \in DOMAIN a : i \in DOMAIN done /\ done[i] = a[i]
      /\ \A i \in DOMAIN b : i \in DOMAIN done /\ done[i] = b[i]
      /\ \A i \in DOMAIN c : i \in DOMAIN done /\ done[i] = c[i]
    BY <1>3, <1>6, <1>8
<1>10. \A i \in DOMAIN ByIdentity(r, items, a) : b[i] = Generated(i)
    BY <1>3, <1>4
<1> QED BY <1>0, <1>3, <1>6, <1>8, <1>9, <1>10 DEF a, b, c

\* A row with the generated identity of an event is continued by that event.
LEMMA UnmatchedEvent ==
    ASSUME NEW r \in Rows, NEW items \in Reports,
           NEW i \in DOMAIN items, i \notin DOMAIN Matched(FALSE, r, items)
    PROVE  Generated(i) \notin StoredIds(r)
<1> DEFINE a == BySemantics(FALSE, r, items)
<1>1. DOMAIN a = {}
    BY DEF BySemantics
<1>2. i \notin DOMAIN ByIdentity(r, items, a)
    BY MatchedPartial
<1>3. i \in Open(items, a) /\ Free(r, a) = StoredIds(r)
    <2> HIDE DEF a
    <2> QED BY <1>1 DEF Open, Free
<1> HIDE DEF a
<1> QED BY <1>2, <1>3 DEF ByIdentity

-----------------------------------------------------------------------------

\* The recursive definition of the identities in use has a solution.
LEMMA UsedDef ==
    ASSUME NEW sem \in BOOLEAN, NEW items \in Reports, NEW done
    PROVE  LET used == Used(sem, items, done)
           IN /\ used[0] = {done[i] : i \in DOMAIN done}
              /\ \A n \in 1..Len(items) :
                    used[n] = used[n - 1] \cup
                        (IF n \in DOMAIN done THEN {} ELSE {Fresh(sem, used[n - 1], n)})
<1> DEFINE L == Len(items)
           first == {done[i] : i \in DOMAIN done}
           Step(g, n) == IF n = 0 THEN first
                         ELSE g[n - 1] \cup
                              (IF n \in DOMAIN done THEN {} ELSE {Fresh(sem, g[n - 1], n)})
           Solves(g, m) == g = [n \in 0..m |-> Step(g, n)]
           good == {m \in 0..L : \E g : Solves(g, m)}
<1>0. L \in Nat
    BY ReportFacts, ItemsAssumption
<1> HIDE DEF L, first
<1>1. 0 \in good
    <2> DEFINE g == [n \in 0..0 |-> first]
    <2>1. g = [n \in 0..0 |-> Step(g, n)]
        OBVIOUS
    <2>2. Solves(g, 0)
        BY <2>1
    <2> HIDE DEF g, Solves
    <2> QED BY <1>0, <2>2
<1>2. ASSUME NEW m \in 1..L, m - 1 \in good
      PROVE  m \in good
    <2>1. PICK g : Solves(g, m - 1)
        BY <1>2
    <2> DEFINE h == [n \in 0..m |-> Step(g, n)]
    <2>2. m \in Nat /\ m - 1 \in Nat
        BY <1>0
    <2> HIDE DEF Step
    <2>3. /\ DOMAIN h = 0..m
          /\ \A n \in 0..m : h[n] = Step(g, n)
        OBVIOUS
    <2>4. \A n \in 0..(m - 1) : g[n] = Step(g, n)
        BY <2>1
    <2>5. \A n \in 0..(m - 1) : h[n] = g[n]
        BY <2>2, <2>3, <2>4
    <2>6. ASSUME NEW n \in 0..m
          PROVE  Step(h, n) = Step(g, n)
        <3> HIDE DEF h
        <3>1. CASE n = 0
            BY <3>1 DEF Step
        <3>2. CASE n # 0
            <4>1. n - 1 \in 0..(m - 1)
                BY <2>2, <3>2
            <4>2. h[n - 1] = g[n - 1]
                BY <2>5, <4>1
            <4> QED BY <3>2, <4>2 DEF Step
        <3> QED BY <3>1, <3>2
    <2>7. h = [n \in 0..m |-> Step(h, n)]
        BY <2>6
    <2>8. Solves(h, m)
        BY <2>7
    <2> HIDE DEF h, Solves
    <2> QED BY <1>0, <2>8
<1>3. L \in good
    <2> HIDE DEF good
    <2> QED BY <1>0, <1>1, <1>2, UpTo
<1>4. \E g : Solves(g, L)
    BY <1>3
<1>5. Solves(Used(sem, items, done), L)
    BY <1>4 DEF Used, L, first
<1>6. ASSUME NEW n \in 0..L
      PROVE  Used(sem, items, done)[n] = Step(Used(sem, items, done), n)
    <2> HIDE DEF Step
    <2> QED BY <1>5
<1>7. Used(sem, items, done)[0] = first
    <2>1. 0 \in 0..L
        BY <1>0
    <2> QED BY <1>6, <2>1
<1>8. ASSUME NEW n \in 1..L
      PROVE  Used(sem, items, done)[n] = Used(sem, items, done)[n - 1] \cup
                (IF n \in DOMAIN done THEN {}
                 ELSE {Fresh(sem, Used(sem, items, done)[n - 1], n)})
    <2>1. n \in 0..L /\ n # 0
        BY <1>0
    <2> QED BY <1>6, <2>1
<1> QED BY <1>7, <1>8 DEF L, first

\* The next identity is not in use, and goes one beyond those that are.
LEMMA NextIdFacts ==
    ASSUME NEW M \in Nat, NEW used \in SUBSET (Formats \X (1..M))
    PROVE  /\ NextId(used) \in Formats \X (1..(M + 1))
           /\ NextId(used) \notin used
<1> DEFINE ours == {u \in used : u[1] = "complaint"}
           ordinals == {id[2] : id \in ours} \cup {0}
           k == Max(ordinals)
<1>1. \A u \in used : u[2] \in 0..M
    OBVIOUS
<1>2. ordinals \in SUBSET (0..M) /\ ordinals # {}
    BY <1>1
<1>3. k \in ordinals /\ \A y \in ordinals : y <= k
    <2> HIDE DEF ordinals
    <2> QED BY <1>2, MaxProperties
<1>4. k \in 0..M
    <2> HIDE DEF ordinals
    <2> QED BY <1>2, <1>3
<1>5. NextId(used) = <<"complaint", 1 + k>>
    BY DEF NextId
<1>6. ASSUME NextId(used) \in used
      PROVE  FALSE
    <2>1. <<"complaint", 1 + k>> \in ours
        <3> HIDE DEF k
        <3> QED BY <1>5, <1>6
    <2>2. 1 + k \in ordinals
        <3> HIDE DEF k, ours
        <3> QED BY <2>1
    <2> HIDE DEF k, ordinals
    <2> QED BY <1>3, <1>4, <2>2
<1> HIDE DEF k
<1>7. 1 + k \in 1..(M + 1)
    BY <1>4
<1> QED BY <1>5, <1>6, <1>7 DEF Formats

\* A new allegation's identity is unused and goes one ordinal further at most.
LEMMA FreshFacts ==
    ASSUME NEW sem \in BOOLEAN, NEW M \in Nat, NEW used \in SUBSET (Formats \X (1..M)),
           NEW i \in 1..(M + 1)
    PROVE  /\ Fresh(sem, used, i) \in Formats \X (1..(M + 1))
           /\ sem => Fresh(sem, used, i) \notin used
<1>1. NextId(used) \in Formats \X (1..(M + 1)) /\ NextId(used) \notin used
    BY NextIdFacts
<1>2. Generated(i) \in Formats \X (1..(M + 1))
    BY DEF Generated, Formats
<1> QED BY <1>1, <1>2 DEF Fresh

\* The identities in use grow with the items, by one ordinal at most for each.
LEMMA UsedFacts ==
    ASSUME NEW sem \in BOOLEAN, NEW items \in Reports, NEW done, NEW B \in Nat,
           {done[i] : i \in DOMAIN done} \subseteq Formats \X (1..B)
    PROVE  LET used == Used(sem, items, done)
           IN \A n \in 0..Len(items) :
                 /\ used[n] \in SUBSET (Formats \X (1..(B + n)))
                 /\ \A i \in DOMAIN done : done[i] \in used[n]
                 /\ \A m \in 0..n : used[m] \subseteq used[n]
<1> DEFINE used == Used(sem, items, done)
           L == Len(items)
           P(n) == /\ used[n] \in SUBSET (Formats \X (1..(B + n)))
                   /\ \A i \in DOMAIN done : done[i] \in used[n]
                   /\ \A m \in 0..n : used[m] \subseteq used[n]
           good == {n \in 0..L : P(n)}
<1>0. L \in Nat
    BY ReportFacts, ItemsAssumption
<1>1. /\ used[0] = {done[i] : i \in DOMAIN done}
      /\ \A n \in 1..L : used[n] = used[n - 1] \cup
             (IF n \in DOMAIN done THEN {} ELSE {Fresh(sem, used[n - 1], n)})
    BY UsedDef
<1> HIDE DEF used, L
<1>2. 0 \in good
    <2>1. P(0)
        BY <1>1
    <2> HIDE DEF P
    <2> QED BY <1>0, <2>1
<1>3. ASSUME NEW n \in 1..L, n - 1 \in good
      PROVE  n \in good
    <2>1. P(n - 1) /\ n \in Nat /\ n - 1 \in Nat /\ n # 0
        BY <1>0, <1>3
    <2>2. B + (n - 1) \in Nat /\ n \in 1..(B + (n - 1) + 1) /\ B + (n - 1) + 1 = B + n
        BY <1>0
    <2>3. Fresh(sem, used[n - 1], n) \in Formats \X (1..(B + n))
        BY <2>1, <2>2, FreshFacts
    <2>4. used[n - 1] \in SUBSET (Formats \X (1..(B + n)))
        <3>1. 1..(B + (n - 1)) \subseteq 1..(B + n)
            BY <2>1
        <3> QED BY <2>1, <3>1
    <2>5. used[n] = used[n - 1] \cup
             (IF n \in DOMAIN done THEN {} ELSE {Fresh(sem, used[n - 1], n)})
        BY <1>1
    <2>6. used[n] \in SUBSET (Formats \X (1..(B + n)))
        BY <2>3, <2>4, <2>5
    <2>7. used[n - 1] \subseteq used[n]
        BY <2>5
    <2>8. \A i \in DOMAIN done : done[i] \in used[n]
        BY <2>1, <2>7
    <2>9. \A m \in 0..n : used[m] \subseteq used[n]
        <3> SUFFICES ASSUME NEW m \in 0..n PROVE used[m] \subseteq used[n]
            OBVIOUS
        <3>1. m = n \/ m \in 0..(n - 1)
            BY <2>1
        <3> QED BY <2>1, <2>7, <3>1
    <2>10. P(n)
        BY <2>6, <2>8, <2>9
    <2> HIDE DEF P
    <2> QED BY <1>0, <2>10
<1>4. 0..L \subseteq good
    <2> HIDE DEF good
    <2> QED BY <1>0, <1>2, <1>3, UpTo
<1>5. \A n \in 0..L : P(n)
    <2> HIDE DEF P
    <2> QED BY <1>4
<1> QED BY <1>5 DEF used, L

\* The items of a report get identities of their own, and those that continue a
\* row get that row's.
LEMMA AssignFacts ==
    ASSUME NEW sem \in BOOLEAN, NEW r \in Rows, NEW items \in Reports, NEW B \in Nat,
           \A id \in StoredIds(r) : id[2] <= B
    PROVE  LET A == Assign(sem, r, items)
               done == Matched(sem, r, items)
           IN /\ A \in [DOMAIN items -> Formats \X (1..(B + MaxItems))]
              /\ \A i, j \in DOMAIN items : A[i] = A[j] => i = j
              /\ \A i \in DOMAIN done : i \in DOMAIN items /\ A[i] = done[i]
              /\ ~ sem => \A i \in DOMAIN items : i \notin DOMAIN done => A[i] = Generated(i)
<1> DEFINE done == Matched(sem, r, items)
           used == Used(sem, items, done)
           A == Assign(sem, r, items)
           L == Len(items)
<1>0. L \in Nat /\ L <= MaxItems /\ DOMAIN items = 1..L /\ MaxItems \in Nat
    BY ReportFacts, ItemsAssumption
<1>1. A = [i \in DOMAIN items |-> IF i \in DOMAIN done THEN done[i]
                                  ELSE Fresh(sem, used[i - 1], i)]
    BY DEF Assign
<1>2. Partial(r, items, done)
    BY MatchedPartial
<1>3. ~ sem => \A i \in DOMAIN items : i \notin DOMAIN done => Generated(i) \notin StoredIds(r)
    BY UnmatchedEvent
<1> HIDE DEF done, A, L
<1>4. /\ DOMAIN done \subseteq DOMAIN items
      /\ \A i \in DOMAIN done : done[i] \in StoredIds(r)
      /\ \A i, j \in DOMAIN done : done[i] = done[j] => i = j
    BY <1>2 DEF Partial
<1>5. \A id \in StoredIds(r) : id \in Formats \X (1..B)
    <2> SUFFICES ASSUME NEW id \in StoredIds(r)
                 PROVE  id \in Formats \X (1..B)
        OBVIOUS
    <2>1. id \in Formats \X (1..(MaxItems * MaxRuns)) /\ id[2] <= B
        BY DEF StoredIds, Ids
    <2>2. MaxItems * MaxRuns \in Nat
        BY ItemsAssumption
    <2>3. id = <<id[1], id[2]>> /\ id[1] \in Formats /\ id[2] \in 1..(MaxItems * MaxRuns)
        BY <2>1
    <2>4. id[2] \in 1..B
        BY <2>1, <2>2, <2>3
    <2> QED BY <2>3, <2>4
<1>6. {done[i] : i \in DOMAIN done} \subseteq Formats \X (1..B)
    BY <1>4, <1>5
<1>7. /\ used[0] = {done[i] : i \in DOMAIN done}
      /\ \A n \in 1..L : used[n] = used[n - 1] \cup
             (IF n \in DOMAIN done THEN {} ELSE {Fresh(sem, used[n - 1], n)})
    BY UsedDef DEF L
<1>8. \A n \in 0..L :
          /\ used[n] \in SUBSET (Formats \X (1..(B + n)))
          /\ \A i \in DOMAIN done : done[i] \in used[n]
          /\ \A m \in 0..n : used[m] \subseteq used[n]
    BY <1>6, UsedFacts DEF L
<1> HIDE DEF used
<1>9. ASSUME NEW i \in DOMAIN items, i \notin DOMAIN done
      PROVE  /\ A[i] = Fresh(sem, used[i - 1], i)
             /\ A[i] \in Formats \X (1..(B + i))
             /\ sem => A[i] \notin used[i - 1]
             /\ A[i] \in used[i]
             /\ ~ sem => A[i] = Generated(i)
    <2>1. i \in 1..L /\ i - 1 \in 0..L
        BY <1>0
    <2>2. A[i] = Fresh(sem, used[i - 1], i)
        BY <1>1, <1>9
    <2>3. used[i - 1] \in SUBSET (Formats \X (1..(B + (i - 1))))
        BY <1>8, <2>1
    <2>4. B + (i - 1) \in Nat /\ i \in 1..(B + (i - 1) + 1) /\ B + (i - 1) + 1 = B + i
        BY <1>0, <2>1
    <2>5. /\ Fresh(sem, used[i - 1], i) \in Formats \X (1..(B + i))
          /\ sem => Fresh(sem, used[i - 1], i) \notin used[i - 1]
        BY <2>3, <2>4, FreshFacts
    <2>6. A[i] \in used[i]
        BY <1>7, <1>9, <2>1, <2>2
    <2> QED BY <2>2, <2>5, <2>6 DEF Fresh
<1>10. ASSUME NEW i \in DOMAIN done
       PROVE  A[i] = done[i] /\ i \in DOMAIN items
    BY <1>1, <1>4
<1>11. ASSUME NEW i \in DOMAIN items
       PROVE  A[i] \in Formats \X (1..(B + MaxItems))
    <2>1. i \in 1..L /\ i <= MaxItems
        BY <1>0
    <2>2. CASE i \in DOMAIN done
        <3>1. A[i] \in Formats \X (1..B)
            BY <1>4, <1>5, <1>10, <2>2
        <3>2. 1..B \subseteq 1..(B + MaxItems)
            BY <1>0
        <3> QED BY <3>1, <3>2
    <2>3. CASE i \notin DOMAIN done
        <3>1. A[i] \in Formats \X (1..(B + i))
            BY <1>9, <2>3
        <3>2. 1..(B + i) \subseteq 1..(B + MaxItems)
            BY <1>0, <2>1
        <3> QED BY <3>1, <3>2
    <2> QED BY <2>2, <2>3
<1>12. ASSUME NEW i \in DOMAIN items, NEW j \in DOMAIN items, i < j, A[i] = A[j]
       PROVE  FALSE
    <2>1. i \in 0..(j - 1) /\ j - 1 \in 0..L /\ j \in 1..L /\ i \in 1..L /\ i # j
        BY <1>0, <1>12
    <2>2. CASE i \in DOMAIN done /\ j \in DOMAIN done
        BY <1>4, <1>10, <1>12, <2>1, <2>2
    <2>3. CASE j \notin DOMAIN done /\ sem
        <3>1. A[j] \notin used[j - 1]
            BY <1>9, <2>3
        <3>2. CASE i \in DOMAIN done
            BY <1>8, <1>10, <1>12, <2>1, <3>1, <3>2
        <3>3. CASE i \notin DOMAIN done
            <4>1. A[i] \in used[i]
                BY <1>9, <3>3
            <4>2. used[i] \subseteq used[j - 1]
                BY <1>8, <2>1
            <4> QED BY <1>12, <3>1, <4>1, <4>2
        <3> QED BY <3>2, <3>3
    <2>4. CASE i \notin DOMAIN done /\ j \in DOMAIN done /\ sem
        <3>0. i - 1 \in 0..L
            BY <1>0, <2>1
        <3>1. A[i] \notin used[i - 1]
            BY <1>9, <2>4
        <3>2. A[j] \in used[i - 1]
            BY <1>8, <1>10, <2>4, <3>0
        <3> QED BY <1>12, <3>1, <3>2
    <2>5. CASE ~ sem /\ ~ (i \in DOMAIN done /\ j \in DOMAIN done)
        <3>1. ASSUME NEW k \in {i, j}, k \notin DOMAIN done
              PROVE  A[k] = Generated(k) /\ A[k] \notin StoredIds(r)
            BY <1>3, <1>9, <2>5, <3>1
        <3>2. ASSUME NEW k \in {i, j}, k \in DOMAIN done
              PROVE  A[k] \in StoredIds(r)
            BY <1>4, <1>10, <3>2
        <3>3. i \notin DOMAIN done /\ j \notin DOMAIN done
            BY <1>12, <2>5, <3>1, <3>2
        <3>4. Generated(i) = Generated(j)
            BY <1>12, <3>1, <3>3
        <3> QED BY <2>1, <3>4 DEF Generated
    <2> QED BY <2>2, <2>3, <2>4, <2>5
<1>13. ASSUME NEW i \in DOMAIN items, NEW j \in DOMAIN items, A[i] = A[j]
       PROVE  i = j
    <2>1. i = j \/ i < j \/ j < i
        BY <1>0
    <2> QED BY <1>12, <1>13, <2>1
<1>14. A \in [DOMAIN items -> Formats \X (1..(B + MaxItems))]
    BY <1>1, <1>11
<1>15. ~ sem => \A i \in DOMAIN items : i \notin DOMAIN done => A[i] = Generated(i)
    BY <1>9
<1> QED BY <1>10, <1>13, <1>14, <1>15 DEF A, done

-----------------------------------------------------------------------------

\* Items under identities of their own are stored as they are.
LEMMA WrittenFacts ==
    ASSUME NEW r \in Rows, NEW items \in Reports, NEW ids \in [DOMAIN items -> Ids],
           \A i, j \in DOMAIN items : ids[i] = ids[j] => i = j
    PROVE  LET w == Written(r, items, ids)
           IN /\ w \in Rows
              /\ \A i \in DOMAIN items : w[ids[i]] = items[i]
              /\ \A id \in Ids : (\A i \in DOMAIN items : ids[i] # id) => w[id] = r[id]
              /\ StoredIds(w) = StoredIds(r) \cup {ids[i] : i \in DOMAIN items}
<1> DEFINE under(id) == {i \in DOMAIN items : ids[i] = id}
           w == Written(r, items, ids)
<1>1. w = [id \in Ids |-> IF under(id) = {} THEN r[id] ELSE items[Max(under(id))]]
    BY DEF Written
<1>2. Len(items) \in Nat /\ DOMAIN items = 1..Len(items)
      /\ \A i \in DOMAIN items : items[i] \in Items
    BY ReportFacts, ItemsAssumption
<1> HIDE DEF w
<1>3. ASSUME NEW i \in DOMAIN items
      PROVE  w[ids[i]] = items[i] /\ ids[i] \in Ids
    <2>1. ids[i] \in Ids /\ under(ids[i]) = {i} /\ under(ids[i]) # {}
        OBVIOUS
    <2>2. {i} \in SUBSET (0..Len(items)) /\ {i} # {}
        BY <1>2
    <2>3. Max({i}) = i
        BY <1>2, <2>2, MaxProperties
    <2> QED BY <1>1, <2>1, <2>3
<1>4. ASSUME NEW id \in Ids, \A i \in DOMAIN items : ids[i] # id
      PROVE  w[id] = r[id]
    BY <1>1, <1>4
<1>5. \A id \in Ids : w[id] \in Items \cup {NoItem}
    BY <1>2, <1>3, <1>4 DEF Rows
<1>6. w \in Rows
    BY <1>1, <1>5 DEF Rows
<1>7. StoredIds(w) = StoredIds(r) \cup {ids[i] : i \in DOMAIN items}
    <2>1. ASSUME NEW id \in Ids, \A i \in DOMAIN items : ids[i] # id
          PROVE  id \in StoredIds(w) <=> id \in StoredIds(r)
        BY <1>4, <2>1 DEF StoredIds
    <2>2. ASSUME NEW i \in DOMAIN items
          PROVE  ids[i] \in StoredIds(w)
        BY <1>2, <1>3, ItemsAssumption DEF StoredIds
    <2>3. StoredIds(w) \subseteq Ids /\ StoredIds(r) \subseteq Ids
        BY DEF StoredIds
    <2> QED BY <2>1, <2>2, <2>3
<1> QED BY <1>3, <1>4, <1>6, <1>7 DEF w

\* Items stored once more under the identities of rows that have them change nothing.
LEMMA WrittenSame ==
    ASSUME NEW r \in Rows, NEW items \in Reports, NEW ids,
           \A i \in DOMAIN items : ids[i] \in Ids /\ r[ids[i]] = items[i]
    PROVE  Written(r, items, ids) = r
<1> DEFINE under(id) == {i \in DOMAIN items : ids[i] = id}
<1>1. Len(items) \in Nat /\ DOMAIN items = 1..Len(items)
    BY ReportFacts, ItemsAssumption
<1>2. ASSUME NEW id \in Ids, under(id) # {}
      PROVE  items[Max(under(id))] = r[id]
    <2>1. under(id) \in SUBSET (0..Len(items))
        BY <1>1
    <2>2. Max(under(id)) \in under(id)
        <3> HIDE DEF under
        <3> QED BY <1>1, <1>2, <2>1, MaxProperties
    <2> QED BY <2>2
<1>3. [id \in Ids |-> IF under(id) = {} THEN r[id] ELSE items[Max(under(id))]] = r
    <2> HIDE DEF under
    <2> QED BY <1>2 DEF Rows
<1> QED BY <1>3 DEF Written

-----------------------------------------------------------------------------
(* Allegations are found by their content when they are reprocessed again. *)

\* Allegations that are stored, each in a row of its own, are written over themselves:
\* there are at least as many rows of a content as items, so each is matched by content.
LEMMA RepeatAllegations ==
    ASSUME NEW r \in Rows, NEW items \in Reports, NEW ids \in [DOMAIN items -> Ids],
           \A i, j \in DOMAIN items : ids[i] = ids[j] => i = j,
           \A i \in DOMAIN items : r[ids[i]] = items[i]
    PROVE  Written(r, items, Assign(TRUE, r, items)) = r
<1> DEFINE B == BySemantics(TRUE, r, items)
           A == Assign(TRUE, r, items)
<1>0. /\ Partial(r, items, B)
      /\ \A i \in DOMAIN B : r[B[i]] = items[i]
      /\ DOMAIN B = {i \in DOMAIN items : TRUE /\
            Earlier(With(items, items[i]), i) < Cardinality(Same(r, items[i]))}
    <2>1. TRUE \in BOOLEAN
        OBVIOUS
    <2> QED BY <2>1, SemanticsPartial
<1>9. /\ Partial(r, items, Matched(TRUE, r, items))
      /\ \A i \in DOMAIN B : i \in DOMAIN Matched(TRUE, r, items)
                             /\ Matched(TRUE, r, items)[i] = B[i]
    <2>1. TRUE \in BOOLEAN
        OBVIOUS
    <2> QED BY <2>1, MatchedPartial
<1> HIDE DEF B
<1>1. ASSUME NEW i \in DOMAIN items
      PROVE  i \in DOMAIN B
    <2> DEFINE W == With(items, items[i])
               S == Same(r, items[i])
               f == [j \in W |-> ids[j]]
    <2>1. IsFiniteSet(S) /\ Cardinality(S) \in Nat /\ W \in SUBSET Nat /\ IsFiniteSet(W)
          /\ i \in W
        BY SemanticsPlaces
    <2>2. \A j \in W : ids[j] \in S
        <3>1. \A j \in W : j \in DOMAIN items /\ items[j] = items[i]
            BY DEF With
        <3>2. items[i] # NoItem
            BY ReportFacts, ItemsAssumption
        <3> QED BY <3>1, <3>2 DEF Same, StoredIds
    <2>3. W \subseteq DOMAIN items
        BY DEF With
    <2> HIDE DEF W, S
    <2>4. f \in Injection(W, S)
        BY <2>2, <2>3 DEF Injection, IsInjective
    <2>5. Cardinality(W) <= Cardinality(S)
        BY <2>1, <2>4, FS_Injection
    <2>6. Earlier(W, i) \in 0..(Cardinality(W) - 1) /\ Cardinality(W) \in Nat
        BY <2>1, EarlierProperties, FS_CardinalityType
    <2>7. Earlier(W, i) < Cardinality(S)
        BY <2>1, <2>5, <2>6
    <2> QED BY <1>0, <2>7 DEF W, S
<1>2. ASSUME NEW i \in DOMAIN items
      PROVE  A[i] \in Ids /\ r[A[i]] = items[i]
    <2>1. i \in DOMAIN Matched(TRUE, r, items) /\ Matched(TRUE, r, items)[i] = B[i]
        BY <1>1, <1>9
    <2>2. A[i] = B[i]
        BY <2>1 DEF Assign
    <2>3. B[i] \in StoredIds(r) /\ r[B[i]] = items[i]
        BY <1>0, <1>1 DEF Partial
    <2> QED BY <2>2, <2>3 DEF StoredIds
<1> HIDE DEF A
<1>3. Written(r, items, A) = r
    BY <1>2, WrittenSame
<1> QED BY <1>3 DEF A

-----------------------------------------------------------------------------
(* Events are matched by the stored identities S and the indexes D alone:  *)
(* what each stage matches, and what it leaves free.                       *)

\* Identities with an ordinal, and the one that the stage takes if there is just one.
At(F, i) == {id \in F : id[2] = i}
PickAt(F, i) == CHOOSE id \in At(F, i) : TRUE

\* The generated identities
ToIdentity(S, D) == {i \in D : Generated(i) \in S}
FreeAfterIdentity(S, D) == S \ {Generated(i) : i \in ToIdentity(S, D)}

\* the ordinals
ToOrdinal(S, D) ==
    {i \in D \ ToIdentity(S, D) : Cardinality(At(FreeAfterIdentity(S, D), i)) = 1}
FreeAfterOrdinal(S, D) ==
    FreeAfterIdentity(S, D)
        \ {PickAt(FreeAfterIdentity(S, D), i) : i \in ToOrdinal(S, D)}

\* and the order.
Rest(S, D) == D \ (ToIdentity(S, D) \cup ToOrdinal(S, D))
ToOrder(S, D) ==
    {i \in Rest(S, D) : Earlier(Rest(S, D), i) < Cardinality(FreeAfterOrdinal(S, D))}

\* What the stages match of events.
LEMMA EventStages ==
    ASSUME NEW r \in Rows, NEW items \in Reports
    PROVE  LET done == Matched(FALSE, r, items)
               S == StoredIds(r)
               D == DOMAIN items
           IN /\ DOMAIN done = ToIdentity(S, D) \cup ToOrdinal(S, D) \cup ToOrder(S, D)
              /\ \A i \in ToIdentity(S, D) : done[i] = Generated(i)
              /\ \A i \in ToOrdinal(S, D) : done[i] = PickAt(FreeAfterIdentity(S, D), i)
              /\ \A i \in ToOrder(S, D) :
                    done[i] = Nth(FreeAfterOrdinal(S, D), Earlier(Rest(S, D), i))
<1> DEFINE S == StoredIds(r)
           D == DOMAIN items
           a == BySemantics(FALSE, r, items)
           b == Extended(a, ByIdentity(r, items, a))
           c == Extended(b, ByOrdinal(r, items, b))
           done == Matched(FALSE, r, items)
<1>0. /\ Partial(r, items, b) /\ Partial(r, items, c)
      /\ \A i \in DOMAIN b : done[i] = b[i]
      /\ \A i \in DOMAIN c : done[i] = c[i]
      /\ DOMAIN b = DOMAIN a \cup DOMAIN ByIdentity(r, items, a)
      /\ DOMAIN c = DOMAIN b \cup DOMAIN ByOrdinal(r, items, b)
      /\ DOMAIN done = DOMAIN c \cup DOMAIN ByOrder(r, items, c)
      /\ \A i \in DOMAIN ByIdentity(r, items, a) : b[i] = Generated(i)
      /\ \A i \in DOMAIN ByOrdinal(r, items, b) : c[i] = ByOrdinal(r, items, b)[i]
      /\ \A i \in DOMAIN ByOrder(r, items, c) : done[i] = ByOrder(r, items, c)[i]
    <2>1. FALSE \in BOOLEAN
        OBVIOUS
    <2> QED BY <2>1, MatchedPartial
<1>1. DOMAIN a = {}
    BY DEF BySemantics
<1>2. \A i \in DOMAIN b : c[i] = b[i]
    BY DEF Extended
<1> HIDE DEF a, b, c, done
<1>3. Open(items, a) = D /\ Free(r, a) = S
    BY <1>1 DEF Open, Free
<1>4. DOMAIN ByIdentity(r, items, a) = ToIdentity(S, D)
    BY <1>3 DEF ByIdentity, ToIdentity
<1>5. DOMAIN b = ToIdentity(S, D) /\ \A i \in DOMAIN b : b[i] = Generated(i)
    BY <1>0, <1>1, <1>4
<1>6. Free(r, b) = FreeAfterIdentity(S, D) /\ Open(items, b) = D \ ToIdentity(S, D)
    BY <1>5 DEF Free, Open, FreeAfterIdentity
<1>7. /\ DOMAIN ByOrdinal(r, items, b) =
            {i \in Open(items, b) : Cardinality({id \in Free(r, b) : id[2] = i}) = 1}
      /\ \A i \in DOMAIN ByOrdinal(r, items, b) :
            ByOrdinal(r, items, b)[i] = CHOOSE id \in {o \in Free(r, b) : o[2] = i} : TRUE
    BY DEF ByOrdinal
<1>8. DOMAIN ByOrdinal(r, items, b) = ToOrdinal(S, D)
    BY <1>6, <1>7 DEF ToOrdinal, At
<1>9. \A i \in ToOrdinal(S, D) : c[i] = PickAt(FreeAfterIdentity(S, D), i)
    <2> SUFFICES ASSUME NEW i \in ToOrdinal(S, D)
                 PROVE  c[i] = PickAt(FreeAfterIdentity(S, D), i)
        OBVIOUS
    <2>1. c[i] = ByOrdinal(r, items, b)[i]
        BY <1>0, <1>8
    <2>2. ByOrdinal(r, items, b)[i] = CHOOSE id \in {o \in Free(r, b) : o[2] = i} : TRUE
        BY <1>7, <1>8
    <2>3. {o \in Free(r, b) : o[2] = i} = At(FreeAfterIdentity(S, D), i)
        BY <1>6 DEF At
    <2> QED BY <2>1, <2>2, <2>3 DEF PickAt
<1>10. DOMAIN c = ToIdentity(S, D) \cup ToOrdinal(S, D)
    BY <1>0, <1>5, <1>8
<1>11. Open(items, c) = Rest(S, D)
    BY <1>10 DEF Open, Rest
<1>12. Free(r, c) = FreeAfterOrdinal(S, D)
    <2>1. {c[i] : i \in DOMAIN c} = {Generated(i) : i \in ToIdentity(S, D)}
              \cup {PickAt(FreeAfterIdentity(S, D), i) : i \in ToOrdinal(S, D)}
        BY <1>2, <1>5, <1>9, <1>10
    <2> QED BY <2>1 DEF Free, FreeAfterOrdinal, FreeAfterIdentity
<1>13. /\ DOMAIN ByOrder(r, items, c) =
            {i \in Open(items, c) :
               Earlier(Open(items, c), i) < Cardinality(Free(r, c))}
       /\ \A i \in DOMAIN ByOrder(r, items, c) :
            ByOrder(r, items, c)[i] = Nth(Free(r, c), Earlier(Open(items, c), i))
    BY OrderAdds
<1>14. DOMAIN ByOrder(r, items, c) = ToOrder(S, D)
    BY <1>11, <1>12, <1>13 DEF ToOrder
<1>15. \A i \in ToOrder(S, D) :
           done[i] = Nth(FreeAfterOrdinal(S, D), Earlier(Rest(S, D), i))
    BY <1>0, <1>11, <1>12, <1>13, <1>14
<1>16. DOMAIN done = ToIdentity(S, D) \cup ToOrdinal(S, D) \cup ToOrder(S, D)
    BY <1>0, <1>10, <1>14
<1>17. \A i \in ToIdentity(S, D) : done[i] = Generated(i)
    BY <1>0, <1>5
<1>18. \A i \in ToOrdinal(S, D) : done[i] = PickAt(FreeAfterIdentity(S, D), i)
    BY <1>0, <1>9, <1>10
<1> QED BY <1>15, <1>16, <1>17, <1>18 DEF done

\* With the identities that new events keep stored too, the stages match the same
\* events to the same rows, and the new ones to theirs.
LEMMA StagesAgain ==
    ASSUME NEW S \in SUBSET Ids, NEW D \in SUBSET Nat, IsFiniteSet(D)
    PROVE  LET new == D \ (ToIdentity(S, D) \cup ToOrdinal(S, D) \cup ToOrder(S, D))
               T == S \cup {Generated(i) : i \in new}
           IN /\ ToIdentity(T, D) = ToIdentity(S, D) \cup new
              /\ FreeAfterIdentity(T, D) = FreeAfterIdentity(S, D)
              /\ ToOrdinal(T, D) = ToOrdinal(S, D)
              /\ FreeAfterOrdinal(T, D) = FreeAfterOrdinal(S, D)
              /\ ToOrder(T, D) = ToOrder(S, D)
              /\ \A i \in ToOrder(S, D) : Earlier(Rest(T, D), i) = Earlier(Rest(S, D), i)
<1> DEFINE new == D \ (ToIdentity(S, D) \cup ToOrdinal(S, D) \cup ToOrder(S, D))
           T == S \cup {Generated(i) : i \in new}
<1>0. \A i, j : Generated(i) = Generated(j) => i = j
    BY DEF Generated
<1>1. \A i \in new : i \in D /\ i \notin ToIdentity(S, D) /\ Generated(i) \notin S
    BY DEF ToIdentity
<1>2. ToIdentity(T, D) = ToIdentity(S, D) \cup new
    <2>1. \A i \in D : Generated(i) \in T <=> Generated(i) \in S \/ i \in new
        <3> HIDE DEF new
        <3> QED BY <1>0
    <2> HIDE DEF T
    <2>2. \A i \in D : i \in ToIdentity(T, D) <=> i \in ToIdentity(S, D) \/ i \in new
        <3> HIDE DEF new
        <3> QED BY <2>1 DEF ToIdentity
    <2>3. ToIdentity(T, D) \subseteq D /\ ToIdentity(S, D) \subseteq D /\ new \subseteq D
        BY DEF ToIdentity
    <2> HIDE DEF new
    <2> QED BY <2>2, <2>3
<1>3. FreeAfterIdentity(T, D) = FreeAfterIdentity(S, D)
    <2> HIDE DEF new
    <2>1. {Generated(i) : i \in ToIdentity(T, D)}
            = {Generated(i) : i \in ToIdentity(S, D)} \cup {Generated(i) : i \in new}
        <3> HIDE DEF T
        <3> QED BY <1>2
    <2>2. \A i \in new : Generated(i) \notin S
        BY <1>1
    <2> QED BY <2>1, <2>2 DEF FreeAfterIdentity
<1> HIDE DEF T
<1>4. ToOrdinal(S, D) \cap new = {} /\ ToOrdinal(S, D) \subseteq D
    BY DEF ToOrdinal
<1>5. ToOrdinal(T, D) = ToOrdinal(S, D)
    <2> HIDE DEF new
    <2> QED BY <1>2, <1>3, <1>4 DEF ToOrdinal
<1>6. FreeAfterOrdinal(T, D) = FreeAfterOrdinal(S, D)
    BY <1>3, <1>5 DEF FreeAfterOrdinal
<1>7. Rest(T, D) = ToOrder(S, D)
    <2>1. Rest(T, D) = D \ (ToIdentity(S, D) \cup new \cup ToOrdinal(S, D))
        <3> HIDE DEF new
        <3> QED BY <1>2, <1>5 DEF Rest
    <2>2. ToOrder(S, D) \subseteq D \ (ToIdentity(S, D) \cup ToOrdinal(S, D))
        BY DEF ToOrder, Rest
    <2> QED BY <2>1, <2>2
<1>8. Rest(S, D) \in SUBSET Nat /\ IsFiniteSet(Rest(S, D))
    <2>1. Rest(S, D) \in SUBSET D
        BY DEF Rest
    <2> QED BY <2>1, FS_Subset
<1>9. Cardinality(FreeAfterOrdinal(S, D)) \in Nat
    <2>1. FreeAfterOrdinal(S, D) \in SUBSET Ids
        BY DEF FreeAfterOrdinal, FreeAfterIdentity
    <2> QED BY <2>1, IdsFinite
<1>10. ASSUME NEW i \in ToOrder(S, D)
       PROVE  Earlier(ToOrder(S, D), i) = Earlier(Rest(S, D), i)
    <2> DEFINE R == Rest(S, D)
               n == Cardinality(FreeAfterOrdinal(S, D))
    <2>1. i \in R /\ Earlier(R, i) < n
        BY DEF ToOrder
    <2>2. \A j \in R : Earlier(R, j) \in Nat
        BY <1>8, EarlierProperties, FS_CardinalityType
    <2>3. \A j \in R : j < i => Earlier(R, j) < Earlier(R, i)
        BY <1>8, <2>1, EarlierProperties
    <2>4. \A j \in R : j < i => j \in ToOrder(S, D)
        <3> SUFFICES ASSUME NEW j \in R, j < i PROVE Earlier(R, j) < n
            BY DEF ToOrder
        <3>1. Earlier(R, j) < Earlier(R, i)
            BY <2>3
        <3> HIDE DEF R, n
        <3>2. n \in Nat
            BY <1>9 DEF n
        <3> QED BY <2>1, <2>2, <3>1, <3>2
    <2>5. ToOrder(S, D) \subseteq R
        BY DEF ToOrder
    <2>6. {j \in ToOrder(S, D) : j < i} = {j \in R : j < i}
        <3> HIDE DEF R
        <3> QED BY <2>4, <2>5
    <2> QED BY <2>6 DEF Earlier
<1>11. ToOrder(T, D) = ToOrder(S, D)
    <2>1. \A i \in ToOrder(S, D) :
              Earlier(Rest(S, D), i) < Cardinality(FreeAfterOrdinal(S, D))
        BY DEF ToOrder
    <2>2. ToOrder(T, D) = {i \in ToOrder(S, D) :
              Earlier(ToOrder(S, D), i) < Cardinality(FreeAfterOrdinal(S, D))}
        BY <1>6, <1>7 DEF ToOrder
    <2> QED BY <1>10, <2>1, <2>2
<1>12. \A i \in ToOrder(S, D) : Earlier(Rest(T, D), i) = Earlier(Rest(S, D), i)
    BY <1>7, <1>10
<1> QED BY <1>2, <1>3, <1>5, <1>6, <1>11, <1>12 DEF T

\* Events that were reprocessed are matched to the same identities again, so that
\* they are written over themselves.
LEMMA RepeatEvents ==
    ASSUME NEW r \in Rows, NEW items \in Reports, NEW w \in Rows,
           LET A == Assign(FALSE, r, items)
           IN /\ StoredIds(w) = StoredIds(r) \cup {A[i] : i \in DOMAIN items}
              /\ \A i \in DOMAIN items : A[i] \in Ids /\ w[A[i]] = items[i]
              /\ \A i \in DOMAIN Matched(FALSE, r, items) : A[i] = Matched(FALSE, r, items)[i]
              /\ \A i \in DOMAIN items :
                    i \notin DOMAIN Matched(FALSE, r, items) => A[i] = Generated(i)
    PROVE  Written(w, items, Assign(FALSE, w, items)) = w
<1> DEFINE A == Assign(FALSE, r, items)
           C == Assign(FALSE, w, items)
           S == StoredIds(r)
           D == DOMAIN items
           done == Matched(FALSE, r, items)
           again == Matched(FALSE, w, items)
           new == D \ (ToIdentity(S, D) \cup ToOrdinal(S, D) \cup ToOrder(S, D))
           T == S \cup {Generated(i) : i \in new}
<1>1. /\ DOMAIN done = ToIdentity(S, D) \cup ToOrdinal(S, D) \cup ToOrder(S, D)
      /\ \A i \in ToIdentity(S, D) : done[i] = Generated(i)
      /\ \A i \in ToOrdinal(S, D) : done[i] = PickAt(FreeAfterIdentity(S, D), i)
      /\ \A i \in ToOrder(S, D) :
            done[i] = Nth(FreeAfterOrdinal(S, D), Earlier(Rest(S, D), i))
    BY EventStages
<1>2. /\ DOMAIN again = ToIdentity(StoredIds(w), D) \cup ToOrdinal(StoredIds(w), D)
                        \cup ToOrder(StoredIds(w), D)
      /\ \A i \in ToIdentity(StoredIds(w), D) : again[i] = Generated(i)
      /\ \A i \in ToOrdinal(StoredIds(w), D) :
            again[i] = PickAt(FreeAfterIdentity(StoredIds(w), D), i)
      /\ \A i \in ToOrder(StoredIds(w), D) :
            again[i] = Nth(FreeAfterOrdinal(StoredIds(w), D), Earlier(Rest(StoredIds(w), D), i))
    BY EventStages
<1>3. C = [i \in D |-> IF i \in DOMAIN again THEN again[i]
                       ELSE Fresh(FALSE, Used(FALSE, items, again)[i - 1], i)]
    BY DEF Assign
<1>4. /\ \A i \in DOMAIN done : A[i] = done[i]
      /\ \A i \in D \ DOMAIN done : A[i] = Generated(i)
      /\ StoredIds(w) = S \cup {A[i] : i \in D}
      /\ \A i \in D : A[i] \in Ids /\ w[A[i]] = items[i]
    OBVIOUS
<1>5. /\ DOMAIN done \subseteq D
      /\ \A i \in DOMAIN done : done[i] \in S
    <2>1. FALSE \in BOOLEAN
        OBVIOUS
    <2>2. Partial(r, items, done)
        BY <2>1, MatchedPartial
    <2> HIDE DEF done
    <2> QED BY <2>2 DEF Partial
<1> HIDE DEF A, C, done, again
<1>6. new = D \ DOMAIN done
    BY <1>1
<1>7. StoredIds(w) = T
    <2> HIDE DEF new
    <2>1. \A i \in D : IF i \in new THEN A[i] = Generated(i) ELSE A[i] \in S
        BY <1>4, <1>5, <1>6
    <2>2. new \subseteq D
        BY <1>6
    <2>3. {A[i] : i \in D} \subseteq T
        BY <2>1, <2>2
    <2>4. {Generated(i) : i \in new} \subseteq {A[i] : i \in D}
        <3> SUFFICES ASSUME NEW i \in new PROVE Generated(i) \in {A[j] : j \in D}
            OBVIOUS
        <3>1. i \in D /\ A[i] = Generated(i)
            BY <2>1, <2>2
        <3> QED BY <3>1
    <2> QED BY <1>4, <2>3, <2>4
<1>8. /\ ToIdentity(T, D) = ToIdentity(S, D) \cup new
      /\ FreeAfterIdentity(T, D) = FreeAfterIdentity(S, D)
      /\ ToOrdinal(T, D) = ToOrdinal(S, D)
      /\ FreeAfterOrdinal(T, D) = FreeAfterOrdinal(S, D)
      /\ ToOrder(T, D) = ToOrder(S, D)
      /\ \A i \in ToOrder(S, D) : Earlier(Rest(T, D), i) = Earlier(Rest(S, D), i)
    <2>1. S \in SUBSET Ids
        BY DEF StoredIds
    <2>2. D \in SUBSET Nat /\ IsFiniteSet(D)
        BY ReportFacts
    <2> HIDE DEF S, D
    <2> QED BY <2>1, <2>2, StagesAgain
<1> HIDE DEF new, T
<1>9. ASSUME NEW i \in D
      PROVE  i \in DOMAIN again /\ again[i] = A[i]
    <2>1. CASE i \in new
        BY <1>2, <1>4, <1>6, <1>7, <1>8, <2>1
    <2>2. CASE i \in ToIdentity(S, D)
        BY <1>1, <1>2, <1>4, <1>7, <1>8, <2>2
    <2>3. CASE i \in ToOrdinal(S, D)
        <3>1. A[i] = PickAt(FreeAfterIdentity(S, D), i)
            BY <1>1, <1>4, <2>3
        <3>2. i \in ToOrdinal(StoredIds(w), D)
            BY <1>7, <1>8, <2>3
        <3>3. i \in DOMAIN again /\ again[i] = PickAt(FreeAfterIdentity(StoredIds(w), D), i)
            BY <1>2, <3>2
        <3>4. FreeAfterIdentity(StoredIds(w), D) = FreeAfterIdentity(S, D)
            BY <1>7, <1>8
        <3> QED BY <3>1, <3>3, <3>4
    <2>4. CASE i \in ToOrder(S, D)
        <3>1. A[i] = Nth(FreeAfterOrdinal(S, D), Earlier(Rest(S, D), i))
            BY <1>1, <1>4, <2>4
        <3>2. i \in ToOrder(StoredIds(w), D)
            BY <1>7, <1>8, <2>4
        <3>3. i \in DOMAIN again /\ again[i] =
                Nth(FreeAfterOrdinal(StoredIds(w), D), Earlier(Rest(StoredIds(w), D), i))
            BY <1>2, <3>2
        <3>4. /\ FreeAfterOrdinal(StoredIds(w), D) = FreeAfterOrdinal(S, D)
              /\ Earlier(Rest(StoredIds(w), D), i) = Earlier(Rest(S, D), i)
            BY <1>7, <1>8, <2>4
        <3> QED BY <3>1, <3>3, <3>4
    <2> QED BY <1>1, <1>6, <2>1, <2>2, <2>3, <2>4
<1>10. \A i \in D : C[i] \in Ids /\ w[C[i]] = items[i]
    BY <1>3, <1>4, <1>9
<1>11. Written(w, items, C) = w
    BY <1>10, WrittenSame
<1> QED BY <1>11 DEF C

-----------------------------------------------------------------------------

\* The identities that runs have stored: a run goes beyond the ordinals in use by
\* the length of a report at most.
Bounded == \A id \in StoredIds(siblings) : id[2] <= MaxItems * runs

\* The inductive invariant of IdentitySpec.
IdentityInv ==
    /\ IdentityTypeOK
    /\ Bounded
    /\ CollisionFree
    /\ RepeatIsStable

\* The ordinals that one more run can reach are ordinals of identities.
LEMMA RunBounds ==
    ASSUME NEW n \in 0..MaxRuns, n < MaxRuns
    PROVE  /\ MaxItems * n \in Nat
           /\ MaxItems * (n + 1) = MaxItems * n + MaxItems
           /\ MaxItems * n + MaxItems <= MaxItems * MaxRuns
           /\ Formats \X (1..(MaxItems * n + MaxItems)) \subseteq Ids
<1>1. MaxItems \in Nat /\ MaxRuns \in Nat /\ n \in Nat /\ MaxRuns - (n + 1) \in Nat
    BY ItemsAssumption
<1>2. MaxItems * n \in Nat /\ MaxItems * (MaxRuns - (n + 1)) \in Nat
    BY <1>1
<1>3. MaxItems * (n + 1) = MaxItems * n + MaxItems
    BY <1>1
<1>4. MaxItems * MaxRuns = MaxItems * (n + 1) + MaxItems * (MaxRuns - (n + 1))
    BY <1>1
<1>5. MaxItems * MaxRuns \in Nat
    BY <1>1
<1>6. MaxItems * n + MaxItems <= MaxItems * MaxRuns
    BY <1>1, <1>2, <1>3, <1>4, <1>5
<1>7. 1..(MaxItems * n + MaxItems) \subseteq 1..(MaxItems * MaxRuns)
    BY <1>1, <1>2, <1>5, <1>6
<1> QED BY <1>2, <1>3, <1>6, <1>7 DEF Ids

\* A report without items writes nothing.
LEMMA EmptyReport ==
    /\ <<>> \in Reports
    /\ DOMAIN <<>> = {}
    /\ <<>> \in [DOMAIN <<>> -> Ids]
    /\ \A sem \in BOOLEAN : \A r \in Rows : Written(r, <<>>, Assign(sem, r, <<>>)) = r
<1>1. DOMAIN <<>> = {} /\ <<>> \in [DOMAIN <<>> -> Ids]
    OBVIOUS
<1>2. <<>> \in Reports
    <2>1. 0 \in 0..MaxItems
        BY ItemsAssumption
    <2>2. <<>> \in [1..0 -> Items]
        OBVIOUS
    <2> QED BY <2>1, <2>2 DEF Reports
<1>3. ASSUME NEW sem \in BOOLEAN, NEW r \in Rows
      PROVE  Written(r, <<>>, Assign(sem, r, <<>>)) = r
    <2> DEFINE ids == Assign(sem, r, <<>>)
    <2> HIDE DEF ids
    <2>1. \A i \in DOMAIN <<>> : ids[i] \in Ids /\ r[ids[i]] = <<>>[i]
        BY <1>1
    <2>2. Written(r, <<>>, ids) = r
        BY <1>2, <2>1, WrittenSame
    <2> QED BY <2>2 DEF ids
<1> QED BY <1>1, <1>2, <1>3

\* What a reprocessing assigns and stores.
LEMMA ReprocessFacts ==
    ASSUME IdentityInv, NEW items \in Reports, runs < MaxRuns
    PROVE  LET A == Assign(semantic, siblings, items)
               w == Written(siblings, items, A)
           IN /\ A \in [DOMAIN items -> Ids]
              /\ \A i, j \in DOMAIN items : A[i] = A[j] => i = j
              /\ \A i \in DOMAIN items : A[i][2] <= MaxItems * runs + MaxItems
              /\ \A i \in DOMAIN Matched(semantic, siblings, items) :
                    i \in DOMAIN items /\ A[i] = Matched(semantic, siblings, items)[i]
              /\ w \in Rows
              /\ \A i \in DOMAIN items : w[A[i]] = items[i]
              /\ StoredIds(w) = StoredIds(siblings) \cup {A[i] : i \in DOMAIN items}
              /\ Written(w, items, Assign(semantic, w, items)) = w
<1> DEFINE A == Assign(semantic, siblings, items)
           w == Written(siblings, items, A)
           done == Matched(semantic, siblings, items)
<1>1. semantic \in BOOLEAN /\ siblings \in Rows /\ runs \in 0..MaxRuns
    BY DEF IdentityInv, IdentityTypeOK, Rows
<1>2. /\ MaxItems * runs \in Nat
      /\ Formats \X (1..(MaxItems * runs + MaxItems)) \subseteq Ids
    BY <1>1, RunBounds
<1>3. \A id \in StoredIds(siblings) : id[2] <= MaxItems * runs
    BY DEF IdentityInv, Bounded
<1>4. /\ A \in [DOMAIN items -> Formats \X (1..(MaxItems * runs + MaxItems))]
      /\ \A i, j \in DOMAIN items : A[i] = A[j] => i = j
      /\ \A i \in DOMAIN done : i \in DOMAIN items /\ A[i] = done[i]
      /\ ~ semantic => \A i \in DOMAIN items : i \notin DOMAIN done => A[i] = Generated(i)
    BY <1>1, <1>2, <1>3, AssignFacts
<1> HIDE DEF A, done
<1>5. A \in [DOMAIN items -> Ids]
    BY <1>2, <1>4
<1>6. \A i \in DOMAIN items : A[i][2] <= MaxItems * runs + MaxItems
    <2> DEFINE M == MaxItems * runs + MaxItems
    <2>1. M \in Nat
        BY <1>2, ItemsAssumption
    <2> HIDE DEF M
    <2>2. A \in [DOMAIN items -> Formats \X (1..M)]
        BY <1>4 DEF M
    <2>3. \A i \in DOMAIN items : A[i][2] \in 1..M
        BY <2>2
    <2>4. \A i \in DOMAIN items : A[i][2] <= M
        BY <2>1, <2>3
    <2> QED BY <2>4 DEF M
<1>7. /\ w \in Rows
      /\ \A i \in DOMAIN items : w[A[i]] = items[i]
      /\ StoredIds(w) = StoredIds(siblings) \cup {A[i] : i \in DOMAIN items}
    BY <1>1, <1>4, <1>5, WrittenFacts
<1> HIDE DEF w
<1>8. Written(w, items, Assign(semantic, w, items)) = w
    <2>1. CASE semantic = TRUE
        <3>1. Written(w, items, Assign(TRUE, w, items)) = w
            BY <1>4, <1>5, <1>7, RepeatAllegations
        <3> QED BY <2>1, <3>1
    <2>2. CASE semantic = FALSE
        <3>1. A = Assign(FALSE, siblings, items) /\ done = Matched(FALSE, siblings, items)
            BY <2>2 DEF A, done
        <3>2. \A i \in DOMAIN items : A[i] \in Ids /\ w[A[i]] = items[i]
            BY <1>5, <1>7
        <3> DEFINE E == Assign(FALSE, siblings, items)
                   F == Matched(FALSE, siblings, items)
        <3>3. /\ StoredIds(w) = StoredIds(siblings) \cup {E[i] : i \in DOMAIN items}
              /\ \A i \in DOMAIN items : E[i] \in Ids /\ w[E[i]] = items[i]
              /\ \A i \in DOMAIN F : E[i] = F[i]
              /\ \A i \in DOMAIN items : i \notin DOMAIN F => E[i] = Generated(i)
            <4> HIDE DEF E, F
            <4>1. A = E /\ done = F
                BY <3>1 DEF E, F
            <4> QED BY <1>4, <1>7, <2>2, <3>2, <4>1
        <3>4. Written(w, items, Assign(FALSE, w, items)) = w
            BY <1>1, <1>7, <3>3, RepeatEvents
        <3> QED BY <2>2, <3>4
    <2> QED BY <1>1, <2>1, <2>2
<1> QED BY <1>4, <1>5, <1>6, <1>7, <1>8 DEF A, w, done

\* IdentityInv holds at first,
LEMMA IdentityInitInv == IdentityInit => IdentityInv
<1> SUFFICES ASSUME IdentityInit PROVE IdentityInv
    OBVIOUS
<1> USE DEF IdentityInit
<1>1. siblings \in Rows /\ StoredIds(siblings) = {}
    BY DEF Rows, StoredIds
<1>2. IdentityTypeOK
    BY <1>1, EmptyReport, ItemsAssumption DEF IdentityTypeOK, Rows
<1>3. Bounded
    BY <1>1 DEF Bounded
<1>4. CollisionFree
    BY EmptyReport DEF CollisionFree
<1>5. RepeatIsStable
    BY <1>1, EmptyReport DEF RepeatIsStable
<1> QED BY <1>2, <1>3, <1>4, <1>5 DEF IdentityInv

\* is kept by an import, which numbers its items,
LEMMA ImportInv ==
    ASSUME IdentityInv, NEW items \in Reports, NEW format \in Formats, Import(items, format)
    PROVE  IdentityInv'
<1> DEFINE ids == [i \in DOMAIN items |-> <<format, i>>]
<1>1. /\ semantic \in BOOLEAN /\ siblings \in Rows /\ runs \in 0..MaxRuns /\ runs < MaxRuns
      /\ siblings' = Written(siblings, items, ids)
      /\ report' = <<>> /\ assigned' = <<>> /\ runs' = runs + 1 /\ semantic' = semantic
    BY DEF IdentityInv, IdentityTypeOK, Rows, Import
<1>2. /\ MaxItems * runs \in Nat /\ MaxItems \in Nat
      /\ MaxItems * (runs + 1) = MaxItems * runs + MaxItems
      /\ Formats \X (1..(MaxItems * runs + MaxItems)) \subseteq Ids
    BY <1>1, RunBounds, ItemsAssumption
<1>3. \A i \in DOMAIN items : i \in 1..MaxItems
    BY ReportFacts, ItemsAssumption
<1>4. \A i \in DOMAIN items : ids[i] \in Ids /\ ids[i][2] <= MaxItems * runs + MaxItems
    <2> SUFFICES ASSUME NEW i \in DOMAIN items
                 PROVE  ids[i] \in Ids /\ ids[i][2] <= MaxItems * runs + MaxItems
        OBVIOUS
    <2>1. i \in 1..(MaxItems * runs + MaxItems)
        BY <1>2, <1>3
    <2>2. ids[i] = <<format, i>>
        OBVIOUS
    <2> QED BY <1>2, <2>1, <2>2
<1>5. ids \in [DOMAIN items -> Ids] /\ \A i, j \in DOMAIN items : ids[i] = ids[j] => i = j
    BY <1>4
<1> HIDE DEF ids
<1>6. /\ siblings' \in Rows
      /\ StoredIds(siblings') = StoredIds(siblings) \cup {ids[i] : i \in DOMAIN items}
    BY <1>1, <1>5, WrittenFacts
<1>7. IdentityTypeOK'
    <2>1. runs + 1 \in 0..MaxRuns
        BY <1>1, ItemsAssumption
    <2> QED BY <1>1, <1>6, <2>1, EmptyReport DEF IdentityTypeOK, Rows
<1>8. Bounded'
    <2>1. \A id \in StoredIds(siblings) : id[2] <= MaxItems * runs
        BY DEF IdentityInv, Bounded
    <2>2. \A id \in StoredIds(siblings) : id[2] \in Nat
        BY ItemsAssumption DEF StoredIds, Ids
    <2>3. \A id \in StoredIds(siblings) : id[2] <= MaxItems * runs + MaxItems
        BY <1>2, <2>1, <2>2
    <2>4. \A id \in StoredIds(siblings') : id[2] <= MaxItems * runs + MaxItems
        BY <1>4, <1>6, <2>3
    <2>5. \A id \in StoredIds(siblings') : id[2] <= MaxItems * runs'
        BY <1>1, <1>2, <2>4
    <2> QED BY <2>5 DEF Bounded, StoredIds
<1>9. CollisionFree'
    BY <1>1, EmptyReport DEF CollisionFree
<1>10. RepeatIsStable'
    <2>1. Written(siblings', <<>>, Assign(semantic, siblings', <<>>)) = siblings'
        BY <1>1, <1>6, EmptyReport
    <2> QED BY <1>1, <2>1 DEF RepeatIsStable
<1> QED BY <1>7, <1>8, <1>9, <1>10 DEF IdentityInv

\* is kept by a reprocessing, which assigns identities,
LEMMA ReprocessInv ==
    ASSUME IdentityInv, NEW items \in Reports, Reprocess(items)
    PROVE  IdentityInv'
<1> DEFINE A == Assign(semantic, siblings, items)
           w == Written(siblings, items, A)
<1>1. /\ semantic \in BOOLEAN /\ siblings \in Rows /\ runs \in 0..MaxRuns /\ runs < MaxRuns
      /\ report' = items /\ assigned' = A /\ siblings' = w
      /\ runs' = runs + 1 /\ semantic' = semantic
    BY DEF IdentityInv, IdentityTypeOK, Rows, Reprocess
<1>2. /\ A \in [DOMAIN items -> Ids]
      /\ \A i, j \in DOMAIN items : A[i] = A[j] => i = j
      /\ \A i \in DOMAIN items : A[i][2] <= MaxItems * runs + MaxItems
      /\ w \in Rows
      /\ StoredIds(w) = StoredIds(siblings) \cup {A[i] : i \in DOMAIN items}
      /\ Written(w, items, Assign(semantic, w, items)) = w
    BY <1>1, ReprocessFacts
<1> HIDE DEF A, w
<1>3. /\ MaxItems * runs \in Nat /\ MaxItems \in Nat
      /\ MaxItems * (runs + 1) = MaxItems * runs + MaxItems
    BY <1>1, RunBounds, ItemsAssumption
<1>4. IdentityTypeOK'
    <2>1. runs + 1 \in 0..MaxRuns
        BY <1>1, ItemsAssumption
    <2> QED BY <1>1, <1>2, <2>1 DEF IdentityTypeOK, Rows
<1>5. Bounded'
    <2>1. \A id \in StoredIds(siblings) : id[2] <= MaxItems * runs
        BY DEF IdentityInv, Bounded
    <2>2. \A id \in StoredIds(siblings) : id[2] \in Nat
        BY ItemsAssumption DEF StoredIds, Ids
    <2>3. \A id \in StoredIds(siblings) : id[2] <= MaxItems * runs + MaxItems
        BY <1>3, <2>1, <2>2
    <2>4. \A id \in StoredIds(siblings') : id[2] <= MaxItems * runs + MaxItems
        BY <1>1, <1>2, <2>3
    <2>5. \A id \in StoredIds(siblings') : id[2] <= MaxItems * runs'
        BY <1>1, <1>3, <2>4
    <2> QED BY <2>5 DEF Bounded, StoredIds
<1>6. CollisionFree'
    BY <1>1, <1>2 DEF CollisionFree
<1>7. RepeatIsStable'
    BY <1>1, <1>2 DEF RepeatIsStable
<1> QED BY <1>4, <1>5, <1>6, <1>7 DEF IdentityInv

\* and by every step.
LEMMA IdentityNextInv == IdentityInv /\ [IdentityNext]_identityVars => IdentityInv'
<1> SUFFICES ASSUME IdentityInv, [IdentityNext]_identityVars PROVE IdentityInv'
    OBVIOUS
<1>1. ASSUME NEW items \in Reports, NEW format \in Formats, Import(items, format)
      PROVE  IdentityInv'
    BY <1>1, ImportInv
<1>2. ASSUME NEW items \in Reports, Reprocess(items)
      PROVE  IdentityInv'
    BY <1>2, ReprocessInv
<1>3. CASE UNCHANGED identityVars
    BY <1>3 DEF identityVars, IdentityInv, IdentityTypeOK, Bounded, CollisionFree,
                RepeatIsStable
<1> QED BY <1>1, <1>2, <1>3 DEF IdentityNext

\* Identities in use are bounded by the runs, assigned without collision and found
\* again, after any sequence of imports and reprocessings.
THEOREM IdentityInvariance == IdentitySpec => []IdentityInv
BY IdentityInitInv, IdentityNextInv, PTL DEF IdentitySpec

\* The stored identities stay within the bound of the model, whatever is imported
\* and reprocessed in which order: NextId never runs out of it.
THEOREM IdentityTypeCorrect == IdentitySpec => []IdentityTypeOK
<1>1. IdentityInv => IdentityTypeOK
    BY DEF IdentityInv
<1> QED BY <1>1, IdentityInvariance, PTL

\* No two items of a reprocessed report get one identity, for reports of any length,
\* any stored rows that imports and reprocessings can leave, and any order of the
\* identities (_preserve_sequence_stable_identities).
THEOREM IdentitiesAreCollisionFree == IdentitySpec => []CollisionFree
<1>1. IdentityInv => CollisionFree
    BY DEF IdentityInv
<1> QED BY <1>1, IdentityInvariance, PTL

\* Reprocessing the same report again finds every item's row and changes none.
THEOREM RepeatingIsStable == IdentitySpec => []RepeatIsStable
<1>1. IdentityInv => RepeatIsStable
    BY DEF IdentityInv
<1> QED BY <1>1, IdentityInvariance, PTL

\* The rows that the semantic stage keeps: all with one content if the report has
\* as many such items, and as many as it has otherwise.
LEMMA KeptByReprocess ==
    ASSUME IdentityInv, NEW items \in Reports, runs < MaxRuns, semantic, NEW x \in Items
    PROVE  LET before == {id \in Ids : siblings[id] = x}
               w == Written(siblings, items, Assign(semantic, siblings, items))
               kept == {id \in before : w[id] = x}
               count == Cardinality({i \in DOMAIN items : items[i] = x})
           IN Cardinality(kept) >= IF count < Cardinality(before) THEN count
                                   ELSE Cardinality(before)
<1> DEFINE before == {id \in Ids : siblings[id] = x}
           A == Assign(semantic, siblings, items)
           w == Written(siblings, items, A)
           kept == {id \in before : w[id] = x}
           W == {i \in DOMAIN items : items[i] = x}
           B == BySemantics(semantic, siblings, items)
<1>1. semantic \in BOOLEAN /\ siblings \in Rows
    BY DEF IdentityInv, IdentityTypeOK, Rows
<1>2. before = Same(siblings, x) /\ W = With(items, x)
    BY ItemsAssumption DEF Same, StoredIds, With
<1>3. /\ before \in SUBSET Ids /\ IsFiniteSet(before) /\ Cardinality(before) \in Nat
      /\ kept \in SUBSET before /\ IsFiniteSet(kept) /\ Cardinality(kept) \in Nat
    <2>1. before \in SUBSET Ids /\ kept \in SUBSET Ids /\ kept \in SUBSET before
        OBVIOUS
    <2> QED BY <2>1, IdsFinite
<1>4. /\ W \in SUBSET DOMAIN items /\ W \in SUBSET Nat /\ IsFiniteSet(W)
      /\ Cardinality(W) \in Nat
    <2>1. W \in SUBSET DOMAIN items
        OBVIOUS
    <2> QED BY <2>1, ReportFacts
<1>5. /\ A \in [DOMAIN items -> Ids]
      /\ \A i, j \in DOMAIN items : A[i] = A[j] => i = j
      /\ \A i \in DOMAIN Matched(semantic, siblings, items) :
            A[i] = Matched(semantic, siblings, items)[i]
      /\ \A i \in DOMAIN items : w[A[i]] = items[i]
    <2>1. A \in [DOMAIN items -> Ids]
        BY ReprocessFacts
    <2>2. \A i, j \in DOMAIN items : A[i] = A[j] => i = j
        BY ReprocessFacts
    <2>3. \A i \in DOMAIN Matched(semantic, siblings, items) :
            i \in DOMAIN items /\ A[i] = Matched(semantic, siblings, items)[i]
        BY ReprocessFacts
    <2>4. \A i \in DOMAIN items : w[A[i]] = items[i]
        BY ReprocessFacts
    <2> QED BY <2>1, <2>2, <2>3, <2>4
<1>6. \A i \in DOMAIN B : /\ i \in DOMAIN Matched(semantic, siblings, items)
                          /\ Matched(semantic, siblings, items)[i] = B[i]
    BY <1>1, MatchedPartial
<1>7. /\ DOMAIN B = {i \in DOMAIN items : semantic /\
            Earlier(With(items, items[i]), i) < Cardinality(Same(siblings, items[i]))}
      /\ \A i \in DOMAIN B :
            B[i] = Nth(Same(siblings, items[i]), Earlier(With(items, items[i]), i))
    BY DEF BySemantics
<1>8. \A i \in W : i \in DOMAIN items /\ items[i] = x
    OBVIOUS
<1>9. \A id \in before : w[id] = x => id \in kept
    OBVIOUS
<1> HIDE DEF A, w, B, W, before, kept
<1>10. ASSUME NEW i \in W, Earlier(W, i) < Cardinality(before)
       PROVE  A[i] = Nth(before, Earlier(W, i)) /\ w[A[i]] = x
    <2>1. i \in DOMAIN items /\ items[i] = x
        BY <1>8
    <2>2. With(items, items[i]) = W /\ Same(siblings, items[i]) = before
        BY <1>2, <2>1
    <2>3. i \in DOMAIN B
        BY <1>7, <1>10, <2>1, <2>2
    <2>4. A[i] = B[i]
        BY <1>5, <1>6, <2>3
    <2> QED BY <1>5, <1>7, <2>1, <2>2, <2>3, <2>4
<1>11. \A i \in W : Earlier(W, i) \in 0..(Cardinality(W) - 1)
    BY <1>4, EarlierProperties
<1>12. CASE Cardinality(W) < Cardinality(before)
    <2> DEFINE f == [i \in W |-> A[i]]
    <2>1. ASSUME NEW i \in W
          PROVE  A[i] \in kept
        <3>1. Earlier(W, i) \in 0..(Cardinality(before) - 1)
              /\ Earlier(W, i) < Cardinality(before)
            BY <1>3, <1>4, <1>11, <1>12
        <3>2. A[i] = Nth(before, Earlier(W, i)) /\ w[A[i]] = x
            BY <1>10, <3>1
        <3>3. Nth(before, Earlier(W, i)) \in before
            BY <1>3, <3>1, NthProperties
        <3> QED BY <1>9, <3>2, <3>3
    <2>2. f \in Injection(W, kept)
        BY <1>5, <1>8, <2>1 DEF Injection, IsInjective
    <2>3. Cardinality(W) <= Cardinality(kept)
        BY <1>3, <2>2, FS_Injection
    <2> QED BY <1>3, <1>4, <1>12, <2>3 DEF W, before, kept, w, A
<1>13. CASE ~ (Cardinality(W) < Cardinality(before))
    <2>1. ASSUME NEW id \in before
          PROVE  id \in kept
        <3>1. PICK n \in 0..(Cardinality(before) - 1) : Nth(before, n) = id
            BY <1>3, NthProperties
        <3>2. n \in 0..(Cardinality(W) - 1) /\ n < Cardinality(before)
            BY <1>3, <1>4, <1>13
        <3>3. PICK i \in W : Earlier(W, i) = n
            BY <1>4, <3>2, EarlierProperties
        <3>4. A[i] = id /\ w[A[i]] = x
            BY <1>10, <3>1, <3>2, <3>3
        <3> QED BY <1>9, <3>4
    <2>2. kept = before
        BY <1>3, <2>1
    <2>3. Cardinality(kept) >= Cardinality(before)
        BY <1>3, <2>2
    <2> QED BY <1>13, <2>3 DEF W, before, kept, w, A
<1> QED BY <1>12, <1>13

\* Of the stored allegations that a reprocessed report still has, each keeps its
\* identity and its values, however many new ones it has between them.
THEOREM SiblingsAreKept == IdentitySpec => SiblingsKept
<1> DEFINE Kept == \A x \in Items :
          LET before == {id \in Ids : siblings[id] = x}
              kept == {id \in before : siblings'[id] = x}
              count == Cardinality({i \in DOMAIN report' : report'[i] = x})
          IN (semantic /\ report' # <<>>)
             => Cardinality(kept) >= IF count < Cardinality(before) THEN count
                                     ELSE Cardinality(before)
<1>1. ASSUME IdentityInv, NEW items \in Reports, Reprocess(items)
      PROVE  Kept
    <2>1. /\ runs < MaxRuns /\ report' = items
          /\ siblings' = Written(siblings, items, Assign(semantic, siblings, items))
        BY <1>1 DEF Reprocess
    <2> QED BY <1>1, <2>1, KeptByReprocess
<1>2. ASSUME NEW items \in Reports, NEW format \in Formats, Import(items, format)
      PROVE  Kept
    BY <1>2 DEF Import
<1>3. ASSUME IdentityInv, [IdentityNext]_identityVars
      PROVE  [Kept]_identityVars
    <2> HIDE DEF Kept
    <2> QED BY <1>1, <1>2, <1>3 DEF IdentityNext
<1>4. QED
    BY <1>3, IdentityInvariance, PTL DEF IdentitySpec, SiblingsKept
=============================================================================
