-------------------------- MODULE RawArtifactsProofs --------------------------
(***************************************************************************)
(* Proofs about RawArtifacts for any number of jobs, backfills, reports,   *)
(* fields and versions of a report.                                        *)
(***************************************************************************)
EXTENDS RawArtifacts, TLAPS

\* Jobs fetch and store, backfills verify, and an idle worker has no work.
StepSound ==
    \A w \in Workers :
        /\ pc[w] \in {"fetch", "store"} => w \in Jobs
        /\ pc[w] = "verify" => w \in Backfills
        /\ pc[w] = "idle" =>
              /\ pos[w] = 1
              /\ hash[w] = Nothing
              /\ values[w] = Nothing
              /\ existing[w] = Nothing
              /\ disturbed[w] = {}

\* A worker has values only for reports it is past, and never without a hash;
\* while it stores or extracts a report it has the report's hash.
WorkSound ==
    \A w \in Workers :
        /\ \A d \in Reports : values[w][d] # None => d < pos[w] /\ hash[w][d] # None
        /\ \A d \in Reports : existing[w][d] # None => values[w][d] # None
        /\ At(w, "store") \/ At(w, "extract") => hash[w][pos[w]] # None
        /\ pc[w] \in {"store", "extract"} => pos[w] \in Reports

\* What a worker relies on, as long as nobody else stores the report: the file
\* that it extracts, or has extracted, is the one of its hash.
FileSound ==
    \A w \in Workers :
        /\ \A d \in Reports \ disturbed[w] :
              values[w][d] # None => values[w][d] = hash[w][d] /\ file[d] = hash[w][d]
        /\ (At(w, "extract") /\ pos[w] \notin disturbed[w]) =>
              file[pos[w]] = hash[w][pos[w]]

\* The inductive invariant.
IInv ==
    /\ TypeOK
    /\ StepSound
    /\ WorkSound
    /\ FileSound
    /\ TraceSound

-----------------------------------------------------------------------------

\* With no file, no row and idle workers the invariant holds.
LEMMA InitIInv == Init => IInv
  BY RawAssumption
     DEF Init, IInv, TypeOK, StepSound, WorkSound, FileSound, TraceSound, At,
         Nothing, Reports, Workers

-----------------------------------------------------------------------------
(* One lemma for each kind of step.                                        *)

\* A job that starts has no work.
LEMMA StartJobIInv ==
    ASSUME IInv, NEW w \in Workers, StartJob(w)
    PROVE  IInv'
  <1> USE RawAssumption DEF Workers, Reports, Nothing
  <1>1. TypeOK'
    BY DEF IInv, TypeOK, WorkSound, At, StartJob, Goto
  <1>2. StepSound'
    BY DEF IInv, TypeOK, StepSound, StartJob, Goto
  <1>3. WorkSound'
    BY DEF IInv, TypeOK, StepSound, WorkSound, At, StartJob, Goto
  <1>4. FileSound'
    BY DEF IInv, TypeOK, StepSound, WorkSound, FileSound, At, StartJob, Goto
  <1>5. TraceSound'
    BY DEF IInv, TraceSound, StartJob
  <1>6. QED
    BY <1>1, <1>2, <1>3, <1>4, <1>5 DEF IInv

\* A backfill that starts has hashes of rows, and values of no report.
LEMMA StartBackfillIInv ==
    ASSUME IInv, NEW w \in Workers, StartBackfill(w)
    PROVE  IInv'
  <1> USE RawAssumption DEF Workers, Reports, Nothing
  <1>1. TypeOK'
    BY DEF IInv, TypeOK, WorkSound, At, StartBackfill, Goto, Row
  <1>2. StepSound'
    BY DEF IInv, TypeOK, StepSound, StartBackfill, Goto, Row
  <1>3. WorkSound'
    BY DEF IInv, TypeOK, StepSound, WorkSound, At, StartBackfill, Goto, Row
  <1>4. FileSound'
    BY DEF IInv, TypeOK, StepSound, WorkSound, FileSound, At, StartBackfill,
           Goto, Row
  <1>5. TraceSound'
    BY DEF IInv, TraceSound, StartBackfill
  <1>6. QED
    BY <1>1, <1>2, <1>3, <1>4, <1>5 DEF IInv

\* A report that is passed over leaves the job without values for it.
LEMMA PassOverIInv ==
    ASSUME IInv, NEW w \in Workers, PassOver(w)
    PROVE  IInv'
  <1> USE RawAssumption DEF Workers, Reports, Nothing
  <1>1. TypeOK'
    BY DEF IInv, TypeOK, WorkSound, At, PassOver, Advance, FirstStep, Goto
  <1>2. StepSound'
    BY DEF IInv, TypeOK, StepSound, At, PassOver, Advance, FirstStep, Goto
  <1>3. WorkSound'
    BY DEF IInv, TypeOK, StepSound, WorkSound, At, PassOver, Advance, FirstStep,
           Goto
  <1>4. FileSound'
    BY DEF IInv, TypeOK, StepSound, WorkSound, FileSound, At, PassOver, Advance,
           FirstStep, Goto
  <1>5. TraceSound'
    BY DEF IInv, TraceSound, PassOver
  <1>6. QED
    BY <1>1, <1>2, <1>3, <1>4, <1>5 DEF IInv

\* A report without a row leaves the backfill without values for it.
LEMMA NoDocumentIInv ==
    ASSUME IInv, NEW w \in Workers, NoDocument(w)
    PROVE  IInv'
  <1> USE RawAssumption DEF Workers, Reports, Nothing
  <1>1. TypeOK'
    BY DEF IInv, TypeOK, WorkSound, At, NoDocument, Advance, FirstStep, Goto
  <1>2. StepSound'
    BY DEF IInv, TypeOK, StepSound, At, NoDocument, Advance, FirstStep, Goto
  <1>3. WorkSound'
    BY DEF IInv, TypeOK, StepSound, WorkSound, At, NoDocument, Advance,
           FirstStep, Goto
  <1>4. FileSound'
    BY DEF IInv, TypeOK, StepSound, WorkSound, FileSound, At, NoDocument,
           Advance, FirstStep, Goto
  <1>5. TraceSound'
    BY DEF IInv, TraceSound, NoDocument
  <1>6. QED
    BY <1>1, <1>2, <1>3, <1>4, <1>5 DEF IInv

\* The truncated file is noted as disturbed by all others that have the report.
LEMMA StoreRawIInv ==
    ASSUME IInv, NEW w \in Workers, StoreRaw(w)
    PROVE  IInv'
  <1> USE RawAssumption DEF Workers, Reports, Nothing
  <1>1. TypeOK'
    BY DEF IInv, TypeOK, WorkSound, At, StoreRaw, Disturb, Goto
  <1>2. StepSound'
    BY DEF IInv, TypeOK, StepSound, At, StoreRaw, Disturb, Goto
  <1>3. WorkSound'
    BY DEF IInv, TypeOK, StepSound, WorkSound, At, StoreRaw, Disturb, Goto
  <1>4. FileSound'
    BY DEF IInv, TypeOK, StepSound, WorkSound, FileSound, At, StoreRaw, Disturb,
           Goto
  <1>5. TraceSound'
    BY DEF IInv, TraceSound, StoreRaw
  <1>6. QED
    BY <1>1, <1>2, <1>3, <1>4, <1>5 DEF IInv

\* A complete file is the one of the job's hash.
LEMMA StoredIInv ==
    ASSUME IInv, NEW w \in Workers, Stored(w)
    PROVE  IInv'
  <1> USE RawAssumption DEF Workers, Reports, Nothing
  <1>1. TypeOK'
    BY DEF IInv, TypeOK, WorkSound, At, Stored, Disturb, Goto
  <1>2. StepSound'
    BY DEF IInv, TypeOK, StepSound, At, Stored, Disturb, Goto
  <1>3. WorkSound'
    BY DEF IInv, TypeOK, StepSound, WorkSound, At, Stored, Disturb, Goto
  <1>4. FileSound'
    BY DEF IInv, TypeOK, StepSound, WorkSound, FileSound, At, Stored, Disturb,
           Goto
  <1>5. TraceSound'
    BY DEF IInv, TraceSound, Stored
  <1>6. QED
    BY <1>1, <1>2, <1>3, <1>4, <1>5 DEF IInv

\* A failed write takes the hash back, and the job has no values of the report.
LEMMA StoreFailsIInv ==
    ASSUME IInv, NEW w \in Workers, StoreFails(w)
    PROVE  IInv'
  <1> USE RawAssumption DEF Workers, Reports, Nothing
  <1>1. TypeOK'
    BY DEF IInv, TypeOK, WorkSound, At, StoreFails, Advance, FirstStep, Goto
  <1>2. StepSound'
    BY DEF IInv, TypeOK, StepSound, At, StoreFails, Advance, FirstStep, Goto
  <1>3. WorkSound'
    BY DEF IInv, TypeOK, StepSound, WorkSound, At, StoreFails, Advance,
           FirstStep, Goto
  <1>4. FileSound'
    BY DEF IInv, TypeOK, StepSound, WorkSound, FileSound, At, StoreFails,
           Advance, FirstStep, Goto
  <1>5. TraceSound'
    BY DEF IInv, TraceSound, StoreFails
  <1>6. QED
    BY <1>1, <1>2, <1>3, <1>4, <1>5 DEF IInv

\* An undisturbed worker extracts from the file of its hash.
LEMMA ExtractIInv ==
    ASSUME IInv, NEW w \in Workers, Extract(w)
    PROVE  IInv'
  <1> USE RawAssumption DEF Workers, Reports, Nothing
  <1>1. TypeOK'
    BY DEF IInv, TypeOK, WorkSound, At, Extract, Advance, FirstStep, Goto
  <1>2. StepSound'
    BY DEF IInv, TypeOK, StepSound, At, Extract, Advance, FirstStep, Goto
  <1>3. WorkSound'
    BY DEF IInv, TypeOK, StepSound, WorkSound, At, Extract, Advance, FirstStep,
           Goto
  <1>4. FileSound'
    BY DEF IInv, TypeOK, StepSound, WorkSound, FileSound, At, Extract, Advance,
           FirstStep, Goto
  <1>5. TraceSound'
    BY DEF IInv, TraceSound, Extract
  <1>6. QED
    BY <1>1, <1>2, <1>3, <1>4, <1>5 DEF IInv

\* A failed extraction of a job takes the hash of the report back.
LEMMA ExtractFailsIInv ==
    ASSUME IInv, NEW w \in Jobs, ExtractFails(w)
    PROVE  IInv'
  <1> USE RawAssumption DEF Workers, Reports, Nothing
  <1>0. /\ At(w, "extract")
        /\ hash' = [hash EXCEPT ![w][pos[w]] = None]
        /\ Advance(w)
        /\ UNCHANGED <<file, row, values, existing, disturbed>>
    BY DEF ExtractFails
  <1>1. TypeOK'
    BY <1>0 DEF IInv, TypeOK, WorkSound, At, Advance, FirstStep, Goto
  <1>2. StepSound'
    BY <1>0 DEF IInv, TypeOK, StepSound, At, Advance, FirstStep, Goto
  <1>3. WorkSound'
    BY <1>0 DEF IInv, TypeOK, StepSound, WorkSound, At, Advance, FirstStep, Goto
  <1>4. FileSound'
    BY <1>0 DEF IInv, TypeOK, StepSound, WorkSound, FileSound, At, Advance,
                FirstStep, Goto
  <1>5. TraceSound'
    BY <1>0 DEF IInv, TraceSound
  <1>6. QED
    BY <1>1, <1>2, <1>3, <1>4, <1>5 DEF IInv

\* A verified file is the one of the row's hash.
LEMMA VerifyIInv ==
    ASSUME IInv, NEW w \in Workers, Verify(w)
    PROVE  IInv'
  <1> USE RawAssumption DEF Workers, Reports, Nothing
  <1>1. TypeOK'
    BY DEF IInv, TypeOK, WorkSound, At, Verify, Goto
  <1>2. StepSound'
    BY DEF IInv, TypeOK, StepSound, At, Verify, Goto
  <1>3. WorkSound'
    BY DEF IInv, TypeOK, StepSound, WorkSound, At, Verify, Goto
  <1>4. FileSound'
    BY DEF IInv, TypeOK, StepSound, WorkSound, FileSound, At, Verify, Goto
  <1>5. TraceSound'
    BY DEF IInv, TraceSound, Verify
  <1>6. QED
    BY <1>1, <1>2, <1>3, <1>4, <1>5 DEF IInv

\* The SELECT of an import changes nothing but what it returned.
LEMMA SelectIInv ==
    ASSUME IInv, NEW w \in Workers, NEW d \in Reports, Select(w, d)
    PROVE  IInv'
  <1> DEFINE e == [found |-> row[d] # None,
                   values |-> IF row[d] = None THEN [f \in Fields |-> None]
                              ELSE row[d].values]
  <1>1. /\ existing' = [existing EXCEPT ![w][d] = e]
        /\ values[w][d] # None /\ pc[w] # "idle"
        /\ UNCHANGED <<file, row, pc, pos, hash, values, disturbed>>
    BY DEF Select, Imports, Extracted, FirstStep
  <1>2. e \in Existing
    BY DEF IInv, TypeOK, Row, Existing, FieldValues
  <1> HIDE DEF e
  <1>3. TypeOK'
    BY <1>1, <1>2 DEF IInv, TypeOK
  <1>4. StepSound'
    BY <1>1 DEF IInv, TypeOK, StepSound
  <1>5. WorkSound'
    BY <1>1 DEF IInv, TypeOK, WorkSound, At
  <1>6. FileSound' /\ TraceSound'
    BY <1>1 DEF IInv, FileSound, TraceSound, At
  <1>7. QED
    BY <1>3, <1>4, <1>5, <1>6 DEF IInv

\* The merge puts a content's values over older ones and keeps those it leaves blank.
LEMMA MergeFacts ==
    ASSUME NEW old \in FieldValues, NEW c \in Versions \cup {Partial}
    PROVE  /\ Merge(old, c) \in FieldValues
           /\ \A f \in Filled[c] : Merge(old, c)[f] = c
  BY RawAssumption DEF Merge, FieldValues

\* What an import writes is a row, and its values come from the content.
LEMMA ImportRow ==
    ASSUME IInv, NEW w \in Workers, Import(w), NEW d \in Reports
    PROVE  \/ d \notin Selected(w) /\ row'[d] = row[d]
           \/ /\ d \in Selected(w)
              /\ values[w][d] \in Versions \cup {Partial}
              /\ row'[d] \in Row
              /\ row'[d].hash = hash[w][d]
              /\ row'[d].alone = (d \notin disturbed[w])
              /\ \A f \in Filled[values[w][d]] : row'[d].values[f] = values[w][d]
  <1>1. CASE d \notin Selected(w)
    BY <1>1 DEF Import
  <1>2. CASE d \in Selected(w)
    <2> DEFINE m == Merge(existing[w][d].values, values[w][d])
    <2>1. /\ row'[d] = [hash |-> hash[w][d], values |-> m,
                        alone |-> d \notin disturbed[w]]
          /\ existing[w][d] # None
      BY <1>2 DEF Import, Selected
    <2>2. values[w][d] # None /\ hash[w][d] # None
      BY <2>1 DEF IInv, WorkSound
    <2>3. /\ values[w][d] \in Versions \cup {Partial}
          /\ hash[w][d] \in Versions
          /\ existing[w][d].values \in FieldValues
      BY <2>1, <2>2 DEF IInv, TypeOK, Existing
    <2>4. m \in FieldValues /\ \A f \in Filled[values[w][d]] : m[f] = values[w][d]
      BY <2>3, MergeFacts
    <2> HIDE DEF m
    <2>5. row'[d] \in Row
      BY <2>1, <2>3, <2>4 DEF Row
    <2>6. QED
      BY <1>2, <2>1, <2>3, <2>4, <2>5
  <1>3. QED
    BY <1>1, <1>2

\* An import writes rows whose values come from the files of their hashes, those aside
\* that these leave blank.
LEMMA ImportIInv ==
    ASSUME IInv, NEW w \in Workers, Import(w)
    PROVE  IInv'
  <1>1. Forget(w) /\ UNCHANGED file /\ row' = [d \in Reports |-> row'[d]]
    BY DEF Import
  <1>2. row' \in [Reports -> Row \cup {None}]
    BY <1>1, ImportRow DEF IInv, TypeOK
  <1>3. TypeOK'
    <2> USE RawAssumption DEF Workers, Reports, Nothing
    <2>1. QED
      BY <1>1, <1>2 DEF IInv, TypeOK, Forget, Goto
  <1>4. StepSound' /\ WorkSound' /\ FileSound'
    <2> USE RawAssumption DEF Workers, Reports, Nothing
    <2>1. StepSound'
      BY <1>1 DEF IInv, TypeOK, StepSound, Forget, Goto
    <2>2. WorkSound'
      BY <1>1 DEF IInv, TypeOK, StepSound, WorkSound, At, Forget, Goto
    <2>3. FileSound'
      BY <1>1 DEF IInv, TypeOK, StepSound, WorkSound, FileSound, At, Forget, Goto
    <2>4. QED
      BY <2>1, <2>2, <2>3
  <1>5. TraceSound'
    <2>1. SUFFICES ASSUME NEW d \in Reports, row'[d] # None, row'[d].alone,
                          NEW f \in Filled[row'[d].hash]
                   PROVE  row'[d].values[f] = row'[d].hash
      BY DEF TraceSound
    <2>2. CASE d \notin Selected(w)
      BY <2>1, <2>2, ImportRow DEF IInv, TraceSound
    <2>3. CASE d \in Selected(w)
      <3>1. values[w][d] # None /\ d \notin disturbed[w]
        BY <2>1, <2>3, ImportRow DEF IInv, WorkSound, Selected
      <3>2. values[w][d] = hash[w][d]
        BY <3>1 DEF IInv, FileSound
      <3>3. QED
        BY <2>1, <2>3, <3>2, ImportRow
    <2>4. QED
      BY <2>2, <2>3
  <1>6. QED
    BY <1>3, <1>4, <1>5 DEF IInv

\* A worker that gives up, or stops, forgets its work and touches nothing else.
LEMMA ForgetIInv ==
    ASSUME IInv, NEW w \in Workers, Forget(w), UNCHANGED <<file, row>>
    PROVE  IInv'
  <1> USE RawAssumption DEF Workers, Reports, Nothing
  <1>1. TypeOK'
    BY DEF IInv, TypeOK, WorkSound, At, Forget, Goto
  <1>2. StepSound'
    BY DEF IInv, TypeOK, StepSound, Forget, Goto
  <1>3. WorkSound'
    BY DEF IInv, TypeOK, StepSound, WorkSound, At, Forget, Goto
  <1>4. FileSound'
    BY DEF IInv, TypeOK, StepSound, WorkSound, FileSound, At, Forget, Goto
  <1>5. TraceSound'
    BY DEF IInv, TraceSound
  <1>6. QED
    BY <1>1, <1>2, <1>3, <1>4, <1>5 DEF IInv


\* Every step preserves the invariant.
LEMMA NextIInv == IInv /\ [Next]_vars => IInv'
  <1> SUFFICES ASSUME IInv, [Next]_vars PROVE IInv'
    OBVIOUS
  <1>1. CASE Next
    BY <1>1, StartJobIInv, StartBackfillIInv, PassOverIInv, NoDocumentIInv,
       StoreRawIInv, StoredIInv, StoreFailsIInv, ExtractIInv, ExtractFailsIInv,
       VerifyIInv, SelectIInv, ImportIInv, ForgetIInv
       DEF Next, ExtractFails, Mismatch, Abandon
  <1>2. CASE UNCHANGED vars
    BY <1>2 DEF vars, IInv, TypeOK, StepSound, WorkSound, FileSound,
                TraceSound, At
  <1>3. QED
    BY <1>1, <1>2

\* The invariant holds in every reachable state.
THEOREM Invariance == Spec => []IInv
  BY InitIInv, NextIInv, PTL DEF Spec

-----------------------------------------------------------------------------

\* Type correctness of the files, the rows and the workers' state.
THEOREM TypeCorrect == Spec => []TypeOK
  <1>1. IInv => TypeOK
    BY DEF IInv
  <1>2. QED
    BY Invariance, <1>1, PTL

\* What the bytes named by the hash of a row have a value for is in the row as it was
\* extracted from them, however many jobs and backfills overlap, unless another worker
\* stored the report meanwhile.
THEOREM TraceIsSound == Spec => []TraceSound
  <1>1. IInv => TraceSound
    BY DEF IInv
  <1>2. QED
    BY Invariance, <1>1, PTL

\* Only an import changes a row.
LEMMA RowStep ==
    ASSUME IInv, Next, row' # row
    PROVE  \E w \in Workers : Import(w)
  BY DEF Next, StartJob, PassOver, StoreRaw, Stored, StoreFails, Extract,
         ExtractFails, StartBackfill, NoDocument, Verify, Mismatch, Select, Abandon

\* A row that an undisturbed worker commits names the bytes that its file has.
THEOREM EvidencePreserved == Spec => EvidenceAtCommit
  <1>1. ASSUME IInv, [Next]_vars
        PROVE  [\A d \in Reports :
                  (row'[d] # row[d] /\ row'[d].alone) => file[d] = row'[d].hash]_vars
    <2>1. SUFFICES ASSUME NEW d \in Reports, row'[d] # row[d], row'[d].alone, Next
                   PROVE  file[d] = row'[d].hash
      BY <1>1 DEF vars
    <2>2. PICK w \in Workers : Import(w)
      BY <1>1, <2>1, RowStep
    <2>3. /\ d \in Selected(w)
          /\ row'[d].hash = hash[w][d]
          /\ d \notin disturbed[w]
      BY <1>1, <2>1, <2>2, ImportRow
    <2>4. values[w][d] # None
      BY <1>1, <2>3 DEF IInv, WorkSound, Selected
    <2>5. QED
      BY <1>1, <2>3, <2>4 DEF IInv, FileSound
  <1>2. QED
    BY Invariance, <1>1, PTL DEF Spec, EvidenceAtCommit
=============================================================================
