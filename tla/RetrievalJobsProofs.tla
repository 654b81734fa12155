------------------------- MODULE RetrievalJobsProofs -------------------------
(***************************************************************************)
(* Proofs about RetrievalJobs for any number of requests, rows and reports *)
(* and any rate limit: what a transaction writes is its own until one step *)
(* shows it together with the job row that accounts for it, also when an   *)
(* exception ended the import halfway.                                     *)
(***************************************************************************)
EXTENDS RetrievalJobs, FiniteSetTheorems, SequenceTheorems, TLAPS

Importing == {"read", "write"}

\* Only a request that is done has a job row that others see.
JobSound == \A r \in Requests : jobs[r] # None => pc[r] = "done"

\* An import has a row of its own for every record that it is past, ...
PosSound ==
    \A r \in Requests :
        /\ pc[r] \in Importing =>
              /\ pos[r] \in Nat \ {0}
              /\ \A i \in 1..Len(Reports[r]) :
                    i < pos[r] => draft[r][Reports[r][i].key] # None
        /\ pc[r] \in {"new", "running"} => pos[r] = 1
        /\ pc[r] = "write" => pos[r] <= Len(Reports[r])

\* ... and those rows carry its batch.
BatchSound ==
    \A r \in Requests, k \in Keys :
        draft[r][k] # None => draft[r][k].batch = r

\* The parts of ImportAtomic: rows seen have a job row that accounts for them, ...
Accounted ==
    \A r \in Requests :
        /\ Visible(r) # {} =>
              /\ jobs[r] # None
              /\ \/ jobs[r].state = "completed" /\ jobs[r].mutated
                 \/ jobs[r].state \in {"failed", "blocked_by_validation"}
        /\ (jobs[r] # None /\ jobs[r].mutated) =>
              \A i \in DOMAIN Reports[r] : record[Reports[r][i].key] # None

\* ... and are a beginning of the import.
Beginning ==
    \A r \in Requests : \A i, j \in DOMAIN Reports[r] :
        (i < j /\ Reports[r][j].key \in Visible(r)) =>
            record[Reports[r][i].key] # None

\* The inductive invariant.
IInv ==
    /\ TypeOK
    /\ LocksOwned
    /\ JobSound
    /\ PosSound
    /\ BatchSound
    /\ Accounted

-----------------------------------------------------------------------------
(* The merge.                                                              *)

\* The merge of a record with an incoming one is a record.
LEMMA MergedType ==
    ASSUME NEW e \in Record, NEW in \in Incoming, NEW b \in Batches
    PROVE  Merged(e, in, b) \in Record
  BY DEF Merged, Record, Incoming

\* What an import writes for an incoming record is a record of its own batch.
LEMMA PreparedType ==
    ASSUME NEW e \in Record \cup {None}, NEW in \in Incoming, NEW b \in Batches
    PROVE  /\ Prepared(e, in, b, FALSE) \in Record
           /\ Prepared(e, in, b, FALSE) # None
           /\ Prepared(e, in, b, FALSE).batch = b
  <1>1. CASE e = None
    <2>1. Inserted(in, b) \in Record /\ Inserted(in, b).batch = b
      BY DEF Inserted, Record, Incoming
    <2>2. QED
      BY <1>1, <2>1, NoneIsNoRecord DEF Prepared
  <1>2. CASE e # None
    <2>1. Merged(e, in, b) \in Record /\ Merged(e, in, b).batch = b
      BY <1>2, MergedType DEF Merged
    <2>2. QED
      BY <1>2, <2>1, NoneIsNoRecord DEF Prepared
  <1>3. QED
    BY <1>1, <1>2

\* The reports of a request are a sequence of incoming records.
LEMMA ReportsType ==
    ASSUME NEW r \in Requests
    PROVE  /\ r \in Batches
           /\ Len(Reports[r]) \in Nat
           /\ DOMAIN Reports[r] = 1..Len(Reports[r])
           /\ \A i \in 1..Len(Reports[r]) :
                 Reports[r][i] \in Incoming /\ Reports[r][i].key \in Keys
  <1>1. r \in Batches /\ Reports[r] \in Seq(Incoming)
    BY RequestsAssumption
  <1>2. Len(Reports[r]) \in Nat /\ DOMAIN Reports[r] = 1..Len(Reports[r])
    BY <1>1, LenProperties
  <1>3. \A i \in 1..Len(Reports[r]) : Reports[r][i] \in Incoming
    BY <1>1, ElementOfSeq
  <1>4. QED
    BY <1>1, <1>2, <1>3 DEF Incoming

-----------------------------------------------------------------------------

\* The rows of earlier imports have batches of their own.
LEMMA InitIInv == Init => IInv
  <1> SUFFICES ASSUME Init PROVE IInv
    OBVIOUS
  <1>1. /\ Stored \in [Keys -> Record \cup {None}]
        /\ \A k \in Keys, r \in Requests : Stored[k] # None => Stored[k].batch # r
    BY RequestsAssumption DEF Record
  <1>2. TypeOK
    BY <1>1 DEF Init, TypeOK, NoDraft
  <1>3. LocksOwned
    BY RequestsAssumption DEF Init, LocksOwned, NoDraft
  <1>4. JobSound /\ PosSound /\ BatchSound
    BY DEF Init, JobSound, PosSound, BatchSound, NoDraft, Importing
  <1>5. Accounted
    BY <1>1 DEF Init, Accounted, Visible
  <1>6. QED
    BY <1>2, <1>3, <1>4, <1>5 DEF IInv

-----------------------------------------------------------------------------
(* The ends of a transaction.                                              *)

\* A commit: a request that has not begun to import shows a job row alone, one that
\* has imported all its records shows them with a row that says so, and one that an
\* exception ended shows what it has written with a row that says it failed.
LEMMA CommitJobIInv ==
    ASSUME IInv, NEW r \in Requests, NEW mutated \in BOOLEAN,
           NEW state \in {"completed", "failed", "blocked_by_validation",
                          "rate_limited"},
           mutated => /\ state = "completed"
                      /\ pc[r] = "read"
                      /\ pos[r] > Len(Reports[r]),
           ~mutated => \/ pc[r] \in {"new", "running"}
                       \/ state \in {"failed", "blocked_by_validation"},
           pc[r] \in {"new", "running", "read", "write"},
           CommitJob(r, state, mutated)
    PROVE  IInv'
  <1>1. TypeOK'
    BY DEF IInv, TypeOK, CommitJob, JobRow, NoDraft, Released, Goto
  <1>2. LocksOwned'
    BY RequestsAssumption
       DEF IInv, TypeOK, LocksOwned, CommitJob, NoDraft, Released, Goto
  <1>3. JobSound'
    BY DEF IInv, TypeOK, JobSound, CommitJob, Goto
  <1>4. PosSound' /\ BatchSound'
    BY DEF IInv, TypeOK, PosSound, BatchSound, Importing, CommitJob, NoDraft, Goto
  <1>5. Accounted'
    <2>1. (\E k \in Keys : draft[r][k] # None) =>
             mutated \/ state \in {"failed", "blocked_by_validation"}
      BY DEF IInv, LocksOwned
    <2>2. ASSUME NEW q \in Requests, NEW k \in Keys,
                 record'[k] # None, record'[k].batch = q
          PROVE  /\ jobs'[q] # None
                 /\ \/ jobs'[q].state = "completed" /\ jobs'[q].mutated
                    \/ jobs'[q].state \in {"failed", "blocked_by_validation"}
      <3>1. CASE draft[r][k] = None
        <4>1. k \in Visible(q)
          BY <2>2, <3>1 DEF CommitJob, Visible
        <4>2. /\ jobs[q] # None
              /\ \/ jobs[q].state = "completed" /\ jobs[q].mutated
                 \/ jobs[q].state \in {"failed", "blocked_by_validation"}
          BY <4>1 DEF IInv, Accounted
        <4>3. q # r
          BY <4>2 DEF IInv, JobSound
        <4>4. QED
          BY <4>2, <4>3 DEF IInv, TypeOK, CommitJob
      <3>2. CASE draft[r][k] # None
        <4>1. q = r /\ (mutated \/ state \in {"failed", "blocked_by_validation"})
          BY <2>1, <2>2, <3>2 DEF IInv, BatchSound, CommitJob
        <4>2. jobs'[r] = [state |-> state, mutated |-> mutated]
          BY DEF IInv, TypeOK, CommitJob
        <4>3. jobs'[r] # None
          BY <1>1, <4>2, NoneIsNoJob DEF JobRow
        <4>4. QED
          BY <4>1, <4>2, <4>3
      <3>3. QED
        BY <3>1, <3>2
    <2>3. ASSUME NEW q \in Requests, jobs'[q] # None, jobs'[q].mutated,
                 NEW i \in DOMAIN Reports[q]
          PROVE  record'[Reports[q][i].key] # None
      <3>1. Reports[q][i].key \in Keys
        BY ReportsType
      <3>2. CASE q = r
        <4>1. mutated
          BY <2>3, <3>2 DEF IInv, TypeOK, CommitJob
        <4>2. i \in 1..Len(Reports[r]) /\ i < pos[r]
          BY <3>2, <4>1, ReportsType DEF IInv, TypeOK
        <4>3. draft[r][Reports[r][i].key] # None
          BY <4>1, <4>2 DEF IInv, PosSound, Importing
        <4>4. QED
          BY <3>1, <3>2, <4>3 DEF CommitJob
      <3>3. CASE q # r
        <4>1. record[Reports[q][i].key] # None
          BY <2>3, <3>3 DEF IInv, TypeOK, Accounted, CommitJob
        <4>2. QED
          BY <3>1, <4>1 DEF CommitJob
      <3>4. QED
        BY <3>2, <3>3
    <2>4. QED
      BY <2>2, <2>3 DEF Accounted, Visible
  <1>6. QED
    BY <1>1, <1>2, <1>3, <1>4, <1>5 DEF IInv

\* The end of open transactions takes their rows and their locks back.
LEMMA RollBackIInv ==
    ASSUME IInv, NEW R \in SUBSET Requests, NEW step \in {"aborted", "crashed"},
           \A r \in R : pc[r] # "done",
           RollBackJobs(R, step)
    PROVE  IInv'
  <1>1. TypeOK'
    BY DEF IInv, TypeOK, RollBackJobs, NoDraft, Released
  <1>2. LocksOwned'
    BY RequestsAssumption
       DEF IInv, TypeOK, LocksOwned, RollBackJobs, NoDraft, Released
  <1>3. JobSound'
    BY DEF IInv, JobSound, RollBackJobs
  <1>4. PosSound' /\ BatchSound'
    BY DEF IInv, PosSound, BatchSound, Importing, RollBackJobs, NoDraft
  <1>5. Accounted'
    BY DEF IInv, Accounted, Visible, RollBackJobs
  <1>6. QED
    BY <1>1, <1>2, <1>3, <1>4, <1>5 DEF IInv

-----------------------------------------------------------------------------
(* The steps of a request.                                                 *)

\* A step that only moves a request on, before its import.
LEMMA GotoIInv ==
    ASSUME IInv, NEW r \in Requests,
           NEW step \in {"refused", "running", "read"},
           pc[r] \in {"new", "running"},
           Goto(r, step),
           UNCHANGED <<jobs, record, draft, holder, pos, existing>>
    PROVE  IInv'
  <1>1. TypeOK'
    BY DEF IInv, TypeOK, Goto
  <1>2. LocksOwned'
    BY DEF IInv, TypeOK, LocksOwned, Goto
  <1>3. JobSound'
    BY DEF IInv, TypeOK, JobSound, Goto
  <1>4. PosSound' /\ BatchSound'
    BY DEF IInv, TypeOK, PosSound, BatchSound, Importing, Goto
  <1>5. Accounted'
    BY DEF IInv, Accounted, Visible
  <1>6. QED
    BY <1>1, <1>2, <1>3, <1>4, <1>5 DEF IInv

\* The SELECT returns a record or nothing.
LEMMA ReadRecordIInv ==
    ASSUME IInv, NEW r \in Requests, ReadRecord(r)
    PROVE  IInv'
  <1> DEFINE k == Reports[r][pos[r]].key
  <1>1. k \in Keys
    BY ReportsType DEF IInv, PosSound, Importing, ReadRecord
  <1>2. TypeOK'
    BY <1>1 DEF IInv, TypeOK, ReadRecord, Goto
  <1>3. LocksOwned'
    BY DEF IInv, TypeOK, LocksOwned, ReadRecord, Goto
  <1>4. JobSound'
    BY DEF IInv, TypeOK, JobSound, ReadRecord, Goto
  <1>5. PosSound' /\ BatchSound'
    BY DEF IInv, TypeOK, PosSound, BatchSound, Importing, ReadRecord, Goto
  <1>6. Accounted'
    BY DEF IInv, Accounted, Visible, ReadRecord
  <1>7. QED
    BY <1>2, <1>3, <1>4, <1>5, <1>6 DEF IInv

\* A write that does not wait locks a row that no other request has written.
LEMMA WriteRecordIInv ==
    ASSUME IInv, NEW r \in Requests, WriteRecord(r)
    PROVE  IInv'
  <1> DEFINE in == Reports[r][pos[r]]
             k == in.key
             new == Prepared(existing[r], in, r, FALSE)
  <1>1. in \in Incoming /\ k \in Keys
    BY ReportsType DEF IInv, PosSound, Importing, WriteRecord
  <1>2. new \in Record /\ new # None /\ new.batch = r
    BY <1>1, ReportsType, PreparedType DEF IInv, TypeOK
  <1>3. /\ pc[r] = "write"
        /\ holder[k] \in {None, r}
        /\ draft' = [draft EXCEPT ![r][k] = new]
        /\ holder' = [holder EXCEPT ![k] = r]
        /\ pos' = [pos EXCEPT ![r] = @ + 1]
        /\ Goto(r, "read")
        /\ UNCHANGED <<jobs, record, existing>>
    BY DEF WriteRecord
  <1> HIDE DEF new, k, in
  <1>4. TypeOK'
    BY <1>1, <1>2, <1>3 DEF IInv, TypeOK, Goto
  <1>5. LocksOwned'
    BY <1>1, <1>2, <1>3, RequestsAssumption DEF IInv, TypeOK, LocksOwned, Goto
  <1>6. JobSound'
    BY <1>3 DEF IInv, TypeOK, JobSound, Goto
  <1>7. PosSound'
    BY <1>1, <1>2, <1>3, ReportsType
       DEF IInv, TypeOK, PosSound, Importing, Goto, k, in
  <1>8. BatchSound'
    BY <1>1, <1>2, <1>3 DEF IInv, TypeOK, BatchSound
  <1>9. Accounted'
    BY <1>3 DEF IInv, Accounted, Visible
  <1>10. QED
    BY <1>4, <1>5, <1>6, <1>7, <1>8, <1>9 DEF IInv

-----------------------------------------------------------------------------

\* Every step preserves the invariant.
LEMMA NextIInv == IInv /\ [Next]_vars => IInv'
  <1> SUFFICES ASSUME IInv, [Next]_vars PROVE IInv'
    OBVIOUS
  <1>1. ASSUME NEW r \in Requests, Refuse(r) \/ Start(r)
        PROVE  IInv'
    BY <1>1, GotoIInv, CommitJobIInv DEF Refuse, Start
  <1>2. ASSUME NEW r \in Requests,
               FindNothing(r) \/ FindInvalid(r) \/ FetchFails(r) \/ FindRecords(r)
        PROVE  IInv'
    BY <1>2, GotoIInv, CommitJobIInv
       DEF FindNothing, FindInvalid, FetchFails, FindRecords, Executing
  <1>3. ASSUME NEW r \in Requests, DuplicateKey(r) \/ DeadlockVictim(r)
        PROVE  IInv'
    BY <1>3, RollBackIInv DEF DuplicateKey, DeadlockVictim, InCycle, Blocked
  <1>4. ASSUME NEW r \in Requests, Complete(r)
        PROVE  IInv'
    BY <1>4, CommitJobIInv DEF Complete
  <1>5. CASE ServerCrash
    BY <1>5, RollBackIInv DEF ServerCrash, Executing
  <1>6. CASE Next
    BY <1>1, <1>2, <1>3, <1>4, <1>5, <1>6, ReadRecordIInv, WriteRecordIInv
       DEF Next, Step, Fail
  <1>7. CASE UNCHANGED vars
    BY <1>7 DEF vars, IInv, TypeOK, LocksOwned, JobSound, PosSound, BatchSound,
                Accounted, Visible
  <1>8. QED
    BY <1>6, <1>7

\* The invariant holds in every reachable state.
THEOREM Invariance == Spec => []IInv
  BY InitIInv, NextIInv, PTL DEF Spec

\* Type correctness of the tables, the locks and the requests' state.
THEOREM TypeCorrect == Spec => []TypeOK
  <1>1. IInv => TypeOK
    BY DEF IInv
  <1>2. QED
    BY Invariance, <1>1, PTL

\* No request that has ended holds a row lock.
THEOREM LocksAreOwned == Spec => []LocksOwned
  <1>1. IInv => LocksOwned
    BY DEF IInv
  <1>2. QED
    BY Invariance, <1>1, PTL

-----------------------------------------------------------------------------
(* What JobsEnd rests on besides fairness: some job of every group that    *)
(* waits for itself can take a step, and every step brings its job nearer  *)
(* to its end.                                                             *)

\* The rows that an import has written are those of the records it is past.
DraftsSound ==
    \A r \in Requests :
        /\ \A k \in Keys : draft[r][k] # None =>
              \E i \in 1..Len(Reports[r]) : i < pos[r] /\ Reports[r][i].key = k
        /\ pc[r] \in Importing => pos[r] <= Len(Reports[r]) + 1

\* DraftsSound holds at first and is kept by every step.
LEMMA DraftsInit == Init => DraftsSound
  BY DEF Init, DraftsSound, NoDraft, Importing

\* The write of a record is the only step that adds a draft.
LEMMA WriteDrafts ==
    ASSUME IInv, DraftsSound, NEW r \in Requests, WriteRecord(r)
    PROVE  DraftsSound'
  <1> DEFINE k == Reports[r][pos[r]].key
             new == Prepared(existing[r], Reports[r][pos[r]], r, FALSE)
  <1>1. /\ pc[r] = "write"
        /\ draft' = [draft EXCEPT ![r][k] = new]
        /\ pos' = [pos EXCEPT ![r] = @ + 1]
        /\ pc' = [pc EXCEPT ![r] = "read"]
    BY DEF WriteRecord, Goto
  <1>2. pos[r] \in 1..Len(Reports[r]) /\ Len(Reports[r]) \in Nat
    BY <1>1, ReportsType DEF IInv, PosSound, Importing
  <1>3. k \in Keys
    BY <1>2, ReportsType
  <1> HIDE DEF new
  <1>4. ASSUME NEW q \in Requests, q # r
        PROVE  draft'[q] = draft[q] /\ pos'[q] = pos[q] /\ pc'[q] = pc[q]
    BY <1>1, <1>4 DEF IInv, TypeOK
  <1>5. /\ pos'[r] = pos[r] + 1
        /\ \A x \in Keys : x # k => draft'[r][x] = draft[r][x]
    BY <1>1 DEF IInv, TypeOK
  <1>6. ASSUME NEW x \in Keys, draft'[r][x] # None
        PROVE  \E i \in 1..Len(Reports[r]) : i < pos'[r] /\ Reports[r][i].key = x
    <2>1. CASE x = k
      BY <1>2, <1>5, <2>1
    <2>2. CASE x # k
      <3>1. PICK i \in 1..Len(Reports[r]) : i < pos[r] /\ Reports[r][i].key = x
        BY <1>5, <1>6, <2>2 DEF DraftsSound
      <3>2. i < pos'[r]
        BY <1>2, <1>5, <3>1
      <3>3. QED
        BY <3>1, <3>2
    <2>3. QED
      BY <2>1, <2>2
  <1>7. pos'[r] <= Len(Reports[r]) + 1
    BY <1>2, <1>5
  <1>8. ASSUME NEW q \in Requests
        PROVE  /\ \A x \in Keys : draft'[q][x] # None =>
                     \E i \in 1..Len(Reports[q]) :
                        i < pos'[q] /\ Reports[q][i].key = x
               /\ pc'[q] \in Importing => pos'[q] <= Len(Reports[q]) + 1
    BY <1>4, <1>6, <1>7 DEF DraftsSound
  <1>9. QED
    BY <1>8 DEF DraftsSound

\* The other steps add none.
LEMMA DraftsNext == IInv /\ DraftsSound /\ [Next]_vars => DraftsSound'
  <1> SUFFICES ASSUME IInv, DraftsSound, [Next]_vars PROVE DraftsSound'
    OBVIOUS
  <1>1. ASSUME NEW r \in Requests, NEW state, NEW m, CommitJob(r, state, m)
        PROVE  DraftsSound'
    BY <1>1 DEF IInv, TypeOK, DraftsSound, CommitJob, NoDraft, Goto, Importing
  <1>2. ASSUME NEW R \in SUBSET Requests, NEW step \in {"aborted", "crashed"},
               RollBackJobs(R, step)
        PROVE  DraftsSound'
    BY <1>2 DEF IInv, TypeOK, DraftsSound, RollBackJobs, NoDraft, Importing
  <1>3. ASSUME NEW r \in Requests, NEW step,
               pc[r] \in {"new", "running"} \/ pc[r] \in Importing,
               Goto(r, step), UNCHANGED <<draft, pos>>
        PROVE  DraftsSound'
    <2>1. pos[r] <= Len(Reports[r]) + 1
      BY <1>3, ReportsType DEF IInv, PosSound, DraftsSound
    <2>2. QED
      BY <1>3, <2>1 DEF IInv, TypeOK, DraftsSound, Goto
  <1>4. ASSUME NEW r \in Requests, Refuse(r) \/ Start(r)
        PROVE  DraftsSound'
    BY <1>1, <1>3, <1>4 DEF Refuse, Start
  <1>5. ASSUME NEW r \in Requests, FindNothing(r) \/ FindInvalid(r)
                                   \/ FetchFails(r) \/ Complete(r)
        PROVE  DraftsSound'
    BY <1>1, <1>5 DEF FindNothing, FindInvalid, FetchFails, Complete
  <1>6. ASSUME NEW r \in Requests, FindRecords(r) \/ ReadRecord(r)
        PROVE  DraftsSound'
    BY <1>3, <1>6 DEF FindRecords, ReadRecord, Importing
  <1>7. ASSUME NEW r \in Requests, DuplicateKey(r) \/ DeadlockVictim(r)
        PROVE  DraftsSound'
    BY <1>2, <1>7 DEF DuplicateKey, DeadlockVictim
  <1>8. CASE ServerCrash
    BY <1>2, <1>8 DEF ServerCrash
  <1>9. CASE UNCHANGED vars
    BY <1>9 DEF vars, DraftsSound
  <1>10. QED
    BY <1>4, <1>5, <1>6, <1>7, <1>8, <1>9, WriteDrafts DEF Next, Step, Fail

\* An import is past the records whose rows it has written.
THEOREM DraftsAreSound == Spec => [](IInv /\ DraftsSound)
  BY Invariance, DraftsInit, DraftsNext, PTL DEF Spec

\* A commit in the middle of an import shows the rows of the records it is past, and
\* with each of them those before it.
LEMMA CommitBeginning ==
    ASSUME IInv, DraftsSound, Beginning, NEW r \in Requests, NEW state, NEW m,
           pc[r] \in {"new", "running", "read", "write"},
           CommitJob(r, state, m)
    PROVE  Beginning'
  <1>1. SUFFICES ASSUME NEW q \in Requests,
                        NEW i \in DOMAIN Reports[q], NEW j \in DOMAIN Reports[q],
                        i < j, (Reports[q][j].key \in Visible(q))'
                 PROVE  record'[Reports[q][i].key] # None
    BY DEF Beginning
  <1> DEFINE k == Reports[q][j].key
             h == Reports[q][i].key
  <1>2. /\ k \in Keys /\ h \in Keys
        /\ i \in 1..Len(Reports[q]) /\ j \in 1..Len(Reports[q])
        /\ Len(Reports[q]) \in Nat
    BY ReportsType
  <1>3. /\ record'[k] # None /\ record'[k].batch = q
        /\ record' = [x \in Keys |->
                         IF draft[r][x] = None THEN record[x] ELSE draft[r][x]]
    BY <1>1 DEF Visible, CommitJob
  <1>4. CASE draft[r][k] = None
    <2>1. k \in Visible(q)
      BY <1>2, <1>3, <1>4 DEF Visible
    <2>2. record[h] # None
      BY <1>1, <2>1 DEF Beginning
    <2>3. QED
      BY <1>2, <1>3, <2>2
  <1>5. CASE draft[r][k] # None
    <2>1. q = r /\ pc[r] \in Importing
      BY <1>2, <1>3, <1>5 DEF IInv, BatchSound, LocksOwned, Importing
    <2>2. PICK n \in 1..Len(Reports[r]) : n < pos[r] /\ Reports[r][n].key = k
      BY <1>2, <1>5 DEF DraftsSound
    <2>3. n = j
      BY <1>2, <2>1, <2>2, ReportsType, RequestsAssumption
    <2>4. pos[r] \in Nat /\ i < pos[r]
      BY <1>1, <1>2, <2>1, <2>2, <2>3 DEF IInv, TypeOK
    <2>5. draft[r][h] # None
      BY <1>2, <2>1, <2>4 DEF IInv, PosSound
    <2>6. QED
      BY <1>2, <1>3, <2>5
  <1>6. QED
    BY <1>4, <1>5

\* No other step changes what is seen.
LEMMA NextBeginning == IInv /\ DraftsSound /\ Beginning /\ [Next]_vars => Beginning'
  <1> SUFFICES ASSUME IInv, DraftsSound, Beginning, [Next]_vars PROVE Beginning'
    OBVIOUS
  <1>1. CASE record' = record
    BY <1>1 DEF Beginning, Visible
  <1>2. ASSUME NEW r \in Requests, Start(r) \/ FindNothing(r) \/ Complete(r) \/ Fail(r)
        PROVE  Beginning'
    <2>1. \/ record' = record
          \/ /\ pc[r] \in {"new", "running", "read", "write"}
             /\ \E state \in {"completed", "failed", "blocked_by_validation",
                              "rate_limited"}, m \in BOOLEAN : CommitJob(r, state, m)
      BY <1>2 DEF Start, FindNothing, Complete, Fail, FindInvalid, FetchFails,
                  Executing
    <2>2. QED
      BY <1>1, <2>1, CommitBeginning
  <1>3. ASSUME NEW r \in Requests,
               \/ Refuse(r) \/ FindRecords(r) \/ ReadRecord(r) \/ WriteRecord(r)
               \/ DuplicateKey(r) \/ DeadlockVictim(r)
        PROVE  record' = record
    BY <1>3 DEF Refuse, FindRecords, ReadRecord, WriteRecord, DuplicateKey,
                DeadlockVictim, RollBackJobs
  <1>4. CASE ServerCrash
    BY <1>1, <1>4 DEF ServerCrash, RollBackJobs
  <1>5. CASE UNCHANGED vars
    BY <1>1, <1>5 DEF vars
  <1>6. QED
    BY <1>1, <1>2, <1>3, <1>4, <1>5 DEF Next, Step

\* Rows and the job row that accounts for them appear in one step, whichever of the
\* overlapping requests commit, fail before or in the middle of the import, lose a
\* deadlock or stop; what a failed import leaves is a beginning of its records.
THEOREM ImportIsAtomic == Spec => []ImportAtomic
  <1>1. Init => Beginning
    BY RequestsAssumption DEF Init, Beginning, Visible
  <1>2. IInv /\ Beginning => ImportAtomic
    BY DEF IInv, Accounted, Beginning, ImportAtomic
  <1>3. QED
    BY DraftsAreSound, NextBeginning, <1>1, <1>2, PTL DEF Spec

-----------------------------------------------------------------------------
(* Waiting.                                                                *)

\* Jobs that have begun and not ended.
OpenJobs == {r \in Requests : pc[r] \in {"running", "read", "write"}}

\* The guards of the actions of Step(r); what else they say is assignments.
Ready(r) ==
    \/ pc[r] \in {"running", "read"}
    \/ LET k == Reports[r][pos[r]].key
       IN /\ pc[r] = "write"
          /\ \/ /\ holder[k] \in {None, r}
                /\ existing[r] = None => record[k] = None /\ draft[r][k] = None
             \/ existing[r] = None /\ record[k] # None /\ holder[k] = None
    \/ InCycle(r)

\* Open jobs that wait for nobody else: what W waits for is in W.
WaitsWithin(W) == \A r \in W : \A q \in Requests : Blocked(r, q) => q \in W

\* Every job that waits waits, directly or through others, for a job that can go
\* on: for a row that will be released, or for the victim of a deadlock.
WaitsResolved ==
    \A W \in SUBSET OpenJobs :
        W # {} /\ IsFiniteSet(W) /\ WaitsWithin(W) => \E r \in W : Ready(r)

\* A job that is not ready waits for one job, which is open.
LEMMA NotReadyWaits ==
    ASSUME IInv, DraftsSound, NEW r \in OpenJobs, ~Ready(r)
    PROVE  \E q \in OpenJobs : /\ Blocked(r, q)
                               /\ \A p \in Requests : Blocked(r, p) => p = q
  <1> DEFINE k == Reports[r][pos[r]].key
  <1>1. r \in Requests /\ pc[r] = "write"
    BY DEF OpenJobs, Ready
  <1>2. pos[r] \in 1..Len(Reports[r])
    BY <1>1, ReportsType DEF IInv, PosSound, Importing
  <1>3. k \in Keys
    BY <1>1, <1>2, ReportsType
  <1>4. draft[r][k] = None
    <2>1. SUFFICES ASSUME NEW i \in 1..Len(Reports[r]), i < pos[r],
                          Reports[r][i].key = k
                   PROVE  FALSE
      BY <1>1, <1>3 DEF DraftsSound
    <2>2. i \in DOMAIN Reports[r] /\ pos[r] \in DOMAIN Reports[r]
      BY <1>1, <1>2, ReportsType
    <2>3. i = pos[r]
      BY <1>1, <2>1, <2>2, RequestsAssumption
    <2>4. QED
      BY <1>2, <2>1, <2>3
  <1>5. holder[k] # r
    BY <1>1, <1>3, <1>4 DEF IInv, LocksOwned
  <1>6. holder[k] # None
    BY <1>1, <1>4 DEF Ready
  <1>7. holder[k] \in Requests
    BY <1>3, <1>6 DEF IInv, TypeOK
  <1>8. holder[k] \in OpenJobs
    BY <1>3, <1>7 DEF IInv, LocksOwned, OpenJobs
  <1>9. Blocked(r, holder[k]) /\ \A p \in Requests : Blocked(r, p) => p = holder[k]
    BY <1>1, <1>5 DEF Blocked
  <1>10. QED
    BY <1>8, <1>9

\* If no job of W were ready, the least part of W that waits within itself would be
\* a set of cycles, whose jobs are victims.
LEMMA WaitsAreResolved == IInv /\ DraftsSound => WaitsResolved
  <1> SUFFICES ASSUME IInv, DraftsSound, NEW W \in SUBSET OpenJobs,
                      W # {}, IsFiniteSet(W), WaitsWithin(W),
                      \A r \in W : ~Ready(r)
               PROVE  FALSE
    BY DEF WaitsResolved
  <1> DEFINE within == {T \in SUBSET W : T # {} /\ WaitsWithin(T)}
             order == StrictSubsetOrdering(W)
  <1>1. within \subseteq FiniteSubsetsOf(W) /\ within # {}
    <2>1. W \in within
      OBVIOUS
    <2>2. \A T \in SUBSET W : IsFiniteSet(T)
      BY FS_Subset
    <2>3. QED
      BY <2>1, <2>2 DEF FiniteSubsetsOf
  <1>2. IsWellFoundedOn(order, FiniteSubsetsOf(W))
    BY FS_StrictSubsetOrderingWellFounded
  <1>3. PICK T \in within : \A U \in within : <<U, T>> \notin order
    <2> HIDE DEF within, order
    <2>1. QED
      BY <1>1, <1>2, WFMin
  <1>4. T \subseteq W /\ T # {} /\ WaitsWithin(T)
    BY <1>3
  <1> DEFINE U == {q \in T : \E r \in T : Blocked(r, q)}
  <1>5. \A r \in T : \E q \in U : Blocked(r, q)
    <2>1. SUFFICES ASSUME NEW r \in T
                   PROVE  \E q \in U : Blocked(r, q)
      OBVIOUS
    <2>2. r \in OpenJobs /\ ~Ready(r)
      BY <1>4
    <2>3. PICK q \in OpenJobs : Blocked(r, q)
      BY <2>2, NotReadyWaits
    <2>4. q \in T
      BY <1>4, <2>3 DEF WaitsWithin, OpenJobs
    <2>5. QED
      BY <2>3, <2>4
  <1>6. U \in within
    <2>1. U # {}
      BY <1>4, <1>5
    <2>2. ASSUME NEW r \in U, NEW q \in Requests, Blocked(r, q)
          PROVE  q \in U
      <3>1. q \in T
        BY <1>4, <2>2 DEF WaitsWithin
      <3>2. QED
        BY <2>2, <3>1
    <2>3. QED
      BY <1>4, <2>1, <2>2 DEF WaitsWithin
  <1>7. U = T
    <2>1. SUFFICES ASSUME U # T PROVE FALSE
      OBVIOUS
    <2>2. U \in SUBSET W /\ T \in SUBSET W /\ U \subseteq T
      BY <1>4
    <2>3. <<U, T>> \in order
      BY <2>1, <2>2 DEF StrictSubsetOrdering
    <2>4. QED
      BY <1>3, <1>6, <2>3
  <1>8. PICK r \in T : TRUE
    BY <1>4
  <1>9. T \in SUBSET Requests
    BY <1>4 DEF OpenJobs
  <1>10. \A q \in T : (\E p \in T : Blocked(q, p)) /\ (\E p \in T : Blocked(p, q))
    <2>1. SUFFICES ASSUME NEW q \in T
                   PROVE  (\E p \in T : Blocked(q, p)) /\ (\E p \in T : Blocked(p, q))
      OBVIOUS
    <2>2. \E p \in T : Blocked(q, p)
      BY <1>5
    <2>3. q \in U
      BY <1>7
    <2>4. QED
      BY <2>2, <2>3
  <1>11. InCycle(r)
    BY <1>8, <1>9, <1>10 DEF InCycle
  <1>12. QED
    BY <1>4, <1>8, <1>11 DEF Ready

\* Of any finite group of open jobs that waits for nobody outside it, one can go on:
\* the insert or update that waits for another job's row waits for a job that will
\* commit, fail or be ended by the database.
THEOREM WaitsAlwaysResolved == Spec => []WaitsResolved
  BY DraftsAreSound, WaitsAreResolved, PTL

-----------------------------------------------------------------------------
(* Progress.                                                               *)

\* Steps that a request has at most to take: two for each record.
Left(r) ==
    LET records == Len(Reports[r])
    IN CASE pc[r] = "new" -> 2 * records + 3
         [] pc[r] = "running" -> 2 * records + 2
         [] pc[r] = "read" -> 2 * (records + 1 - pos[r]) + 1
         [] pc[r] = "write" -> 2 * (records + 1 - pos[r])
         [] OTHER -> 0

\* A job has ended when nothing is left; a step of it brings it nearer to its end, and
\* no other step takes it back.
Approach ==
    \A r \in Requests :
        /\ Left(r) \in Nat
        /\ Left(r) = 0 <=> pc[r] \in {"done", "refused", "aborted", "crashed"}
        /\ Left(r)' <= Left(r)
        /\ Step(r) \/ Fail(r) => Left(r)' < Left(r)

\* What is left is a number.
LEMMA LeftType ==
    ASSUME IInv, DraftsSound, NEW r \in Requests
    PROVE  Left(r) \in Nat
  <1>1. Len(Reports[r]) \in Nat
    BY ReportsType
  <1>2. pos[r] \in Nat /\ (pc[r] \in Importing => pos[r] <= Len(Reports[r]) + 1)
    BY DEF IInv, TypeOK, DraftsSound
  <1>3. QED
    BY <1>1, <1>2 DEF Left, Importing

\* It is nothing exactly when the request has ended.
LEMMA LeftNothing ==
    ASSUME IInv, DraftsSound, NEW r \in Requests
    PROVE  Left(r) = 0 <=> pc[r] \in {"done", "refused", "aborted", "crashed"}
  <1>1. Len(Reports[r]) \in Nat
    BY ReportsType
  <1>2. /\ pos[r] \in Nat
        /\ pc[r] \in Importing => pos[r] <= Len(Reports[r]) + 1
        /\ pc[r] = "write" => pos[r] <= Len(Reports[r])
    BY DEF IInv, TypeOK, DraftsSound, PosSound
  <1>3. pc[r] \in {"new", "running", "read", "write", "done",
                   "refused", "aborted", "crashed"}
    BY DEF IInv, TypeOK
  <1>4. QED
    BY <1>1, <1>2, <1>3 DEF Left, Importing

\* A step of the job itself.
LEMMA StepApproaches ==
    ASSUME IInv, DraftsSound, NEW r \in Requests, Step(r) \/ Fail(r)
    PROVE  Left(r)' < Left(r) /\ Left(r)' <= Left(r)
  <1>1. Len(Reports[r]) \in Nat
    BY ReportsType
  <1>2. /\ pos[r] \in Nat
        /\ pc[r] \in Importing => pos[r] <= Len(Reports[r]) + 1
        /\ pc[r] = "write" => pos[r] <= Len(Reports[r])
        /\ pc[r] = "running" => pos[r] = 1
    BY DEF IInv, TypeOK, DraftsSound, PosSound
  <1>3. DOMAIN pc = Requests /\ DOMAIN pos = Requests
    BY DEF IInv, TypeOK
  <1>4. CASE /\ pc[r] \in {"running", "read", "write"}
             /\ pc'[r] = "done"
    BY <1>1, <1>2, <1>4 DEF Left, Importing
  <1>5. CASE /\ pc[r] = "write"
             /\ pc'[r] = "aborted"
    BY <1>1, <1>2, <1>5 DEF Left, Importing
  <1>6. CASE FindRecords(r)
    <2>1. pc[r] = "running" /\ pc'[r] = "read" /\ pos'[r] = pos[r]
      BY <1>3, <1>6 DEF FindRecords, Goto
    <2>2. QED
      BY <1>1, <1>2, <2>1 DEF Left
  <1>7. CASE ReadRecord(r)
    <2>1. pc[r] = "read" /\ pc'[r] = "write" /\ pos'[r] = pos[r]
      BY <1>3, <1>7 DEF ReadRecord, Goto
    <2>2. QED
      BY <1>1, <1>2, <2>1 DEF Left
  <1>8. CASE WriteRecord(r)
    <2>1. pc[r] = "write" /\ pc'[r] = "read" /\ pos'[r] = pos[r] + 1
      BY <1>3, <1>8 DEF WriteRecord, Goto
    <2>2. QED
      BY <1>1, <1>2, <2>1 DEF Left
  <1>9. CASE FindNothing(r) \/ FindInvalid(r) \/ FetchFails(r) \/ Complete(r)
    BY <1>3, <1>4, <1>9
       DEF FindNothing, FindInvalid, FetchFails, Executing, Complete, CommitJob, Goto
  <1>10. CASE DuplicateKey(r) \/ DeadlockVictim(r)
    BY <1>5, <1>10 DEF DuplicateKey, DeadlockVictim, InCycle, Blocked, RollBackJobs
  <1>11. QED
    BY <1>6, <1>7, <1>8, <1>9, <1>10 DEF Step, Fail

\* Every step, of whatever job.
LEMMA NextApproaches ==
    ASSUME IInv, DraftsSound, Next, NEW r \in Requests
    PROVE  Left(r)' <= Left(r)
  <1>1. Left(r) \in Nat
    BY LeftType
  <1>2. DOMAIN pc = Requests /\ DOMAIN pos = Requests
    BY DEF IInv, TypeOK
  <1>3. Len(Reports[r]) \in Nat
    BY ReportsType
  <1>4. CASE pc'[r] = pc[r] /\ pos'[r] = pos[r]
    <2>1. Left(r)' = Left(r)
      BY <1>4 DEF Left
    <2>2. QED
      BY <1>1, <2>1
  <1>5. CASE pc'[r] \in {"done", "refused", "aborted", "crashed"}
    <2>1. Left(r)' = 0
      BY <1>5 DEF Left
    <2>2. QED
      BY <1>1, <2>1
  <1>6. CASE Step(r) \/ Fail(r)
    BY <1>6, StepApproaches
  <1>7. CASE Refuse(r) \/ Start(r)
    <2>1. CASE pc[r] = "new" /\ pc'[r] = "running"
      BY <1>3, <2>1 DEF Left
    <2>2. QED
      BY <1>2, <1>5, <1>7, <2>1 DEF Refuse, Start, CommitJob, Goto
  <1>8. ASSUME NEW q \in Requests, q # r, Refuse(q) \/ Start(q) \/ Step(q) \/ Fail(q)
        PROVE  pc'[r] = pc[r] /\ pos'[r] = pos[r]
    BY <1>2, <1>8
       DEF Refuse, Start, Step, Fail, FindNothing, FindInvalid, FetchFails, FindRecords,
           ReadRecord, WriteRecord, DuplicateKey, DeadlockVictim, Complete,
           CommitJob, RollBackJobs, Goto
  <1>9. CASE ServerCrash
    <2>1. pos' = pos /\ pc'[r] \in {pc[r], "crashed"}
      BY <1>2, <1>9 DEF ServerCrash, RollBackJobs
    <2>2. QED
      BY <1>4, <1>5, <2>1
  <1>10. QED
    BY <1>4, <1>6, <1>7, <1>8, <1>9 DEF Next

\* A job ends after at most 2 * Len(Reports[r]) + 2 steps of its thread, however the
\* steps of other jobs come between them.
THEOREM JobsApproachTheirEnd == Spec => [][Approach]_vars
  <1>1. ASSUME IInv, DraftsSound, [Next]_vars
        PROVE  [Approach]_vars
    <2>1. CASE Next
      BY <2>1, <1>1, LeftType, LeftNothing, StepApproaches, NextApproaches DEF Approach
    <2>2. CASE UNCHANGED vars
      BY <2>2
    <2>3. QED
      BY <1>1, <2>1, <2>2
  <1>2. QED
    BY DraftsAreSound, <1>1, PTL DEF Spec
=============================================================================
