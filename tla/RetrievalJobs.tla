---------------------------- MODULE RetrievalJobs ----------------------------
(***************************************************************************)
(* Browser-triggered retrieval jobs (hosted_app/ccld_retrieval_jobs.py)    *)
(* run by the threads of ThreadingHTTPServer, each on a PostgreSQL         *)
(* connection of its own at READ COMMITTED. run_ccld_retrieval_job commits *)
(* once, at its end: the rows of a job in progress are seen by that job    *)
(* alone, and hold off other writers of the same rows until the commit.    *)
(***************************************************************************)
EXTENDS SourceRecords, FiniteSets

CONSTANTS
    Requests,   \* requests of the browser, one job each
    Actors,     \* provider subjects
    ActorOf,    \* who sent a request
    Reports,    \* the flattened records, in order and one for each key, that
                \* the source has for it
    Stored,     \* rows that earlier imports left
    RateLimit   \* rate_limit_per_actor

ASSUME RequestsAssumption ==
    /\ Requests \subseteq Batches
    /\ ActorOf \in [Requests -> Actors]
    /\ Reports \in [Requests -> Seq(Incoming)]
    /\ \A r \in Requests : \A i, j \in DOMAIN Reports[r] :
          Reports[r][i].key = Reports[r][j].key => i = j
    /\ Stored \in [Keys -> [value : Values \cup {Blank},
                           batch : Batches \ Requests,
                           conflicts : SUBSET (Values \X Values)] \cup {None}]
    /\ RateLimit \in Nat \ {0}
    /\ None \notin Requests

VARIABLES
    jobs,       \* committed rows of hosted_ccld_retrieval_jobs
    record,     \* committed rows of hosted_source_derived_records
    draft,      \* rows each job has written and not committed
    holder,     \* which job's uncommitted write locks a row
    pc,         \* where each job is
    pos,        \* index of the record the import is at
    existing    \* what the last SELECT of the import returned

vars == <<jobs, record, draft, holder, pc, pos, existing>>

\* "completed" stands for completed_with_warnings too.
JobRow == [state : {"completed", "failed", "blocked_by_validation",
                    "rate_limited", "queued", "running"},
           mutated : BOOLEAN]

ASSUME NoneIsNoJob == None \notin JobRow

ActiveStates == {"queued", "running"}

TypeOK ==
    /\ jobs \in [Requests -> JobRow \cup {None}]
    /\ record \in [Keys -> Record \cup {None}]
    /\ draft \in [Requests -> [Keys -> Record \cup {None}]]
    /\ holder \in [Keys -> Requests \cup {None}]
    /\ pc \in [Requests -> {"new", "running", "read", "write", "done",
                            "refused", "aborted", "crashed"}]
    /\ pos \in [Requests -> Nat]
    /\ existing \in [Requests -> Record \cup {None}]

NoDraft == [k \in Keys |-> None]

Init ==
    /\ jobs = [r \in Requests |-> None]
    /\ record = Stored
    /\ draft = [r \in Requests |-> NoDraft]
    /\ holder = [k \in Keys |-> None]
    /\ pc = [r \in Requests |-> "new"]
    /\ pos = [r \in Requests |-> 1]
    /\ existing = [r \in Requests |-> None]

-----------------------------------------------------------------------------

Goto(r, step) == pc' = [pc EXCEPT ![r] = step]

Released(R) == [k \in Keys |-> IF holder[k] \in R THEN None ELSE holder[k]]

\* Fault: the commit leaves the row locks in place.
CommitJobKeepsLocks(r, state, mutated) ==
    /\ jobs' = [jobs EXCEPT ![r] = [state |-> state, mutated |-> mutated]]
    /\ record' = [k \in Keys |->
                    IF draft[r][k] = None THEN record[k] ELSE draft[r][k]]
    /\ draft' = [draft EXCEPT ![r] = NoDraft]
    /\ Goto(r, "done")
    /\ UNCHANGED <<holder, pos, existing>>

\* The one commit of a job: its row, and whatever it imported.
CommitJob(r, state, mutated) ==
    /\ jobs' = [jobs EXCEPT ![r] = [state |-> state, mutated |-> mutated]]
    /\ record' = [k \in Keys |->
                    IF draft[r][k] = None THEN record[k] ELSE draft[r][k]]
    /\ draft' = [draft EXCEPT ![r] = NoDraft]
    /\ holder' = Released({r})
    /\ Goto(r, "done")
    /\ UNCHANGED <<pos, existing>>

\* Fault: an aborted transaction leaves its row locks in place.
RollBackKeepsLocks(R, step) ==
    /\ draft' = [r \in Requests |-> IF r \in R THEN NoDraft ELSE draft[r]]
    /\ pc' = [r \in Requests |-> IF r \in R THEN step ELSE pc[r]]
    /\ UNCHANGED <<jobs, record, holder, pos, existing>>

\* The transactions of R end without a commit.
RollBackJobs(R, step) ==
    /\ draft' = [r \in Requests |-> IF r \in R THEN NoDraft ELSE draft[r]]
    /\ holder' = Released(R)
    /\ pc' = [r \in Requests |-> IF r \in R THEN step ELSE pc[r]]
    /\ UNCHANGED <<jobs, record, pos, existing>>

\* Not configured, not signed in, or not permitted: a result in memory only.
Refuse(r) ==
    /\ pc[r] = "new"
    /\ Goto(r, "refused")
    /\ UNCHANGED <<jobs, record, draft, holder, pos, existing>>

\* _active_actor_job_count: what this connection sees of the actor's jobs.
ActiveJobs(r) ==
    {q \in Requests : /\ ActorOf[q] = ActorOf[r]
                      /\ jobs[q] # None
                      /\ jobs[q].state \in ActiveStates}

\* The job row is inserted as queued and updated to running, or is committed as
\* rate-limited.
Start(r) ==
    /\ pc[r] = "new"
    /\ IF Cardinality(ActiveJobs(r)) >= RateLimit
       THEN CommitJob(r, "rate_limited", FALSE)
       ELSE /\ Goto(r, "running")
            /\ UNCHANGED <<jobs, record, draft, holder, pos, existing>>

\* _execute_job finds nothing that matches.
FindNothing(r) == pc[r] = "running" /\ CommitJob(r, "completed", FALSE)

\* Its exceptions are handled without a rollback, those that the client side raises
\* in the middle of an import as well: the commit of the job row that says nothing
\* was changed takes the rows written so far along.
Executing(r) == pc[r] \in {"running", "read", "write"}

\* A ValueError, ...
FindInvalid(r) == Executing(r) /\ CommitJob(r, "blocked_by_validation", FALSE)

\* Fault: a state outside the job's vocabulary.
FetchFailsUnknownState(r) == Executing(r) /\ CommitJob(r, "error", FALSE)

\* ... or any other exception. One that the database raises is not handled like this:
\* see DuplicateKey.
FetchFails(r) == Executing(r) /\ CommitJob(r, "failed", FALSE)

FindRecords(r) ==
    /\ pc[r] = "running"
    /\ Reports[r] # <<>>
    /\ Goto(r, "read")
    /\ UNCHANGED <<jobs, record, draft, holder, pos, existing>>

\* _upsert_source_record selects the row of the record, ...
ReadRecord(r) ==
    /\ pc[r] = "read"
    /\ pos[r] <= Len(Reports[r])
    /\ LET k == Reports[r][pos[r]].key
       IN existing' = [existing EXCEPT ![r] =
                          IF draft[r][k] = None THEN record[k] ELSE draft[r][k]]
    /\ Goto(r, "write")
    /\ UNCHANGED <<jobs, record, draft, holder, pos>>

\* ... and inserts or updates it, which waits for another job's uncommitted
\* write of that row. A new batch makes every update a change.
Blocked(r, q) ==
    /\ pc[r] = "write"
    /\ q # r
    /\ q = holder[Reports[r][pos[r]].key]

\* Fault: each row is committed as it is written.
WriteRecordCommits(r) ==
    LET in == Reports[r][pos[r]]
        k == in.key
    IN /\ pc[r] = "write"
       /\ holder[k] \in {None, r}
       /\ existing[r] = None => record[k] = None
       /\ record' = [record EXCEPT ![k] = Prepared(existing[r], in, r, FALSE)]
       /\ pos' = [pos EXCEPT ![r] = @ + 1]
       /\ Goto(r, "read")
       /\ UNCHANGED <<jobs, draft, holder, existing>>

WriteRecord(r) ==
    LET in == Reports[r][pos[r]]
        k == in.key
    IN /\ pc[r] = "write"
       /\ holder[k] \in {None, r}
       /\ existing[r] = None => record[k] = None /\ draft[r][k] = None
       /\ draft' = [draft EXCEPT ![r][k] =
                       Prepared(existing[r], in, r, FALSE)]
       /\ holder' = [holder EXCEPT ![k] = r]
       /\ pos' = [pos EXCEPT ![r] = @ + 1]
       /\ Goto(r, "read")
       /\ UNCHANGED <<jobs, record, existing>>

\* The insert of a row that another job committed meanwhile violates the
\* primary key. The failed transaction also refuses the update to "failed" in
\* the exception handler, so the request ends in an error and all is undone.
DuplicateKey(r) ==
    /\ pc[r] = "write"
    /\ LET k == Reports[r][pos[r]].key
       IN existing[r] = None /\ record[k] # None /\ holder[k] = None
    /\ RollBackJobs({r}, "aborted")

\* PostgreSQL ends one of the transactions of a cycle of waiting ones.
InCycle(r) ==
    \E S \in SUBSET Requests :
        /\ r \in S
        /\ \A q \in S : /\ \E p \in S : Blocked(q, p)
                        /\ \E p \in S : Blocked(p, q)

DeadlockVictim(r) == InCycle(r) /\ RollBackJobs({r}, "aborted")

Complete(r) ==
    /\ pc[r] = "read"
    /\ pos[r] > Len(Reports[r])
    /\ CommitJob(r, "completed", TRUE)

\* The server process stops; its connections close and all open jobs with it.
ServerCrash ==
    LET open == {r \in Requests : Executing(r)}
    IN open # {} /\ RollBackJobs(open, "crashed")

Fail(r) == FindInvalid(r) \/ FetchFails(r)

Step(r) ==
    \/ FindNothing(r) \/ FindRecords(r)
    \/ ReadRecord(r) \/ WriteRecord(r) \/ DuplicateKey(r) \/ DeadlockVictim(r)
    \/ Complete(r)

Next ==
    \/ \E r \in Requests : Refuse(r) \/ Start(r) \/ Step(r) \/ Fail(r)
    \/ ServerCrash

Spec == Init /\ [][Next]_vars

\* The thread of a started job runs on, and PostgreSQL ends its deadlocks. No
\* exception is taken for granted: a job that waits for a row may wait on.
FairSpec == Spec /\ \A r \in Requests : WF_vars(Step(r))

-----------------------------------------------------------------------------
(* Properties.                                                             *)

Visible(r) == {k \in Keys : record[k] # None /\ record[k].batch = r}

\* Imported rows and the job row that accounts for them appear together. A batch seen
\* in the records belongs to a job that completed and says it changed data, or to one
\* that an exception ended: that one may say it changed nothing and have left rows.
\* A job that says it changed data has left a row for each of its records, and one
\* that failed has left no row without those of the records before it.
ImportAtomic ==
    \A r \in Requests :
        /\ Visible(r) # {} =>
              /\ jobs[r] # None
              /\ \/ jobs[r].state = "completed" /\ jobs[r].mutated
                 \/ jobs[r].state \in {"failed", "blocked_by_validation"}
        /\ (jobs[r] # None /\ jobs[r].mutated) =>
              \A i \in DOMAIN Reports[r] : record[Reports[r][i].key] # None
        /\ \A i, j \in DOMAIN Reports[r] :
              (i < j /\ Reports[r][j].key \in Visible(r)) =>
                  record[Reports[r][i].key] # None

\* An uncommitted row is locked by the one job that wrote it, and only a job
\* that is importing holds locks: no ended request blocks later ones.
LocksOwned ==
    \A k \in Keys, r \in Requests :
        /\ draft[r][k] # None <=> holder[k] = r
        /\ holder[k] = r => pc[r] \in {"read", "write"}

\* Every started job ends, also when jobs wait for each other's rows.
JobsEnd ==
    \A r \in Requests :
        pc[r] = "running" ~> pc[r] \in {"done", "aborted", "crashed"}

\* "Incoming missing or blank values never erase populated canonical values."
PopulatedValueKept ==
    [][\A k \in Keys :
          (record[k] # None /\ record[k].value # Blank) =>
              /\ record'[k] # None
              /\ record'[k].value # Blank]_vars
=============================================================================
