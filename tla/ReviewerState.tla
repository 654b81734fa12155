---------------------------- MODULE ReviewerState ----------------------------
(***************************************************************************)
(* Reviewers save statuses and notes of one complaint record through the   *)
(* forms of reviewer_ui.py, each in a thread of the server. A saved item   *)
(* is a row of hosted_reviewer_created_state and an audit event, written   *)
(* inside a savepoint; the combined form puts a savepoint around both of   *)
(* its items. In postgres mode a request has a connection of its own,      *)
(* which is closed when the response is made; in the fixture demo all      *)
(* requests use the one connection of an in-memory database.               *)
(***************************************************************************)
EXTENDS Naturals, Sequences, FiniteSets

CONSTANTS
    None,
    Requests,
    Statuses,           \* REVIEWER_STATUS_VALUES
    PageSize,           \* rows a detail page reads, 100 in the code
    MaxRows             \* bound: rows ever created

ASSUME NoneAssumption == None \notin Statuses
ASSUME BoundsAssumption == PageSize \in Nat /\ MaxRows \in Nat

Shared == "shared"
ASSUME SharedAssumption == Shared \notin Requests

VARIABLES
    mode,               \* page data mode of the server
    db,                 \* committed rows, oldest first; no request commits any
    work,               \* each connection: rows of its open transaction
    savepoints,         \* each connection: how many rows each one keeps
    pc, form, todo,     \* each request: where it is, its input, what to create
    answer,             \* each request: what the reviewer is told
    created             \* number of rows created, which gives identities

vars == <<mode, db, work, savepoints, pc, form, todo, answer, created>>

Connections == Requests \cup {Shared}
Connection(r) == IF mode = "fixture_demo" THEN Shared ELSE r

\* A form as submitted. "blocked" note text is too long or looks like a secret.
Forms ==
    {f \in [path : {"update", "status", "note"}, status : Statuses \cup {None},
            note : {"none", "plain", "blocked"}] :
        /\ f.path = "status" => f.status # None /\ f.note = "none"
        /\ f.path = "note" => f.status = None /\ f.note # "none"}

NoForm == [path |-> "update", status |-> None, note |-> "none"]
Kinds == {"status", "note"}
Rows == [table : {"state", "audit"}, id : 1..MaxRows, request : Requests,
         kind : Kinds, status : Statuses \cup {None}]

TypeOK ==
    /\ mode \in {"postgres", "fixture_demo"}
    /\ db \in Seq(Rows)
    /\ work \in [Connections -> Seq(Rows)]
    /\ savepoints \in [Connections -> Seq(Nat)]
    /\ pc \in [Requests -> {"idle", "create", "audit", "finish", "failed", "answered", "closed"}]
    /\ form \in [Requests -> Forms]
    /\ todo \in [Requests -> Seq(Kinds)]
    /\ answer \in [Requests -> {"none", "saved", "not_saved", "nothing"}]
    /\ created \in 0..MaxRows

Init ==
    /\ mode \in {"postgres", "fixture_demo"}
    /\ db = <<>>
    /\ work = [c \in Connections |-> <<>>]
    /\ savepoints = [c \in Connections |-> <<>>]
    /\ pc = [r \in Requests |-> "idle"]
    /\ form = [r \in Requests |-> NoForm]
    /\ todo = [r \in Requests |-> <<>>]
    /\ answer = [r \in Requests |-> "none"]
    /\ created = 0

-----------------------------------------------------------------------------
(* What a connection sees and what a page shows of it.                     *)

View(c) == db \o work[c]

\* Rows are told apart by their places, which are in the order of creation.
Newest(places) == CHOOSE i \in places : \A j \in places : j <= i

StateRows(rows) == {i \in DOMAIN rows : rows[i].table = "state"}

\* The detail page lists rows by creation time, and no more than a page of them.
Listed(rows) ==
    {i \in StateRows(rows) :
        Cardinality({j \in StateRows(rows) : j <= i}) <= PageSize}

StatusRows(rows) == {i \in Listed(rows) : rows[i].kind = "status"}

\* Fault: the first status of the list, as if it were newest first.
LatestStatusFirst(rows) ==
    IF StatusRows(rows) = {} THEN None
    ELSE rows[CHOOSE i \in StatusRows(rows) :
                 \A j \in StatusRows(rows) : i <= j].status

\* latest_status of the summary: that of the last status row listed.
LatestStatus(rows) ==
    IF StatusRows(rows) = {} THEN None ELSE rows[Newest(StatusRows(rows))].status

-----------------------------------------------------------------------------
(* Savepoints of a connection.                                             *)

Push(r, rows) ==
    savepoints' = [savepoints EXCEPT ![Connection(r)] = Append(@, Len(rows))]

Pop(r) ==
    savepoints' = [savepoints EXCEPT ![Connection(r)] = SubSeq(@, 1, Len(@) - 1)]

RollBackTo(r) ==
    LET c == Connection(r)
        mark == savepoints[c][Len(savepoints[c])]
    IN /\ work' = [work EXCEPT ![c] = SubSeq(@, 1, mark)]
       /\ Pop(r)

-----------------------------------------------------------------------------

Answer(r, a) ==
    /\ pc' = [pc EXCEPT ![r] = "answered"]
    /\ answer' = [answer EXCEPT ![r] = a]

\* What the submitted form asks to create. The combined form leaves out a status
\* that the detail page already shows.
Requested(r, f) ==
    LET current == LatestStatus(View(Connection(r)))
        status == f.status # None /\ (f.path = "update" => f.status # current)
    IN (IF status THEN <<"status">> ELSE <<>>)
       \o (IF f.note # "none" THEN <<"note">> ELSE <<>>)

\* Bound: the demo serves one local reviewer, whose requests follow each other.
Submit(r, f) ==
    /\ pc[r] = "idle"
    /\ mode = "fixture_demo" => \A q \in Requests : pc[q] \in {"idle", "closed"}
    /\ form' = [form EXCEPT ![r] = f]
    /\ todo' = [todo EXCEPT ![r] = Requested(r, f)]
    /\ IF Requested(r, f) = <<>>
       THEN Answer(r, "nothing") /\ UNCHANGED savepoints
       ELSE /\ pc' = [pc EXCEPT ![r] = "create"]
            /\ IF f.path = "update" THEN Push(r, work[Connection(r)])
               ELSE UNCHANGED savepoints
            /\ UNCHANGED answer
    /\ UNCHANGED <<mode, db, work, created>>

\* _validated_reviewer_note_text raises before anything is written.
Reject(r) ==
    /\ pc[r] = "create"
    /\ Head(todo[r]) = "note"
    /\ form[r].note = "blocked"
    /\ pc' = [pc EXCEPT ![r] = "failed"]
    /\ UNCHANGED <<mode, db, work, savepoints, form, todo, answer, created>>

\* A row of hosted_reviewer_created_state or of hosted_audit_events.
Row(r, table, id) ==
    [table |-> table, id |-> id, request |-> r, kind |-> Head(todo[r]),
     status |-> IF Head(todo[r]) = "status" THEN form[r].status ELSE None]

\* Fault: the row is inserted before the savepoint.
CreateRowBeforeSavepoint(r) ==
    LET c == Connection(r)
    IN /\ pc[r] = "create"
       /\ ~(Head(todo[r]) = "note" /\ form[r].note = "blocked")
       /\ created < MaxRows
       /\ created' = created + 1
       /\ work' = [work EXCEPT ![c] = Append(@, Row(r, "state", created + 1))]
       /\ Push(r, work'[c])
       /\ pc' = [pc EXCEPT ![r] = "audit"]
       /\ UNCHANGED <<mode, db, form, todo, answer>>

\* create_reviewer_created_state_scaffold: savepoint and row.
CreateRow(r) ==
    LET c == Connection(r)
    IN /\ pc[r] = "create"
       /\ ~(Head(todo[r]) = "note" /\ form[r].note = "blocked")
       /\ created < MaxRows
       /\ created' = created + 1
       /\ Push(r, work[c])
       /\ work' = [work EXCEPT ![c] = Append(@, Row(r, "state", created + 1))]
       /\ pc' = [pc EXCEPT ![r] = "audit"]
       /\ UNCHANGED <<mode, db, form, todo, answer>>

\* The row this request is about to audit.
Current(r) ==
    LET rows == work[Connection(r)]
    IN rows[Newest({i \in StateRows(rows) : rows[i].request = r})].id

\* create_hosted_audit_event, then the savepoint is released.
CreateAudit(r) ==
    LET c == Connection(r)
    IN /\ pc[r] = "audit"
       /\ work' = [work EXCEPT ![c] = Append(@, Row(r, "audit", Current(r)))]
       /\ Pop(r)
       /\ todo' = [todo EXCEPT ![r] = Tail(@)]
       /\ pc' = [pc EXCEPT ![r] = IF Len(todo[r]) = 1 THEN "finish" ELSE "create"]
       /\ UNCHANGED <<mode, db, form, answer, created>>

\* The audit event cannot be written: the block's savepoint is rolled back.
AuditFails(r) ==
    /\ pc[r] = "audit"
    /\ RollBackTo(r)
    /\ pc' = [pc EXCEPT ![r] = "failed"]
    /\ UNCHANGED <<mode, db, form, todo, answer, created>>

\* savepoint.commit() of the combined form, and the page that says saved.
Finish(r) ==
    /\ pc[r] = "finish"
    /\ IF form[r].path = "update" THEN Pop(r) ELSE UNCHANGED savepoints
    /\ Answer(r, "saved")
    /\ UNCHANGED <<mode, db, work, form, todo, created>>

\* Fault: the error page is returned without a rollback.
UndoNothing(r) ==
    /\ pc[r] = "failed"
    /\ IF form[r].path = "update" THEN Pop(r) ELSE UNCHANGED savepoints
    /\ Answer(r, "not_saved")
    /\ UNCHANGED <<mode, db, work, form, todo, created>>

\* savepoint.rollback() of the combined form, and the page that says not saved.
Undo(r) ==
    /\ pc[r] = "failed"
    /\ IF form[r].path = "update" THEN RollBackTo(r) ELSE UNCHANGED <<work, savepoints>>
    /\ Answer(r, "not_saved")
    /\ UNCHANGED <<mode, db, form, todo, created>>

\* The request's resources are closed and the response is sent. A connection that
\* is closed rolls back what nobody has committed; the demo's stays open.
Close(r) ==
    /\ pc[r] = "answered"
    /\ pc' = [pc EXCEPT ![r] = "closed"]
    /\ IF mode = "postgres"
       THEN /\ work' = [work EXCEPT ![r] = <<>>]
            /\ savepoints' = [savepoints EXCEPT ![r] = <<>>]
       ELSE UNCHANGED <<work, savepoints>>
    /\ UNCHANGED <<mode, db, form, todo, answer, created>>

\* The server stops and starts again: open transactions are rolled back, and the
\* in-memory database is made anew.
Restart ==
    /\ work' = [c \in Connections |-> <<>>]
    /\ savepoints' = [c \in Connections |-> <<>>]
    /\ pc' = [r \in Requests |-> IF pc[r] = "idle" THEN "idle" ELSE "closed"]
    /\ todo' = [r \in Requests |-> <<>>]
    /\ UNCHANGED <<mode, db, form, answer, created>>

Step(r) ==
    \/ Reject(r)
    \/ CreateRow(r)
    \/ CreateAudit(r)
    \/ AuditFails(r)
    \/ Finish(r)
    \/ Undo(r)
    \/ Close(r)

Next ==
    \/ \E r \in Requests : (\E f \in Forms : Submit(r, f)) \/ Step(r)
    \/ Restart

Spec == Init /\ [][Next]_vars

-----------------------------------------------------------------------------
(* Properties.                                                             *)

\* "If the audit row cannot be created, the reviewer-created state write is
\* rolled back": outside the savepoints, a connection sees a saved item with its
\* audit event or sees neither, whatever fails and is undone.
AuditPaired ==
    \A c \in Connections :
        savepoints[c] = <<>> =>
            LET ids(t) == {e.id : e \in {View(c)[i] : i \in {j \in DOMAIN View(c) :
                                                             View(c)[j].table = t}}}
            IN ids("state") = ids("audit")

\* "An unsuccessful combined update does not leave a partial status or note",
\* and a saved one has put in all that was asked.
AllOrNothing ==
    \A r \in Requests :
        pc[r] = "answered" =>
            LET rows == View(Connection(r))
                mine == {i \in DOMAIN rows : rows[i].request = r}
            IN IF answer[r] = "saved"
               THEN /\ mine # {}
                    /\ form[r].note # "none" => rows[Newest(mine)].kind = "note"
               ELSE mine = {}

\* The page that answers a save shows the status that was saved as the latest one,
\* while the record has no more rows than a page reads.
SavedStatusShown ==
    \A r \in Requests :
        LET rows == View(Connection(r))
        IN (/\ pc[r] = "answered"
            /\ answer[r] = "saved"
            /\ form[r].status # None
            /\ Cardinality(StateRows(rows)) <= PageSize)
           => LatestStatus(rows) = form[r].status

\* "Use the single review-update form to save a status and, when useful, a note
\* together": what a response has called saved is in the database once the
\* request is over.
SavedIsDurable ==
    \A r \in Requests :
        (mode = "postgres" /\ pc[r] = "closed" /\ answer[r] = "saved")
        => \E i \in DOMAIN db : db[i].request = r
=============================================================================
