-------------------------- MODULE SnapshotOperators --------------------------
(***************************************************************************)
(* Operators who run the TransparencyAPI lifecycle commands                *)
(* (cli/transparencyapi_snapshot_lifecycle.py) at the same time. Each      *)
(* command is one PostgreSQL transaction at READ COMMITTED, so a command   *)
(* is the statements that read and, later, the one that writes and         *)
(* commits; other commands commit in between. promote and rollback first   *)
(* compare the pointer with the values the operator copied from status,    *)
(* with SELECT ... FOR UPDATE, which locks the row and locks nothing       *)
(* while there is none.                                                    *)
(***************************************************************************)
EXTENDS SnapshotTables

CONSTANT Operators

ASSUME OperatorsAssumption == None \notin Operators

VARIABLES
    state, evidence,    \* as in SnapshotLifecycle
    pointer,            \* row of the TransparencyAPI pointer, <<active, prior>>
    lock,               \* who holds the lock of that row
    pc,                 \* where each operator's command is
    arg,                \* the package or snapshot the command is about
    seen,               \* pointer that the operator's last status reported
    read                \* pointer that the running command read

vars == <<state, evidence, pointer, lock, pc, arg, seen, read>>

NoRow == <<None, None>>
Pointers == (SnapshotIds \cup {None}) \X (SnapshotIds \cup {None})

TypeOK ==
    /\ state \in [SnapshotIds -> States]
    /\ evidence \in [SnapshotIds -> Evidence \cup {None}]
    /\ pointer \in Pointers
    /\ lock \in Operators \cup {None}
    /\ pc \in [Operators -> {"idle", "stage", "validate", "accept",
                             "promote", "move", "rollback"}]
    /\ arg \in [Operators -> Packages \cup SnapshotIds \cup {None}]
    /\ seen \in [Operators -> Pointers]
    /\ read \in [Operators -> Pointers]

Init ==
    /\ state = [s \in SnapshotIds |-> "absent"]
    /\ evidence = [s \in SnapshotIds |-> None]
    /\ pointer = NoRow
    /\ lock = None
    /\ pc = [o \in Operators |-> "idle"]
    /\ arg = [o \in Operators |-> None]
    /\ seen = [o \in Operators |-> NoRow]
    /\ read = [o \in Operators |-> NoRow]

-----------------------------------------------------------------------------

\* A command's transaction starts; later steps find what it read.
Begin(o, step, a, row) ==
    /\ pc[o] = "idle"
    /\ pc' = [pc EXCEPT ![o] = step]
    /\ arg' = [arg EXCEPT ![o] = a]
    /\ read' = [read EXCEPT ![o] = row]

\* Fault: the row lock outlives the transaction.
EndKeepsLock(o) ==
    /\ pc' = [pc EXCEPT ![o] = "idle"]
    /\ arg' = [arg EXCEPT ![o] = None]
    /\ read' = [read EXCEPT ![o] = NoRow]
    /\ UNCHANGED lock

\* Commit or rollback of o's transaction, which gives up its row lock.
End(o) ==
    /\ pc' = [pc EXCEPT ![o] = "idle"]
    /\ arg' = [arg EXCEPT ![o] = None]
    /\ read' = [read EXCEPT ![o] = NoRow]
    /\ lock' = IF lock = o THEN None ELSE lock

Status(o) ==
    /\ pc[o] = "idle"
    /\ seen' = [seen EXCEPT ![o] = pointer]
    /\ UNCHANGED <<state, evidence, pointer, lock, pc, arg, read>>

StageRead(o, p) ==
    /\ p.scope = "transparencyapi"
    /\ Begin(o, "stage", p, pointer)
    /\ UNCHANGED <<state, evidence, pointer, lock, seen>>

\* Fault: the insert overwrites an identity that exists by now.
StageCommitUpserts(o) ==
    LET p == arg[o]
        base == read[o][1]
    IN /\ pc[o] = "stage"
       /\ state' = [state EXCEPT ![p.snapshot_id] = "candidate"]
       /\ evidence' = [evidence EXCEPT ![p.snapshot_id] =
                          Inspect(p, base, evidence[base])]
       /\ End(o)
       /\ UNCHANGED <<pointer, seen>>

\* The insert of an identity that exists by now is refused, by the check for an
\* existing row or by the primary key.
StageCommit(o) ==
    LET p == arg[o]
        base == read[o][1]
    IN /\ pc[o] = "stage"
       /\ IF state[p.snapshot_id] = "absent"
          THEN /\ state' = [state EXCEPT ![p.snapshot_id] = "candidate"]
               /\ evidence' = [evidence EXCEPT ![p.snapshot_id] =
                                  Inspect(p, base, evidence[base])]
          ELSE UNCHANGED <<state, evidence>>
       /\ End(o)
       /\ UNCHANGED <<pointer, seen>>

ValidateRead(o, s) ==
    /\ state[s] = "candidate"
    /\ Begin(o, "validate", s, pointer)
    /\ UNCHANGED <<state, evidence, pointer, lock, seen>>

\* Fault: the stored reasons for rejection are ignored.
ValidateCommitIgnoresRejection(o) ==
    /\ pc[o] = "validate"
    /\ state' = [state EXCEPT ![arg[o]] = "validated"]
    /\ End(o)
    /\ UNCHANGED <<evidence, pointer, seen>>

\* The update names the snapshot only, not the state that was read.
ValidateCommit(o) ==
    /\ pc[o] = "validate"
    /\ state' = [state EXCEPT ![arg[o]] =
                    IF evidence[arg[o]].rejected THEN "rejected" ELSE "validated"]
    /\ End(o)
    /\ UNCHANGED <<evidence, pointer, seen>>

AcceptRead(o, s) ==
    /\ state[s] = "validated"
    /\ Begin(o, "accept", s, pointer)
    /\ UNCHANGED <<state, evidence, pointer, lock, seen>>

AcceptCommit(o) ==
    /\ pc[o] = "accept"
    /\ state' = [state EXCEPT ![arg[o]] = "accepted"]
    /\ End(o)
    /\ UNCHANGED <<evidence, pointer, seen>>

\* Fault: SELECT without FOR UPDATE.
GuardPointerUnlocked(o) ==
    /\ seen[o] = pointer
    /\ UNCHANGED lock

\* _guard_pointer(lock=True): waits while another command holds the row, then
\* lets the command go on if the row is the one that status reported.
GuardPointer(o) ==
    /\ pointer # NoRow => lock = None
    /\ seen[o] = pointer
    /\ lock' = IF pointer = NoRow THEN lock ELSE o

PromoteGuard(o, s) ==
    /\ GuardPointer(o)
    /\ Begin(o, "promote", s, NoRow)
    /\ UNCHANGED <<state, evidence, pointer, seen>>

\* promote_source_snapshot reads the snapshot and, once more, the pointer. A
\* snapshot that is not accepted raises; the active one is left active.
PromoteRead(o) ==
    /\ pc[o] = "promote"
    /\ IF state[arg[o]] = "accepted" /\ pointer[1] # arg[o]
       THEN /\ pc' = [pc EXCEPT ![o] = "move"]
            /\ read' = [read EXCEPT ![o] = pointer]
            /\ UNCHANGED <<lock, arg>>
       ELSE End(o)
    /\ UNCHANGED <<state, evidence, pointer, seen>>

\* Fault: the whole row that was read becomes the prior snapshot.
PromoteCommitWrongColumn(o) ==
    /\ pc[o] = "move"
    /\ lock \in {None, o}
    /\ pointer' = <<arg[o], read[o]>>
    /\ End(o)
    /\ UNCHANGED <<state, evidence, seen>>

\* It inserts the row, which the primary key refuses if there is one by now, or
\* updates it, once nobody else holds it.
PromoteCommit(o) ==
    /\ pc[o] = "move"
    /\ lock \in {None, o}
    /\ pointer' = IF read[o] = NoRow /\ pointer # NoRow
                  THEN pointer
                  ELSE <<arg[o], read[o][1]>>
    /\ End(o)
    /\ UNCHANGED <<state, evidence, seen>>

\* Without a row the command raises: status reports no active snapshot, and
\* rollback_source_snapshot finds none to expect.
RollbackGuard(o) ==
    /\ pointer # NoRow
    /\ GuardPointer(o)
    /\ Begin(o, "rollback", None, pointer)
    /\ UNCHANGED <<state, evidence, pointer, seen>>

\* rollback_source_snapshot; without an accepted prior snapshot it raises.
RollbackCommit(o) ==
    /\ pc[o] = "rollback"
    /\ pointer' = IF /\ pointer[2] # None
                     /\ state[pointer[1]] = "accepted"
                     /\ state[pointer[2]] = "accepted"
                  THEN <<pointer[2], pointer[1]>>
                  ELSE pointer
    /\ End(o)
    /\ UNCHANGED <<state, evidence, seen>>

\* The process or its connection dies: PostgreSQL rolls the transaction back.
Crash(o) ==
    /\ pc[o] # "idle"
    /\ End(o)
    /\ UNCHANGED <<state, evidence, pointer, seen>>

Finish(o) ==
    \/ StageCommit(o)
    \/ ValidateCommit(o)
    \/ AcceptCommit(o)
    \/ PromoteRead(o)
    \/ PromoteCommit(o)
    \/ RollbackCommit(o)

Next ==
    \E o \in Operators :
        \/ Status(o)
        \/ \E p \in Packages : StageRead(o, p)
        \/ \E s \in SnapshotIds :
              ValidateRead(o, s) \/ AcceptRead(o, s) \/ PromoteGuard(o, s)
        \/ RollbackGuard(o)
        \/ Finish(o)
        \/ Crash(o)

Spec == Init /\ [][Next]_vars

\* A started command runs on: nothing in it waits for a person.
FairSpec == Spec /\ \A o \in Operators : WF_vars(Finish(o))

-----------------------------------------------------------------------------
(* Properties.                                                             *)

\* However commands overlap, the pointer names two different snapshots that
\* passed validation, and a rejected snapshot is never accepted or served.
OnlyValidatedServed ==
    /\ \A s \in SnapshotIds :
          state[s] \in {"validated", "accepted"} => ~evidence[s].rejected
    /\ \A s \in {pointer[1], pointer[2]} \ {None} :
          state[s] \in {"validated", "accepted"}
    /\ pointer # NoRow => pointer[1] # None /\ pointer[1] # pointer[2]

\* A command whose guard matched a row of the pointer table changes that row
\* and no other: no promotion or rollback committed in between is lost.
LockedGuardHolds ==
    [][\A o \in Operators :
          (/\ pc[o] \in {"move", "rollback"}
           /\ pc'[o] = "idle"
           /\ pointer' # pointer
           /\ seen[o] # NoRow) => pointer = seen[o]]_vars

\* The evidence of a snapshot is the one of the first stage that committed,
\* also when two stages of one identity overlap.
EvidenceImmutable ==
    [][\A s \in SnapshotIds :
          state[s] # "absent" => evidence'[s] = evidence[s]]_vars

\* The pointer row never stays locked.
LockReleased == \A o \in Operators : (lock = o) ~> (lock # o)
=============================================================================
